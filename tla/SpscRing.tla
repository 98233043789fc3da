------------------------------ MODULE SpscRing ------------------------------
(***************************************************************************)
(* One direction of the transport between the host and a worker: a single- *)
(* producer single-consumer ring of records in a memfd shared by the two   *)
(* processes, with one eventfd that says "data available" and one that     *)
(* says "space available".                                                 *)
(*                                                                         *)
(* Two implementations of each end exist and are paired freely: the native *)
(* one (RingProducer and RingConsumer of ring.cpp, used by the host and by *)
(* C++ workers) and the Python one (RingEndpoint, used by Python workers). *)
(* A behaviour fixes the pairing in its first state.                       *)
(*                                                                         *)
(* Every access to memory the two processes share (a counter, the closed   *)
(* flag, a record slot, an eventfd) is a step of its own.  An eventfd is   *)
(* modelled by whether its count is nonzero, which is all poll and drain   *)
(* tell apart.                                                             *)
(***************************************************************************)
EXTENDS Integers, Sequences

CONSTANTS Records,         \* the records that may be pushed
          NoRecord,        \* contents of a slot never written
          Capacity,        \* number of record slots
          ProducerEnds,    \* {TRUE}: ring.cpp's RingProducer, {FALSE}: Python's
          ConsumerEnds,    \* the same for the consumer; {TRUE, FALSE}: either
          Deadlines,       \* the calls of push and pop pass a finite deadline
          MaxCounter,      \* largest value of a counter (2^64 - 1 in the code)
          MaxRecords       \* bound on the number of records pushed

ASSUME RingAssumption ==
    /\ NoRecord \notin Records
    /\ Capacity \in Nat \ {0}
    /\ ProducerEnds \subseteq BOOLEAN
    /\ ConsumerEnds \subseteq BOOLEAN
    /\ Deadlines \in BOOLEAN
    /\ MaxCounter \in Nat
    /\ MaxRecords \in Nat

(***************************************************************************)
(* RingEndpoint.push has no check for counter overflow, so a Python        *)
(* producer is only considered for as many records as a counter can count. *)
(***************************************************************************)
ASSUME PythonCounterAssumption ==
    FALSE \in ProducerEnds => MaxRecords <= MaxCounter

VARIABLES
    producer, consumer,  \* the two sequence counters of the ring header
    closed,              \* WMFS_RING_HEADER_FLAG_CLOSED
    slots,               \* the record slots
    dataEvent,           \* the data eventfd is readable
    spaceEvent,          \* the space eventfd is readable
    ppc,                 \* where the producer's push is
    precord,             \* the record it pushes
    pretry,              \* native push: this try_push follows the drain
    cpc,                 \* where the consumer's pop is
    cretry,              \* native pop: this try_pop follows the drain
    cseen,               \* the producer counter pop last loaded
    cbuf,                \* the record pop copied out of its slot
    xpc,                 \* where the closing thread is
    native,              \* which ends are the native ones
    sent, received       \* history: records published, records returned

ringVars == <<producer, consumer, closed, slots, dataEvent, spaceEvent>>
pushVars == <<ppc, precord, pretry>>
popVars == <<cpc, cretry, cseen, cbuf>>
closeVars == <<xpc, native>>
vars == <<ringVars, pushVars, popVars, closeVars, sent, received>>

-----------------------------------------------------------------------------
NativeProducer == native.producer
NativeConsumer == native.consumer

Slots == 0 .. Capacity - 1

Slot(counter) == counter % Capacity

\* Fault: one record too few is accepted as a full ring.
ValidCounters_OffByOne ==
    /\ consumer <= producer
    /\ producer - consumer < Capacity

\* validate_counters: anything else is taken for a corrupted ring.
ValidCounters ==
    /\ consumer <= producer
    /\ producer - consumer <= Capacity

Init ==
    /\ producer = 0 /\ consumer = 0
    /\ closed = FALSE
    /\ slots = [s \in Slots |-> NoRecord]
    /\ dataEvent = FALSE /\ spaceEvent = FALSE
    /\ ppc = "idle" /\ precord = NoRecord /\ pretry = FALSE
    /\ cpc = "idle" /\ cretry = FALSE /\ cseen = 0 /\ cbuf = NoRecord
    /\ xpc = "flag"
    /\ native \in [producer : ProducerEnds, consumer : ConsumerEnds]
    /\ sent = <<>> /\ received = <<>>

-----------------------------------------------------------------------------
(***************************************************************************)
(* The producer.  A push ends back at "idle" when it succeeded and at      *)
(* "closed" (RingWaitResult::closed, RingError) or "corrupt" (the counter  *)
(* overflow check) when the session gives up the ring.  A timed-out push   *)
(* also makes the session fail the ring, but the ring itself would accept  *)
(* another push, so it returns to "idle".                                  *)
(***************************************************************************)
PushStart(r) ==
    /\ ppc = "idle"
    /\ Len(sent) < MaxRecords
    /\ precord' = r
    /\ pretry' = FALSE
    /\ ppc' = IF NativeProducer THEN "check" ELSE "load"
    /\ UNCHANGED <<ringVars, popVars, closeVars, sent, received>>

\* try_push first refuses a closed ring; only the native producer does.
PushCheck ==
    /\ ppc = "check"
    /\ ppc' = IF closed THEN "closed" ELSE "load"
    /\ UNCHANGED <<ringVars, precord, pretry, popVars, closeVars, sent,
                   received>>

\* Load the counters, tell a full ring from one with space.
PushLoad ==
    /\ ppc = "load"
    /\ ppc' = CASE ~ValidCounters -> "corrupt"
                [] ValidCounters /\ producer - consumer = Capacity -> "full"
                [] /\ ValidCounters /\ producer - consumer # Capacity
                   /\ NativeProducer /\ producer = MaxCounter -> "corrupt"
                [] OTHER -> "write"
    /\ UNCHANGED <<ringVars, precord, pretry, popVars, closeVars, sent,
                   received>>

PushWrite ==
    /\ ppc = "write"
    /\ slots' = [slots EXCEPT ![Slot(producer)] = precord]
    /\ ppc' = "publish"
    /\ UNCHANGED <<producer, consumer, closed, dataEvent, spaceEvent, precord,
                   pretry, popVars, closeVars, sent, received>>

PushPublish ==
    /\ ppc = "publish"
    /\ producer' = producer + 1
    /\ sent' = Append(sent, precord)
    /\ ppc' = "notify"
    /\ UNCHANGED <<consumer, closed, slots, dataEvent, spaceEvent, precord,
                   pretry, popVars, closeVars, received>>

PushNotify ==
    /\ ppc = "notify"
    /\ dataEvent' = TRUE
    /\ ppc' = "idle"
    /\ UNCHANGED <<producer, consumer, closed, slots, spaceEvent, precord,
                   pretry, popVars, closeVars, sent, received>>

\* The ring was full.  The native push drains the eventfd and tries once more
\* before it waits; the Python one waits and drains afterwards.
PushFull ==
    /\ ppc = "full"
    /\ ppc' = CASE closed -> "closed"
                [] ~closed /\ NativeProducer /\ ~pretry -> "drain"
                [] OTHER -> "wait"
    /\ UNCHANGED <<ringVars, precord, pretry, popVars, closeVars, sent,
                   received>>

PushDrain ==
    /\ ppc = "drain"
    /\ spaceEvent' = FALSE
    /\ pretry' = NativeProducer
    /\ ppc' = IF NativeProducer THEN "check" ELSE "load"
    /\ UNCHANGED <<producer, consumer, closed, slots, dataEvent, precord,
                   popVars, closeVars, sent, received>>

PushWake ==
    /\ ppc = "wait"
    /\ spaceEvent
    /\ pretry' = FALSE
    /\ ppc' = IF NativeProducer THEN "check" ELSE "drain"
    /\ UNCHANGED <<ringVars, precord, popVars, closeVars, sent, received>>

PushTimeout ==
    /\ Deadlines
    /\ ppc = "wait"
    /\ ~spaceEvent
    /\ ppc' = "idle"
    /\ UNCHANGED <<ringVars, precord, pretry, popVars, closeVars, sent,
                   received>>

-----------------------------------------------------------------------------
(***************************************************************************)
(* The consumer.  Unlike a push, a pop looks for a record before it looks  *)
(* at the closed flag: what was published before the close is delivered.   *)
(***************************************************************************)
PopStart ==
    /\ cpc = "idle"
    /\ cpc' = "load"
    /\ cretry' = FALSE
    /\ UNCHANGED <<ringVars, pushVars, cseen, cbuf, closeVars, sent, received>>

PopLoad ==
    /\ cpc = "load"
    /\ cseen' = producer
    /\ cpc' = CASE ~ValidCounters -> "corrupt"
                [] ValidCounters /\ producer = consumer -> "empty"
                [] /\ ValidCounters /\ producer # consumer
                   /\ NativeConsumer /\ consumer = MaxCounter -> "corrupt"
                [] OTHER -> "copy"
    /\ UNCHANGED <<ringVars, pushVars, cretry, cbuf, closeVars, sent,
                   received>>

PopCopy ==
    /\ cpc = "copy"
    /\ cbuf' = slots[Slot(consumer)]
    /\ cpc' = "release"
    /\ UNCHANGED <<ringVars, pushVars, cretry, cseen, closeVars, sent,
                   received>>

\* Fault: everything seen is given back after one record was copied.
PopRelease_AllSeen ==
    /\ cpc = "release"
    /\ consumer' = cseen
    /\ received' = Append(received, cbuf)
    /\ cpc' = "notify"
    /\ UNCHANGED <<producer, closed, slots, dataEvent, spaceEvent, pushVars,
                   cretry, cseen, cbuf, closeVars, sent>>

\* Give the slot back.  The native pop will signal space only if the counters
\* it loaded, before the copy, showed a full ring; the Python one always will.
PopRelease ==
    /\ cpc = "release"
    /\ consumer' = consumer + 1
    /\ received' = Append(received, cbuf)
    /\ cpc' = IF NativeConsumer => cseen - consumer = Capacity
              THEN "notify" ELSE "idle"
    /\ UNCHANGED <<producer, closed, slots, dataEvent, spaceEvent, pushVars,
                   cretry, cseen, cbuf, closeVars, sent>>

PopNotify ==
    /\ cpc = "notify"
    /\ spaceEvent' = TRUE
    /\ cpc' = "idle"
    /\ UNCHANGED <<producer, consumer, closed, slots, dataEvent, pushVars,
                   cretry, cseen, cbuf, closeVars, sent, received>>

PopEmpty ==
    /\ cpc = "empty"
    /\ cpc' = CASE closed -> "closed"
                [] ~closed /\ NativeConsumer /\ ~cretry -> "drain"
                [] OTHER -> "wait"
    /\ UNCHANGED <<ringVars, pushVars, cretry, cseen, cbuf, closeVars, sent,
                   received>>

\* Fault: the counters are not read again after the drain.
PopDrain_NoRecheck ==
    /\ cpc = "drain"
    /\ dataEvent' = FALSE
    /\ cretry' = NativeConsumer
    /\ cpc' = "wait"
    /\ UNCHANGED <<producer, consumer, closed, slots, spaceEvent, pushVars,
                   cseen, cbuf, closeVars, sent, received>>

PopDrain ==
    /\ cpc = "drain"
    /\ dataEvent' = FALSE
    /\ cretry' = NativeConsumer
    /\ cpc' = "load"
    /\ UNCHANGED <<producer, consumer, closed, slots, spaceEvent, pushVars,
                   cseen, cbuf, closeVars, sent, received>>

PopWake ==
    /\ cpc = "wait"
    /\ dataEvent
    /\ cretry' = FALSE
    /\ cpc' = IF NativeConsumer THEN "load" ELSE "drain"
    /\ UNCHANGED <<ringVars, pushVars, cseen, cbuf, closeVars, sent, received>>

PopTimeout ==
    /\ Deadlines
    /\ cpc = "wait"
    /\ ~dataEvent
    /\ cpc' = "idle"
    /\ UNCHANGED <<ringVars, pushVars, cretry, cseen, cbuf, closeVars, sent,
                   received>>

-----------------------------------------------------------------------------
(***************************************************************************)
(* Closing: set the flag, then signal both eventfds (EndpointStorage::close *)
(* and RingEndpoint.interrupt).  Another thread than the two ends may do   *)
(* it, at any moment.                                                      *)
(***************************************************************************)
\* Fault: the flag is set and nobody is woken.
CloseFlag_Silent ==
    /\ xpc = "flag"
    /\ closed' = TRUE
    /\ xpc' = "done"
    /\ UNCHANGED <<producer, consumer, slots, dataEvent, spaceEvent, pushVars,
                   popVars, native, sent, received>>

CloseFlag ==
    /\ xpc = "flag"
    /\ closed' = TRUE
    /\ xpc' = "data"
    /\ UNCHANGED <<producer, consumer, slots, dataEvent, spaceEvent, pushVars,
                   popVars, native, sent, received>>

CloseNotifyData ==
    /\ xpc = "data"
    /\ dataEvent' = TRUE
    /\ xpc' = "space"
    /\ UNCHANGED <<producer, consumer, closed, slots, spaceEvent, pushVars,
                   popVars, native, sent, received>>

CloseNotifySpace ==
    /\ xpc = "space"
    /\ spaceEvent' = TRUE
    /\ xpc' = "done"
    /\ UNCHANGED <<producer, consumer, closed, slots, dataEvent, pushVars,
                   popVars, native, sent, received>>

-----------------------------------------------------------------------------
PushStep ==
    \/ PushCheck \/ PushLoad \/ PushWrite \/ PushPublish \/ PushNotify
    \/ PushFull \/ PushDrain \/ PushWake

PopStep ==
    \/ PopLoad \/ PopCopy \/ PopRelease \/ PopNotify
    \/ PopEmpty \/ PopDrain \/ PopWake

Next ==
    \/ \E r \in Records : PushStart(r)
    \/ PushStep \/ PushTimeout
    \/ PopStart \/ PopStep \/ PopTimeout
    \/ CloseFlag \/ CloseNotifyData \/ CloseNotifySpace

Spec == Init /\ [][Next]_vars

(***************************************************************************)
(* A push in progress keeps running, the consumer pops in a loop (the      *)
(* dispatcher thread of the host, the ring thread of a worker), and a      *)
(* close that has begun is completed.  Nobody is obliged to begin a push   *)
(* or a close, and no deadline has to expire.  That is what the scheduler  *)
(* gives two live processes.                                               *)
(***************************************************************************)
Fairness ==
    /\ WF_vars(PushStep)
    /\ WF_vars(PopStart \/ PopStep)
    /\ WF_vars(CloseNotifyData \/ CloseNotifySpace)

FairSpec == Spec /\ Fairness

-----------------------------------------------------------------------------
PushPCs == {"idle", "check", "load", "write", "publish", "notify", "full",
            "drain", "wait", "closed", "corrupt"}
PopPCs == {"idle", "load", "copy", "release", "notify", "empty", "drain",
           "wait", "closed", "corrupt"}

FlagsOK ==
    /\ closed \in BOOLEAN
    /\ dataEvent \in BOOLEAN /\ spaceEvent \in BOOLEAN
    /\ pretry \in BOOLEAN /\ cretry \in BOOLEAN
    /\ native \in [producer : ProducerEnds, consumer : ConsumerEnds]

(* The counters, slots and program counters have their types: a pop that   *)
(* returns always returns a record or the news that there is none.         *)
TypeOK ==
    /\ FlagsOK
    /\ producer \in Nat /\ consumer \in Nat
    /\ slots \in [Slots -> Records \cup {NoRecord}]
    /\ ppc \in PushPCs /\ precord \in Records \cup {NoRecord}
    /\ cpc \in PopPCs /\ cseen \in Nat
    /\ cbuf \in Records \cup {NoRecord}
    /\ xpc \in {"flag", "data", "space", "done"}
    /\ sent \in Seq(Records) /\ received \in Seq(Records)

(***************************************************************************)
(* A full ring "never overwrites unread records": every record published   *)
(* and not yet consumed still sits in its slot, although the producer      *)
(* decides from a consumer counter that may be stale when it writes.       *)
(***************************************************************************)
UnreadIntact ==
    \A i \in consumer .. producer - 1 : slots[Slot(i)] = sent[i + 1]

(***************************************************************************)
(* What pop returned so far is what push published, in order, nothing      *)
(* lost, doubled, torn or invented.                                        *)
(***************************************************************************)
DeliveredInOrder ==
    /\ Len(received) = consumer
    /\ \A i \in 1 .. consumer : received[i] = sent[i]

(***************************************************************************)
(* Neither end ever takes the other's ordinary concurrent progress for a   *)
(* corrupted ring (validate_counters and the overflow checks).             *)
(***************************************************************************)
NeverCorrupt == ppc # "corrupt" /\ cpc # "corrupt"

(***************************************************************************)
(* The ring implements the bounded FIFO.  The abstract queue is read off   *)
(* the shared memory itself: the slots between the two counters.           *)
(***************************************************************************)
Fifo == INSTANCE BoundedFifo WITH
    queue <- [i \in 1 .. producer - consumer |-> slots[Slot(consumer + i - 1)]],
    shut <- closed

ImplementsFifo == Fifo!FifoSpec

(***************************************************************************)
(* A producer asleep on the space eventfd does not stay asleep while the   *)
(* ring has room: the consumer that made the room signalled it.            *)
(***************************************************************************)
SpaceWakesProducer ==
    (ppc = "wait" /\ producer - consumer < Capacity) ~> ppc # "wait"

(***************************************************************************)
(* A consumer asleep on the data eventfd does not stay asleep while the    *)
(* ring holds a record.                                                    *)
(***************************************************************************)
DataWakesConsumer ==
    (cpc = "wait" /\ producer > consumer) ~> cpc # "wait"

(***************************************************************************)
(* Closing the ring ends every push and pop that waits, without help from  *)
(* the other end and without a deadline.                                   *)
(***************************************************************************)
CloseEndsWaits ==
    /\ (closed /\ ppc = "wait") ~> ppc \in {"closed", "idle"}
    /\ (closed /\ cpc = "wait") ~> cpc \in {"closed", "idle"}
-----------------------------------------------------------------------------
(***************************************************************************)
(* The inductive invariant behind UnreadIntact and DeliveredInOrder: what  *)
(* each end may rely on between the load of the other's counter and its    *)
(* own store, however far the other has moved meanwhile.                   *)
(***************************************************************************)
PushInv ==
    /\ Len(sent) = producer
    /\ ppc # "idle" => precord \in Records
    /\ ppc \in {"check", "load", "write", "publish", "full", "drain", "wait"} =>
           producer < MaxRecords
    /\ ppc \in {"write", "publish"} => producer - consumer < Capacity
    /\ ppc = "publish" => slots[Slot(producer)] = precord

PopInv ==
    /\ cpc \in {"copy", "release"} => consumer < producer
    /\ cpc = "release" => cbuf = sent[consumer + 1]

RingInv ==
    /\ TypeOK
    /\ ValidCounters
    /\ producer <= MaxRecords
    /\ UnreadIntact
    /\ DeliveredInOrder
    /\ PushInv
    /\ PopInv
=============================================================================
