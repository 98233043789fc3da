---------------------------- MODULE AccessLeases ----------------------------
(***************************************************************************)
(* The access leases of BufferManager: before an operation is submitted to *)
(* a worker it reserves, in one call, read or write access to every        *)
(* managed allocation it touches, and holds the reservation until it is    *)
(* released.  All bookkeeping happens under one condition variable         *)
(* (_access_changed), so one critical section is one action; what may      *)
(* interleave is who enters it next, who has been notified, and an         *)
(* exception raised in Condition.wait.                                     *)
(*                                                                         *)
(* The list _access_waiters is modelled by the set of queued threads and,  *)
(* for each, the set of those in front of it.                              *)
(***************************************************************************)
EXTENDS Integers, FiniteSets

CONSTANTS Threads,  \* the threads that run operations
          Keys      \* access keys: (buffer, generation, allocation)

ASSUME ThreadsAssumption == IsFiniteSet(Threads)

VARIABLES
    leasesClosed,   \* the manager is closed
    readers,        \* _access_states[k].readers, 0 if there is no state
    writer,         \* the keys k with _access_states[k].writer set
    waiters,        \* the threads with a waiter in _access_waiters
    ahead,          \* for a queued thread: those in front of it
    granted,        \* the threads asleep whose waiter has been granted
    signalled,      \* the threads asleep that notify_all has reached
    reads, writes,  \* the accesses of each thread's current operation
    pc              \* idle, called, waiting, holding

stateVars == <<readers, writer>>
queueVars == <<waiters, ahead>>
leaseVars == <<leasesClosed, stateVars, queueVars, granted, signalled, reads,
               writes, pc>>

-----------------------------------------------------------------------------
Accesses(t) == reads[t] \cup writes[t]

Waiting == {t \in Threads : pc[t] = "waiting"}

LeaseInit ==
    /\ leasesClosed = FALSE
    /\ readers = [k \in Keys |-> 0]
    /\ writer = {}
    /\ waiters = {}
    /\ ahead = [t \in Threads |-> {}]
    /\ granted = {} /\ signalled = {}
    /\ reads = [t \in Threads |-> {}]
    /\ writes = [t \in Threads |-> {}]
    /\ pc = [t \in Threads |-> "idle"]

\* Fault: a writer does not wait for the readers to leave.
CanGrant_IgnoresReaders(t, rd, wr) == Accesses(t) \cap wr = {}

(***************************************************************************)
(* _can_grant_access, against the access states rd and wr.                 *)
(***************************************************************************)
CanGrant(t, rd, wr) ==
    /\ Accesses(t) \cap wr = {}
    /\ \A k \in writes[t] : rd[k] = 0

(***************************************************************************)
(* Whether t is compatible with u, granted before it in the same scan.     *)
(***************************************************************************)
Compatible(t, u) ==
    /\ writes[u] \cap Accesses(t) = {}
    /\ writes[t] \cap Accesses(u) = {}

\* Fault: waiters that stay blocked do not hold back those behind them.
Grants_NoBlocking(Q, A, rd, wr, G) ==
    /\ G \subseteq Q
    /\ leasesClosed => G = {}
    /\ ~leasesClosed => \A t \in Q :
          t \in G <=> /\ CanGrant(t, rd, wr)
                      /\ \A u \in A[t] \cap G : Compatible(t, u)

(***************************************************************************)
(* _grant_access_waiters: G is the set of waiters one pass over the queue  *)
(* Q grants, front to back.  A waiter is granted unless it shares a key    *)
(* with one in front that stays blocked, or its accesses conflict with the *)
(* access states, which count those granted earlier in the pass.  A closed *)
(* manager grants nothing.                                                 *)
(***************************************************************************)
Grants(Q, A, rd, wr, G) ==
    /\ G \subseteq Q
    /\ leasesClosed => G = {}
    /\ ~leasesClosed => \A t \in Q :
          t \in G <=> /\ \A u \in A[t] \ G : Accesses(u) \cap Accesses(t) = {}
                      /\ CanGrant(t, rd, wr)
                      /\ \A u \in A[t] \cap G : Compatible(t, u)

\* What the pass does to the access states.
Acquire(rd, wr, G) ==
    /\ readers' = [k \in Keys |-> rd[k] + Cardinality({t \in G : k \in reads[t]})]
    /\ writer' = wr \cup UNION {writes[t] : t \in G}

\* Waiters leave the list; the others keep their order.
Dequeue(Q, A, gone) ==
    /\ waiters' = Q \ gone
    /\ ahead' = [t \in Threads |-> A[t] \ gone]

\* _release_access_locked
ReadersWithout(t) ==
    [k \in Keys |-> IF k \in reads[t] THEN readers[k] - 1 ELSE readers[k]]
WriterWithout(t) == writer \ writes[t]

-----------------------------------------------------------------------------
(***************************************************************************)
(* An operation calls reserve_access for the allocations it reads (R) and  *)
(* writes (W); an allocation in both counts as written.                    *)
(***************************************************************************)
Call(t, R, W) ==
    /\ pc[t] = "idle"
    /\ reads' = [reads EXCEPT ![t] = R \ W]
    /\ writes' = [writes EXCEPT ![t] = W]
    /\ pc' = [pc EXCEPT ![t] = "called"]
    /\ UNCHANGED <<leasesClosed, stateVars, queueVars, granted, signalled>>

\* A closed manager refuses the call.
ReserveRefused(t) ==
    /\ pc[t] = "called"
    /\ leasesClosed
    /\ pc' = [pc EXCEPT ![t] = "idle"]
    /\ UNCHANGED <<leasesClosed, stateVars, queueVars, granted, signalled, reads,
                   writes>>

\* No managed tensor is involved: an empty lease, without a waiter.
ReserveNothing(t) ==
    /\ pc[t] = "called"
    /\ ~leasesClosed
    /\ Accesses(t) = {}
    /\ pc' = [pc EXCEPT ![t] = "holding"]
    /\ UNCHANGED <<leasesClosed, stateVars, queueVars, granted, signalled, reads,
                   writes>>

\* Queue a waiter, scan the queue, and sleep unless this waiter was granted.
Reserve(t) ==
    /\ pc[t] = "called"
    /\ ~leasesClosed
    /\ Accesses(t) # {}
    /\ LET Q == waiters \cup {t}
           A == [ahead EXCEPT ![t] = waiters]
       IN  \E G \in SUBSET Q :
             /\ Grants(Q, A, readers, writer, G)
             /\ Acquire(readers, writer, G)
             /\ Dequeue(Q, A, G)
             /\ granted' = granted \cup (G \ {t})
             /\ pc' = [pc EXCEPT ![t] = IF t \in G THEN "holding" ELSE "waiting"]
    /\ UNCHANGED <<leasesClosed, signalled, reads, writes>>

(***************************************************************************)
(* A notified sleeper goes round the loop of reserve_access: it returns    *)
(* the lease if its waiter was granted meanwhile, ...                      *)
(***************************************************************************)
WakeGranted(t) ==
    /\ pc[t] = "waiting"
    /\ t \in signalled /\ t \in granted
    /\ granted' = granted \ {t}
    /\ signalled' = signalled \ {t}
    /\ pc' = [pc EXCEPT ![t] = "holding"]
    /\ UNCHANGED <<leasesClosed, stateVars, queueVars, reads, writes>>

\* ... raises if the manager has been closed, taking its waiter back, ...
WakeClosed(t) ==
    /\ pc[t] = "waiting"
    /\ t \in signalled /\ t \notin granted
    /\ leasesClosed
    /\ Dequeue(waiters, ahead, {t})
    /\ signalled' = Waiting \ {t}
    /\ pc' = [pc EXCEPT ![t] = "idle"]
    /\ UNCHANGED <<leasesClosed, stateVars, granted, reads, writes>>

\* ... and otherwise scans the queue and sleeps again if still not granted.
WakeAgain(t) ==
    /\ pc[t] = "waiting"
    /\ t \in signalled /\ t \notin granted
    /\ ~leasesClosed
    /\ \E G \in SUBSET waiters :
         /\ Grants(waiters, ahead, readers, writer, G)
         /\ Acquire(readers, writer, G)
         /\ Dequeue(waiters, ahead, G)
         /\ granted' = granted \cup (G \ {t})
         /\ pc' = [pc EXCEPT ![t] = IF t \in G THEN "holding" ELSE "waiting"]
    /\ signalled' = signalled \ {t}
    /\ UNCHANGED <<leasesClosed, reads, writes>>

\* Fault: the queue is not scanned after the waiter left it.
Interrupt_NoRescan(t) ==
    /\ pc[t] = "waiting"
    /\ readers' = IF t \in granted THEN ReadersWithout(t) ELSE readers
    /\ writer' = IF t \in granted THEN WriterWithout(t) ELSE writer
    /\ Dequeue(waiters, ahead, {t})
    /\ granted' = granted \ {t}
    /\ signalled' = Waiting \ {t}
    /\ pc' = [pc EXCEPT ![t] = "idle"]
    /\ UNCHANGED <<leasesClosed, reads, writes>>

(***************************************************************************)
(* An exception in Condition.wait (a KeyboardInterrupt, say): the handler  *)
(* gives back what was granted behind the sleeper's back or takes the      *)
(* waiter out of the queue, lets others in, and re-raises.                 *)
(***************************************************************************)
Interrupt(t) ==
    /\ pc[t] = "waiting"
    /\ LET rd == IF t \in granted THEN ReadersWithout(t) ELSE readers
           wr == IF t \in granted THEN WriterWithout(t) ELSE writer
           Q == waiters \ {t}
           A == [u \in Threads |-> ahead[u] \ {t}]
       IN  \E G \in SUBSET Q :
             /\ Grants(Q, A, rd, wr, G)
             /\ Acquire(rd, wr, G)
             /\ Dequeue(Q, A, G)
             /\ granted' = (granted \ {t}) \cup G
    /\ signalled' = Waiting \ {t}
    /\ pc' = [pc EXCEPT ![t] = "idle"]
    /\ UNCHANGED <<leasesClosed, reads, writes>>

\* Fault: the release scans the queue and notifies nobody.
ReleaseAccess_Silent(t) ==
    /\ pc[t] = "holding"
    /\ \E G \in SUBSET waiters :
         /\ Grants(waiters, ahead, ReadersWithout(t), WriterWithout(t), G)
         /\ Acquire(ReadersWithout(t), WriterWithout(t), G)
         /\ Dequeue(waiters, ahead, G)
         /\ granted' = granted \cup G
    /\ pc' = [pc EXCEPT ![t] = "idle"]
    /\ UNCHANGED <<leasesClosed, signalled, reads, writes>>

\* The lease is released (once: BufferAccessLease.release forgets its manager).
ReleaseAccess(t) ==
    /\ pc[t] = "holding"
    /\ \E G \in SUBSET waiters :
         /\ Grants(waiters, ahead, ReadersWithout(t), WriterWithout(t), G)
         /\ Acquire(ReadersWithout(t), WriterWithout(t), G)
         /\ Dequeue(waiters, ahead, G)
         /\ granted' = granted \cup G
    /\ signalled' = Waiting
    /\ pc' = [pc EXCEPT ![t] = "idle"]
    /\ UNCHANGED <<leasesClosed, reads, writes>>

\* The first step of BufferManager.close: refuse new leases, wake everyone.
Close ==
    /\ ~leasesClosed
    /\ leasesClosed' = TRUE
    /\ signalled' = Waiting
    /\ UNCHANGED <<stateVars, queueVars, granted, reads, writes, pc>>

-----------------------------------------------------------------------------
Wake(t) == WakeGranted(t) \/ WakeClosed(t) \/ WakeAgain(t)

LeaseNext ==
    \/ \E t \in Threads :
         \/ \E R, W \in SUBSET Keys : Call(t, R, W)
         \/ ReserveRefused(t) \/ ReserveNothing(t) \/ Reserve(t)
         \/ Wake(t) \/ Interrupt(t) \/ ReleaseAccess(t)
    \/ Close

LeaseSpec == LeaseInit /\ [][LeaseNext]_leaseVars

(***************************************************************************)
(* A notified thread gets the lock again and an operation that holds a     *)
(* lease ends.  Nobody has to call, interrupt or close.                    *)
(***************************************************************************)
LeaseFairness ==
    \A t \in Threads : WF_leaseVars(Wake(t)) /\ WF_leaseVars(ReleaseAccess(t))

FairLeaseSpec == LeaseSpec /\ LeaseFairness

-----------------------------------------------------------------------------
(* The fields of _AccessState and of the waiters have their types: a       *)
(* reader count never drops below zero, however waits are interrupted.     *)
LeaseTypeOK ==
    /\ leasesClosed \in BOOLEAN
    /\ readers \in [Keys -> Nat]
    /\ writer \subseteq Keys
    /\ waiters \subseteq Threads
    /\ ahead \in [Threads -> SUBSET Threads]
    /\ granted \subseteq Threads /\ signalled \subseteq Threads
    /\ reads \in [Threads -> SUBSET Keys] /\ writes \in [Threads -> SUBSET Keys]
    /\ pc \in [Threads -> {"idle", "called", "waiting", "holding"}]

(***************************************************************************)
(* The operations that may touch their allocations: a lease in hand, or    *)
(* granted to a thread that has not woken up yet.                          *)
(***************************************************************************)
Holders == {t \in Threads : pc[t] = "holding"} \cup granted

(***************************************************************************)
(* A written allocation is in no other operation's hands: writers exclude  *)
(* readers and writers.                                                    *)
(***************************************************************************)
ExclusiveAmong(H) ==
    \A t, u \in H : t # u => writes[t] \cap Accesses(u) = {}

Exclusive == ExclusiveAmong(Holders)

(***************************************************************************)
(* The reader counts and writer flags are exactly those of the leases      *)
(* outstanding, on the exception paths too: nothing leaks, nothing is      *)
(* given back twice.                                                       *)
(***************************************************************************)
StatesOf(H, rd, wr) ==
    \A k \in Keys :
        /\ rd[k] = Cardinality({t \in H : k \in reads[t]})
        /\ k \in wr <=> \E t \in H : k \in writes[t]

StatesMatchHolders == StatesOf(Holders, readers, writer)

(***************************************************************************)
(* No thread sleeps on an access it could be granted: whatever frees or    *)
(* unblocks it has scanned the queue.  (A newcomer scans but notifies      *)
(* nobody, which is sound only because of this.)                           *)
(***************************************************************************)
NobodyForgotten ==
    ~leasesClosed => \A t \in waiters :
        \/ \E u \in ahead[t] : Accesses(u) \cap Accesses(t) # {}
        \/ ~CanGrant(t, readers, writer)

(***************************************************************************)
(* Queued writers are not bypassed by later readers, nor any queued        *)
(* operation by a later one that shares an allocation with it.             *)
(***************************************************************************)
NoBypass ==
    [][\A t \in Holders' \ Holders, u \in waiters :
          (t \in waiters => u \in ahead[t]) /\ u \in waiters' =>
              Accesses(u) \cap Accesses(t) = {}]_leaseVars

(***************************************************************************)
(* Every reservation is eventually granted or refused, however many        *)
(* operations keep arriving and whenever the manager is closed.            *)
(***************************************************************************)
Served(t) == pc[t] = "waiting" ~> pc[t] # "waiting"

-----------------------------------------------------------------------------
(***************************************************************************)
(* The inductive invariant: the queue is totally ordered, and who waits,   *)
(* who is granted and who is in the queue fit together.                    *)
(***************************************************************************)
QueueInv ==
    /\ waiters \subseteq Waiting /\ granted \subseteq Waiting
    /\ waiters \cap granted = {}
    /\ \A t \in waiters : ahead[t] \subseteq waiters
    /\ \A t, u \in waiters : t # u => t \in ahead[u] \/ u \in ahead[t]

LeaseInv == LeaseTypeOK /\ QueueInv /\ StatesMatchHolders /\ Exclusive
=============================================================================
