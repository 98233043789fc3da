------------------------- MODULE AccessLeasesProofs -------------------------
(***************************************************************************)
(* Writers exclude everyone else, the reader counts never drift, nobody is *)
(* left asleep who could be granted and nobody is bypassed, for any number *)
(* of threads and allocations.                                             *)
(***************************************************************************)
EXTENDS AccessLeases, FiniteSetTheorems, TLAPS

(***************************************************************************)
(* Taking one holder out of the access states (_release_access_locked).    *)
(***************************************************************************)
LEMMA WithoutHolder ==
    ASSUME LeaseTypeOK, NEW H \in SUBSET Threads, NEW t \in H,
           StatesOf(H, readers, writer), ExclusiveAmong(H)
    PROVE  StatesOf(H \ {t}, ReadersWithout(t), WriterWithout(t))
<1> SUFFICES ASSUME NEW k \in Keys
             PROVE  /\ ReadersWithout(t)[k] =
                         Cardinality({u \in H \ {t} : k \in reads[u]})
                    /\ k \in WriterWithout(t) <=>
                         \E u \in H \ {t} : k \in writes[u]
  BY DEF StatesOf
<1> DEFINE R == {u \in H : k \in reads[u]}
<1>1. IsFiniteSet(R) /\ readers[k] = Cardinality(R)
  <2>1. R \subseteq Threads
    OBVIOUS
  <2> QED
    BY <2>1, ThreadsAssumption, FS_Subset DEF StatesOf
<1>2. ReadersWithout(t)[k] = Cardinality({u \in H \ {t} : k \in reads[u]})
  <2>1. CASE k \in reads[t]
    <3>1. {u \in H \ {t} : k \in reads[u]} = R \ {t} /\ t \in R
      BY <2>1
    <3>2. Cardinality(R \ {t}) = Cardinality(R) - 1
      BY <1>1, <3>1, FS_RemoveElement
    <3> QED
      BY <1>1, <2>1, <3>1, <3>2 DEF ReadersWithout
  <2>2. CASE k \notin reads[t]
    <3>1. {u \in H \ {t} : k \in reads[u]} = R
      BY <2>2
    <3> QED
      BY <1>1, <2>2, <3>1 DEF ReadersWithout
  <2> QED
    BY <2>1, <2>2
<1>3. k \in WriterWithout(t) <=> \E u \in H \ {t} : k \in writes[u]
  BY DEF StatesOf, ExclusiveAmong, WriterWithout, Accesses
<1> QED
  BY <1>2, <1>3

(***************************************************************************)
(* One pass over a totally ordered queue grants accesses that exclude each *)
(* other and those already held, and counts exactly them.                  *)
(***************************************************************************)
LEMMA PassKeepsStates ==
    ASSUME LeaseTypeOK, NEW H \in SUBSET Threads, NEW Q \in SUBSET Threads,
           NEW A \in [Threads -> SUBSET Threads], NEW rd, NEW wr, NEW G,
           H \cap Q = {},
           \A t, u \in Q : t # u => t \in A[u] \/ u \in A[t],
           StatesOf(H, rd, wr), ExclusiveAmong(H),
           Grants(Q, A, rd, wr, G), Acquire(rd, wr, G),
           UNCHANGED <<reads, writes>>
    PROVE  ExclusiveAmong(H \cup G)' /\ StatesOf(H \cup G, readers, writer)'
<1>1. G \subseteq Q
  BY DEF Grants
<1>2. ASSUME NEW t \in G, NEW u \in G, t # u, u \in A[t]
      PROVE  writes[t] \cap Accesses(u) = {} /\ writes[u] \cap Accesses(t) = {}
  BY <1>1, <1>2 DEF Grants, Compatible
<1>3. ASSUME NEW t \in G, NEW u \in H
      PROVE  writes[t] \cap Accesses(u) = {} /\ writes[u] \cap Accesses(t) = {}
  <2>1. CanGrant(t, rd, wr)
    BY <1>1 DEF Grants
  <2>2. writes[u] \subseteq wr
    BY DEF StatesOf, LeaseTypeOK
  <2>3. ASSUME NEW k \in writes[t] PROVE k \notin reads[u]
    <3>1. k \in Keys /\ rd[k] = 0
      BY <1>1, <2>1 DEF CanGrant, LeaseTypeOK
    <3>2. Cardinality({v \in H : k \in reads[v]}) = 0
      BY <3>1 DEF StatesOf
    <3>3. IsFiniteSet({v \in H : k \in reads[v]})
      <4>1. {v \in H : k \in reads[v]} \subseteq Threads
        OBVIOUS
      <4> QED
        BY <4>1, ThreadsAssumption, FS_Subset
    <3>4. {v \in H : k \in reads[v]} = {}
      BY <3>2, <3>3, FS_EmptySet
    <3> QED
      BY <3>4
  <2> QED
    BY <2>1, <2>2, <2>3 DEF CanGrant, Accesses
<1>4. ExclusiveAmong(H \cup G)
  <2> SUFFICES ASSUME NEW t \in H \cup G, NEW u \in H \cup G, t # u
               PROVE  writes[t] \cap Accesses(u) = {}
    BY DEF ExclusiveAmong
  <2>1. CASE t \in H /\ u \in H
    BY <2>1 DEF ExclusiveAmong
  <2>2. CASE t \in G /\ u \in G
    BY <2>2, <1>1, <1>2
  <2>3. CASE (t \in G /\ u \in H) \/ (t \in H /\ u \in G)
    BY <2>3, <1>3
  <2> QED
    BY <2>1, <2>2, <2>3
<1>5. ExclusiveAmong(H \cup G)'
  BY <1>4 DEF ExclusiveAmong, Accesses
<1>6. ASSUME NEW k \in Keys
      PROVE  readers'[k] = Cardinality({t \in H \cup G : k \in reads[t]})
  <2> DEFINE S == {t \in H : k \in reads[t]}
  <2> DEFINE T == {t \in G : k \in reads[t]}
  <2>1. S \subseteq Threads /\ T \subseteq Threads
    BY <1>1
  <2>2. IsFiniteSet(S) /\ IsFiniteSet(T)
    BY <2>1, ThreadsAssumption, FS_Subset
  <2>3. S \cap T = {}
    BY <1>1
  <2>4. Cardinality(S \cup T) = Cardinality(S) + Cardinality(T)
    <3>1. Cardinality(S \cup T) =
              Cardinality(S) + Cardinality(T) - Cardinality(S \cap T)
      BY <2>2, FS_Union
    <3>2. Cardinality(S \cap T) = 0
      BY <2>3, FS_EmptySet
    <3>3. Cardinality(S) \in Nat /\ Cardinality(T) \in Nat
      BY <2>2, FS_CardinalityType
    <3> QED
      BY <3>1, <3>2, <3>3
  <2>5. {t \in H \cup G : k \in reads[t]} = S \cup T
    OBVIOUS
  <2>6. readers'[k] = rd[k] + Cardinality(T)
    BY DEF Acquire
  <2>7. rd[k] = Cardinality(S)
    BY DEF StatesOf
  <2> QED
    BY <2>4, <2>5, <2>6, <2>7
<1>7. ASSUME NEW k \in Keys
      PROVE  k \in writer' <=> \E t \in H \cup G : k \in writes[t]
  BY DEF Acquire, StatesOf
<1>8. StatesOf(H \cup G, readers, writer)'
  BY <1>6, <1>7 DEF StatesOf
<1> QED
  BY <1>5, <1>8

\* A queue Q with the order A, as _access_waiters is.
TotalOrder(Q, A) ==
    /\ \A t \in Q : A[t] \subseteq Q
    /\ \A t, u \in Q : t # u => t \in A[u] \/ u \in A[t]

(***************************************************************************)
(* A total order stays total when waiters leave the list.                  *)
(***************************************************************************)
LEMMA DequeueKeepsOrder ==
    ASSUME NEW Q \in SUBSET Threads, NEW A \in [Threads -> SUBSET Threads],
           NEW gone, TotalOrder(Q, A), Dequeue(Q, A, gone)
    PROVE  /\ waiters' \subseteq Threads /\ ahead' \in [Threads -> SUBSET Threads]
           /\ \A t \in waiters' : ahead'[t] \subseteq waiters'
           /\ \A t, u \in waiters' : t # u => t \in ahead'[u] \/ u \in ahead'[t]
  BY DEF TotalOrder, Dequeue

(***************************************************************************)
(* A pass leaves reader counts that are natural numbers and writer flags   *)
(* for keys only.                                                          *)
(***************************************************************************)
LEMMA PassKeepsTypes ==
    ASSUME LeaseTypeOK, NEW rd \in [Keys -> Nat], NEW wr \in SUBSET Keys,
           NEW G \in SUBSET Threads, Acquire(rd, wr, G)
    PROVE  readers' \in [Keys -> Nat] /\ writer' \subseteq Keys
<1>1. ASSUME NEW k \in Keys
      PROVE  rd[k] + Cardinality({t \in G : k \in reads[t]}) \in Nat
  <2>1. {t \in G : k \in reads[t]} \subseteq Threads
    OBVIOUS
  <2>2. Cardinality({t \in G : k \in reads[t]}) \in Nat
    BY <2>1, ThreadsAssumption, FS_Subset, FS_CardinalityType
  <2> QED
    BY <2>2
<1>2. UNION {writes[t] : t \in G} \subseteq Keys
  BY DEF LeaseTypeOK
<1> QED
  BY <1>1, <1>2 DEF Acquire

(***************************************************************************)
(* Releasing never drives a reader count below zero.                       *)
(***************************************************************************)
LEMMA WithoutTypes ==
    ASSUME LeaseTypeOK, NEW H \in SUBSET Threads, NEW t \in H,
           StatesOf(H, readers, writer), ExclusiveAmong(H)
    PROVE  ReadersWithout(t) \in [Keys -> Nat] /\ WriterWithout(t) \in SUBSET Keys
<1>1. ASSUME NEW k \in Keys PROVE ReadersWithout(t)[k] \in Nat
  <2>1. {u \in H \ {t} : k \in reads[u]} \subseteq Threads
    OBVIOUS
  <2>2. Cardinality({u \in H \ {t} : k \in reads[u]}) \in Nat
    BY <2>1, ThreadsAssumption, FS_Subset, FS_CardinalityType
  <2>3. ReadersWithout(t)[k] = Cardinality({u \in H \ {t} : k \in reads[u]})
    BY WithoutHolder DEF StatesOf
  <2> QED
    BY <2>2, <2>3
<1> QED
  BY <1>1 DEF ReadersWithout, WriterWithout, LeaseTypeOK

-----------------------------------------------------------------------------
(***************************************************************************)
(* No lease is out at first.                                               *)
(***************************************************************************)
LEMMA InitLeaseInv == LeaseInit => LeaseInv
<1> SUFFICES ASSUME LeaseInit PROVE LeaseInv
  OBVIOUS
<1>1. LeaseTypeOK
  BY DEF LeaseInit, LeaseTypeOK
<1>2. Holders = {} /\ Waiting = {}
  BY DEF LeaseInit, Holders, Waiting
<1>3. QueueInv
  BY <1>2 DEF LeaseInit, QueueInv
<1>4. Exclusive
  BY <1>2 DEF Exclusive, ExclusiveAmong
<1>5. StatesMatchHolders
  <2>1. \A k \in Keys : {t \in {} : k \in reads[t]} = {}
    OBVIOUS
  <2> QED
    BY <1>2, <2>1, FS_EmptySet DEF StatesMatchHolders, StatesOf, LeaseInit
<1> QED
  BY <1>1, <1>3, <1>4, <1>5 DEF LeaseInv

(***************************************************************************)
(* The pattern of every action that scans the queue: after taking leavers  *)
(* out of the holders, the pass over (Q, A) adds G to them.                *)
(***************************************************************************)
LEMMA ScanStep ==
    ASSUME LeaseInv, NEW H \in SUBSET Threads, NEW Q \in SUBSET Threads,
           NEW A \in [Threads -> SUBSET Threads],
           NEW rd \in [Keys -> Nat], NEW wr \in SUBSET Keys, NEW G,
           H \cap Q = {}, TotalOrder(Q, A),
           StatesOf(H, rd, wr), ExclusiveAmong(H),
           Grants(Q, A, rd, wr, G), Acquire(rd, wr, G), Dequeue(Q, A, G),
           UNCHANGED <<reads, writes>>,
           leasesClosed' \in BOOLEAN, granted' \subseteq Threads,
           signalled' \subseteq Threads,
           pc' \in [Threads -> {"idle", "called", "waiting", "holding"}],
           Holders' = H \cup G,
           waiters' \subseteq Waiting', granted' \subseteq Waiting',
           waiters' \cap granted' = {}
    PROVE  LeaseInv'
<1>0. LeaseTypeOK
  BY DEF LeaseInv
<1>1. G \in SUBSET Threads
  BY DEF Grants
<1>2. readers' \in [Keys -> Nat] /\ writer' \subseteq Keys
  BY <1>0, <1>1, PassKeepsTypes
<1>3. /\ waiters' \subseteq Threads /\ ahead' \in [Threads -> SUBSET Threads]
      /\ \A t \in waiters' : ahead'[t] \subseteq waiters'
      /\ \A t, u \in waiters' : t # u => t \in ahead'[u] \/ u \in ahead'[t]
  BY DequeueKeepsOrder
<1>4. LeaseTypeOK'
  BY <1>0, <1>2, <1>3 DEF LeaseTypeOK
<1>5. QueueInv'
  BY <1>3 DEF QueueInv
<1>6. ExclusiveAmong(H \cup G)' /\ StatesOf(H \cup G, readers, writer)'
  BY <1>0, PassKeepsStates DEF TotalOrder
<1>7. Exclusive' /\ StatesMatchHolders'
  BY <1>6 DEF Exclusive, StatesMatchHolders, ExclusiveAmong, StatesOf, Accesses
<1> QED
  BY <1>4, <1>5, <1>7 DEF LeaseInv

(***************************************************************************)
(* Every step preserves the invariant.                                     *)
(***************************************************************************)
LEMMA NextLeaseInv == LeaseInv /\ [LeaseNext]_leaseVars => LeaseInv'
<1> SUFFICES ASSUME LeaseInv, [LeaseNext]_leaseVars PROVE LeaseInv'
  OBVIOUS
<1>0. /\ LeaseTypeOK /\ QueueInv /\ Holders \subseteq Threads
      /\ StatesOf(Holders, readers, writer) /\ ExclusiveAmong(Holders)
      /\ TotalOrder(waiters, ahead) /\ Holders \cap waiters = {}
      /\ \A t \in Threads : t \in Holders <=> pc[t] = "holding" \/ t \in granted
  BY DEF LeaseInv, Exclusive, StatesMatchHolders, QueueInv, TotalOrder, LeaseTypeOK,
         Holders, Waiting
<1>1. ASSUME NEW t \in Threads, NEW R \in SUBSET Keys, NEW W \in SUBSET Keys,
             Call(t, R, W)
      PROVE  LeaseInv'
  <2>1. t \notin Holders /\ t \notin waiters /\ Holders' = Holders
    BY <1>0, <1>1 DEF Call, Holders, QueueInv, Waiting, LeaseTypeOK
  <2>2. LeaseTypeOK'
    BY <1>0, <1>1 DEF Call, LeaseTypeOK, stateVars, queueVars
  <2>3. QueueInv'
    BY <1>0, <1>1 DEF Call, QueueInv, Waiting, LeaseTypeOK, queueVars
  <2>4. \A u \in Holders : reads'[u] = reads[u] /\ writes'[u] = writes[u]
    BY <1>0, <1>1, <2>1 DEF Call, LeaseTypeOK
  <2>5. Exclusive'
    BY <1>0, <2>1, <2>4 DEF Exclusive, ExclusiveAmong, Accesses
  <2>6. \A k \in Keys : {u \in Holders : k \in reads'[u]} =
                        {u \in Holders : k \in reads[u]}
    BY <2>4
  <2>7. StatesMatchHolders'
    BY <1>0, <1>1, <2>1, <2>4, <2>6
    DEF StatesMatchHolders, StatesOf, Call, stateVars
  <2> QED
    BY <2>2, <2>3, <2>5, <2>7 DEF LeaseInv
<1>2. ASSUME NEW t \in Threads, ReserveRefused(t) PROVE LeaseInv'
  <2>1. Holders' = Holders
    BY <1>0, <1>2 DEF ReserveRefused, Holders, LeaseTypeOK
  <2>2. LeaseTypeOK' /\ QueueInv'
    BY <1>0, <1>2 DEF ReserveRefused, LeaseTypeOK, QueueInv, Waiting, stateVars,
           queueVars
  <2> QED
    BY <1>0, <1>2, <2>1, <2>2
    DEF LeaseInv, Exclusive, ExclusiveAmong, StatesMatchHolders, StatesOf,
        Accesses, ReserveRefused, stateVars
<1>3. ASSUME NEW t \in Threads, ReserveNothing(t) PROVE LeaseInv'
  <2>1. Holders' = Holders \cup {t} /\ t \notin Holders
    BY <1>0, <1>3 DEF ReserveNothing, Holders, LeaseTypeOK, QueueInv, Waiting
  <2>2. LeaseTypeOK' /\ QueueInv'
    BY <1>0, <1>3 DEF ReserveNothing, LeaseTypeOK, QueueInv, Waiting, stateVars,
           queueVars
  <2>3. reads[t] = {} /\ writes[t] = {}
    BY <1>3 DEF ReserveNothing, Accesses
  <2>4. Exclusive'
    BY <1>0, <1>3, <2>1, <2>3 DEF Exclusive, ExclusiveAmong, Accesses,
           ReserveNothing
  <2>5. \A k \in Keys : {u \in Holders \cup {t} : k \in reads[u]} =
                        {u \in Holders : k \in reads[u]}
    BY <2>3
  <2>6. StatesMatchHolders'
    BY <1>0, <1>3, <2>1, <2>3, <2>5
    DEF StatesMatchHolders, StatesOf, ReserveNothing, stateVars
  <2> QED
    BY <2>2, <2>4, <2>6 DEF LeaseInv
<1>4. ASSUME NEW t \in Threads, Reserve(t) PROVE LeaseInv'
  <2> DEFINE Q == waiters \cup {t}
  <2> DEFINE A == [ahead EXCEPT ![t] = waiters]
  <2>1. PICK G \in SUBSET Q :
          /\ Grants(Q, A, readers, writer, G)
          /\ Acquire(readers, writer, G)
          /\ Dequeue(Q, A, G)
          /\ granted' = granted \cup (G \ {t})
          /\ pc' = [pc EXCEPT ![t] = IF t \in G THEN "holding" ELSE "waiting"]
    BY <1>4 DEF Reserve
  <2>2. pc[t] = "called" /\ UNCHANGED <<leasesClosed, signalled, reads, writes>>
    BY <1>4 DEF Reserve
  <2>3. t \notin Holders /\ t \notin waiters /\ t \notin granted
    BY <1>0, <2>2 DEF QueueInv, Waiting
  <2>4. Q \in SUBSET Threads /\ A \in [Threads -> SUBSET Threads]
    BY <1>0 DEF LeaseTypeOK
  <2>5. TotalOrder(Q, A)
    BY <1>0, <2>3 DEF TotalOrder, LeaseTypeOK
  <2>6. /\ Holders' = Holders \cup G
        /\ waiters' \subseteq Waiting' /\ granted' \subseteq Waiting'
        /\ waiters' \cap granted' = {}
    BY <1>0, <2>1, <2>2, <2>3 DEF Holders, Waiting, QueueInv, LeaseTypeOK, Dequeue
  <2>7. /\ leasesClosed' \in BOOLEAN /\ granted' \subseteq Threads
        /\ signalled' \subseteq Threads
        /\ pc' \in [Threads -> {"idle", "called", "waiting", "holding"}]
    BY <1>0, <2>1, <2>2 DEF LeaseTypeOK
  <2>8. Holders \cap Q = {}
    BY <1>0, <2>3
  <2>9. readers \in [Keys -> Nat] /\ writer \in SUBSET Keys
    BY <1>0 DEF LeaseTypeOK
  <2> HIDE DEF Q, A
  <2> QED
    BY <1>0, <2>1, <2>2, <2>4, <2>5, <2>6, <2>7, <2>8, <2>9, ScanStep
<1>5. ASSUME NEW t \in Threads, WakeGranted(t) PROVE LeaseInv'
  <2>1. Holders' = Holders
    BY <1>0, <1>5 DEF WakeGranted, Holders, LeaseTypeOK
  <2>2. LeaseTypeOK' /\ QueueInv'
    BY <1>0, <1>5 DEF WakeGranted, LeaseTypeOK, QueueInv, Waiting, stateVars,
           queueVars
  <2> QED
    BY <1>0, <1>5, <2>1, <2>2
    DEF LeaseInv, Exclusive, ExclusiveAmong, StatesMatchHolders, StatesOf,
        Accesses, WakeGranted, stateVars
<1>6. ASSUME NEW t \in Threads, WakeClosed(t) PROVE LeaseInv'
  <2>1. Holders' = Holders
    BY <1>0, <1>6 DEF WakeClosed, Holders, LeaseTypeOK
  <2>2. LeaseTypeOK' /\ QueueInv'
    BY <1>0, <1>6 DEF WakeClosed, Dequeue, LeaseTypeOK, QueueInv, Waiting, stateVars
  <2> QED
    BY <1>0, <1>6, <2>1, <2>2
    DEF LeaseInv, Exclusive, ExclusiveAmong, StatesMatchHolders, StatesOf,
        Accesses, WakeClosed, stateVars
<1>7. ASSUME NEW t \in Threads, WakeAgain(t) PROVE LeaseInv'
  <2>1. PICK G \in SUBSET waiters :
          /\ Grants(waiters, ahead, readers, writer, G)
          /\ Acquire(readers, writer, G)
          /\ Dequeue(waiters, ahead, G)
          /\ granted' = granted \cup (G \ {t})
          /\ pc' = [pc EXCEPT ![t] = IF t \in G THEN "holding" ELSE "waiting"]
    BY <1>7 DEF WakeAgain
  <2>2. /\ pc[t] = "waiting" /\ t \notin granted
        /\ UNCHANGED <<leasesClosed, reads, writes>> /\ signalled' = signalled \ {t}
    BY <1>7 DEF WakeAgain
  <2>3. /\ Holders' = Holders \cup G
        /\ waiters' \subseteq Waiting' /\ granted' \subseteq Waiting'
        /\ waiters' \cap granted' = {}
    BY <1>0, <2>1, <2>2 DEF Holders, Waiting, QueueInv, LeaseTypeOK, Dequeue
  <2>4. /\ leasesClosed' \in BOOLEAN /\ granted' \subseteq Threads
        /\ signalled' \subseteq Threads
        /\ pc' \in [Threads -> {"idle", "called", "waiting", "holding"}]
    BY <1>0, <2>1, <2>2 DEF LeaseTypeOK
  <2>5. /\ readers \in [Keys -> Nat] /\ writer \in SUBSET Keys
        /\ waiters \in SUBSET Threads /\ ahead \in [Threads -> SUBSET Threads]
    BY <1>0 DEF LeaseTypeOK
  <2> QED
    BY <1>0, <2>1, <2>2, <2>3, <2>4, <2>5, ScanStep
<1>8. ASSUME NEW t \in Threads, Interrupt(t) PROVE LeaseInv'
  <2> DEFINE rd == IF t \in granted THEN ReadersWithout(t) ELSE readers
  <2> DEFINE wr == IF t \in granted THEN WriterWithout(t) ELSE writer
  <2> DEFINE H == Holders \ {t}
  <2> DEFINE Q == waiters \ {t}
  <2> DEFINE A == [u \in Threads |-> ahead[u] \ {t}]
  <2>1. PICK G \in SUBSET Q :
          /\ Grants(Q, A, rd, wr, G)
          /\ Acquire(rd, wr, G)
          /\ Dequeue(Q, A, G)
          /\ granted' = (granted \ {t}) \cup G
    BY <1>8 DEF Interrupt
  <2>2. /\ pc[t] = "waiting" /\ pc' = [pc EXCEPT ![t] = "idle"]
        /\ UNCHANGED <<leasesClosed, reads, writes>> /\ signalled' = Waiting \ {t}
    BY <1>8 DEF Interrupt
  <2>3. /\ rd \in [Keys -> Nat] /\ wr \in SUBSET Keys
        /\ StatesOf(H, rd, wr) /\ ExclusiveAmong(H)
    <3>1. ExclusiveAmong(H)
      BY <1>0 DEF ExclusiveAmong
    <3>2. CASE t \in granted
      <4>1. t \in Holders /\ Holders \in SUBSET Threads
        BY <1>0, <3>2
      <4> QED
        BY <1>0, <3>1, <3>2, <4>1, WithoutHolder, WithoutTypes
    <3>3. CASE t \notin granted
      <4>1. t \notin Holders /\ H = Holders
        BY <1>0, <2>2, <3>3
      <4> QED
        BY <1>0, <3>1, <3>3, <4>1 DEF LeaseTypeOK
    <3> QED
      BY <3>2, <3>3
  <2>4. Q \in SUBSET Threads /\ A \in [Threads -> SUBSET Threads]
    BY <1>0 DEF LeaseTypeOK
  <2>5. TotalOrder(Q, A) /\ H \cap Q = {} /\ H \in SUBSET Threads
    BY <1>0 DEF TotalOrder, LeaseTypeOK
  <2>6. /\ Holders' = H \cup G
        /\ waiters' \subseteq Waiting' /\ granted' \subseteq Waiting'
        /\ waiters' \cap granted' = {}
    BY <1>0, <2>1, <2>2 DEF Holders, Waiting, QueueInv, LeaseTypeOK, Dequeue
  <2>7. /\ leasesClosed' \in BOOLEAN /\ granted' \subseteq Threads
        /\ signalled' \subseteq Threads
        /\ pc' \in [Threads -> {"idle", "called", "waiting", "holding"}]
    BY <1>0, <2>1, <2>2 DEF LeaseTypeOK, Waiting
  <2> HIDE DEF Q, A, H, rd, wr
  <2> QED
    BY <2>1, <2>2, <2>3, <2>4, <2>5, <2>6, <2>7, ScanStep
<1>9. ASSUME NEW t \in Threads, ReleaseAccess(t) PROVE LeaseInv'
  <2> DEFINE H == Holders \ {t}
  <2>1. PICK G \in SUBSET waiters :
          /\ Grants(waiters, ahead, ReadersWithout(t), WriterWithout(t), G)
          /\ Acquire(ReadersWithout(t), WriterWithout(t), G)
          /\ Dequeue(waiters, ahead, G)
          /\ granted' = granted \cup G
    BY <1>9 DEF ReleaseAccess
  <2>2. /\ pc[t] = "holding" /\ pc' = [pc EXCEPT ![t] = "idle"]
        /\ UNCHANGED <<leasesClosed, reads, writes>> /\ signalled' = Waiting
    BY <1>9 DEF ReleaseAccess
  <2>3. t \in Holders /\ t \notin granted /\ Holders \in SUBSET Threads
    BY <1>0, <2>2 DEF QueueInv, Waiting
  <2>4. /\ ReadersWithout(t) \in [Keys -> Nat] /\ WriterWithout(t) \in SUBSET Keys
        /\ StatesOf(H, ReadersWithout(t), WriterWithout(t)) /\ ExclusiveAmong(H)
    <3>1. ExclusiveAmong(H)
      BY <1>0 DEF ExclusiveAmong
    <3> QED
      BY <1>0, <2>3, <3>1, WithoutHolder, WithoutTypes
  <2>5. /\ H \cap waiters = {} /\ H \in SUBSET Threads
        /\ waiters \in SUBSET Threads /\ ahead \in [Threads -> SUBSET Threads]
    BY <1>0 DEF LeaseTypeOK
  <2>6. /\ Holders' = H \cup G
        /\ waiters' \subseteq Waiting' /\ granted' \subseteq Waiting'
        /\ waiters' \cap granted' = {}
    BY <1>0, <2>1, <2>2, <2>3 DEF Holders, Waiting, QueueInv, LeaseTypeOK, Dequeue
  <2>7. /\ leasesClosed' \in BOOLEAN /\ granted' \subseteq Threads
        /\ signalled' \subseteq Threads
        /\ pc' \in [Threads -> {"idle", "called", "waiting", "holding"}]
    BY <1>0, <2>1, <2>2 DEF LeaseTypeOK, Waiting
  <2> HIDE DEF H
  <2> QED
    BY <1>0, <2>1, <2>2, <2>4, <2>5, <2>6, <2>7, ScanStep
<1>10. CASE Close
  <2>1. Holders' = Holders /\ Waiting' = Waiting
    BY <1>10 DEF Close, Holders, Waiting
  <2>2. LeaseTypeOK' /\ QueueInv'
    BY <1>0, <1>10, <2>1 DEF Close, LeaseTypeOK, QueueInv, Waiting, stateVars,
           queueVars
  <2> QED
    BY <1>0, <1>10, <2>1, <2>2
    DEF LeaseInv, Exclusive, ExclusiveAmong, StatesMatchHolders, StatesOf,
        Accesses, Close, stateVars
<1>11. CASE UNCHANGED leaseVars
  <2>1. Holders' = Holders /\ Waiting' = Waiting
    BY <1>11 DEF leaseVars, Holders, Waiting
  <2> QED
    BY <1>0, <1>11, <2>1
    DEF LeaseInv, LeaseTypeOK, QueueInv, Exclusive, ExclusiveAmong,
        StatesMatchHolders, StatesOf, Accesses, leaseVars, stateVars, queueVars
<1> QED
  BY <1>1, <1>2, <1>3, <1>4, <1>5, <1>6, <1>7, <1>8, <1>9, <1>10, <1>11
  DEF LeaseNext, Wake

(***************************************************************************)
(* The inductive invariant holds in every reachable state.                 *)
(***************************************************************************)
THEOREM LeaseInvariance == LeaseSpec => []LeaseInv
<1>1. LeaseInit => LeaseInv
  BY InitLeaseInv
<1>2. LeaseInv /\ [LeaseNext]_leaseVars => LeaseInv'
  BY NextLeaseInv
<1> QED
  BY <1>1, <1>2, PTL DEF LeaseSpec

(***************************************************************************)
(* Types; in particular no release or exception path ever drives a reader  *)
(* count below zero.                                                       *)
(***************************************************************************)
THEOREM LeaseTypes == LeaseSpec => []LeaseTypeOK
<1>1. LeaseInv => LeaseTypeOK
  BY DEF LeaseInv
<1> QED
  BY <1>1, LeaseInvariance, PTL

(***************************************************************************)
(* A writer's allocation is in no other operation's hands.                 *)
(***************************************************************************)
THEOREM WritersExclude == LeaseSpec => []Exclusive
<1>1. LeaseInv => Exclusive
  BY DEF LeaseInv
<1> QED
  BY <1>1, LeaseInvariance, PTL

(***************************************************************************)
(* The access states are always those of the outstanding leases.           *)
(***************************************************************************)
THEOREM StatesNeverDrift == LeaseSpec => []StatesMatchHolders
<1>1. LeaseInv => StatesMatchHolders
  BY DEF LeaseInv
<1> QED
  BY <1>1, LeaseInvariance, PTL

-----------------------------------------------------------------------------
(***************************************************************************)
(* A pass grants t although u, in front of it, stays: they share nothing.  *)
(***************************************************************************)
LEMMA PassBypassesNobody ==
    ASSUME NEW Q, NEW A, NEW rd, NEW wr, NEW G, Grants(Q, A, rd, wr, G),
           NEW t \in G, NEW u \in A[t] \ G
    PROVE  Accesses(u) \cap Accesses(t) = {}
  BY DEF Grants

(***************************************************************************)
(* What a pass does not grant is held back by one in front that shares a   *)
(* key with it, or by the access states the pass leaves.                   *)
(***************************************************************************)
LEMMA PassForgetsNobody ==
    ASSUME LeaseTypeOK, NEW Q \in SUBSET Threads,
           NEW A \in [Threads -> SUBSET Threads], TotalOrder(Q, A),
           NEW rd \in [Keys -> Nat], NEW wr \in SUBSET Keys, NEW G,
           Grants(Q, A, rd, wr, G), Acquire(rd, wr, G), Dequeue(Q, A, G),
           UNCHANGED <<leasesClosed, reads, writes>>
    PROVE  NobodyForgotten'
<1> SUFFICES ASSUME ~leasesClosed, NEW t \in Q \ G,
                    \A u \in A[t] \ G : Accesses(u) \cap Accesses(t) = {}
             PROVE  \/ Accesses(t) \cap writer' # {}
                    \/ \E k \in writes[t] : readers'[k] # 0
  BY DEF NobodyForgotten, CanGrant, Accesses, Dequeue
<1>1. G \subseteq Threads
  BY DEF Grants
<1>2. ASSUME NEW k \in Keys
      PROVE  /\ readers'[k] # 0 <=> rd[k] # 0 \/ \E u \in G : k \in reads[u]
             /\ k \in writer' <=> k \in wr \/ \E u \in G : k \in writes[u]
  <2> DEFINE R == {u \in G : k \in reads[u]}
  <2>1. R \subseteq Threads
    BY <1>1
  <2>2. IsFiniteSet(R)
    BY <2>1, ThreadsAssumption, FS_Subset
  <2>3. Cardinality(R) \in Nat /\ (Cardinality(R) = 0 <=> R = {})
    BY <2>2, FS_CardinalityType, FS_EmptySet
  <2>4. readers'[k] = rd[k] + Cardinality(R) /\ rd[k] \in Nat
    BY DEF Acquire
  <2>5. R # {} <=> \E u \in G : k \in reads[u]
    OBVIOUS
  <2> HIDE DEF R
  <2>6. readers'[k] # 0 <=> rd[k] # 0 \/ \E u \in G : k \in reads[u]
    BY <2>3, <2>4, <2>5
  <2>7. k \in writer' <=> k \in wr \/ \E u \in G : k \in writes[u]
    BY DEF Acquire
  <2> QED
    BY <2>6, <2>7
<1>3. Accesses(t) \subseteq Keys /\ writes[t] \subseteq Keys
  BY DEF LeaseTypeOK, Accesses
<1>4. CASE ~CanGrant(t, rd, wr)
  BY <1>2, <1>3, <1>4 DEF CanGrant
<1>5. ASSUME NEW u \in A[t] \cap G, ~Compatible(t, u)
      PROVE  \/ Accesses(t) \cap writer' # {}
             \/ \E k \in writes[t] : readers'[k] # 0
  <2>1. CASE writes[u] \cap Accesses(t) # {}
    BY <1>2, <1>3, <2>1
  <2>2. CASE writes[t] \cap Accesses(u) # {}
    <3>1. PICK k \in writes[t] : k \in Accesses(u)
      BY <2>2
    <3>2. k \in Accesses(t) /\ k \in Keys
      BY <1>3, <3>1 DEF Accesses
    <3> QED
      BY <1>2, <3>1, <3>2 DEF Accesses
  <2> QED
    BY <1>5, <2>1, <2>2 DEF Compatible
<1>6. \/ ~CanGrant(t, rd, wr)
      \/ \E u \in A[t] \cap G : ~Compatible(t, u)
  BY DEF Grants
<1> QED
  BY <1>4, <1>5, <1>6

(***************************************************************************)
(* The new holders of a step and the threads that stay queued: what a pass *)
(* over the queue has to show of them.                                     *)
(***************************************************************************)
Bypassed(t, u) ==
    /\ (t \in waiters => u \in ahead[t]) /\ u \in waiters'
    /\ Accesses(u) \cap Accesses(t) # {}

FairStep ==
    /\ NobodyForgotten'
    /\ \A t \in Holders' \ Holders, u \in waiters : ~Bypassed(t, u)

(***************************************************************************)
(* A step that leaves the access states and the queue alone.               *)
(***************************************************************************)
LEMMA QuietStep ==
    ASSUME LeaseInv, NobodyForgotten, UNCHANGED <<stateVars, queueVars>>,
           leasesClosed' = leasesClosed,
           \A t \in waiters : reads'[t] = reads[t] /\ writes'[t] = writes[t]
    PROVE  NobodyForgotten'
<1>1. \A t \in waiters : Accesses(t)' = Accesses(t) /\ ahead[t] \subseteq waiters
  BY DEF Accesses, LeaseInv, QueueInv
<1> QED
  BY <1>1 DEF NobodyForgotten, CanGrant, Accesses, stateVars, queueVars

(***************************************************************************)
(* Every step is fair in this sense.                                       *)
(***************************************************************************)
LEMMA NextIsFair ==
    ASSUME LeaseInv, NobodyForgotten, [LeaseNext]_leaseVars
    PROVE  FairStep
<1>0. /\ LeaseTypeOK /\ QueueInv /\ Holders \subseteq Threads
      /\ StatesOf(Holders, readers, writer) /\ ExclusiveAmong(Holders)
      /\ TotalOrder(waiters, ahead) /\ Holders \cap waiters = {}
      /\ \A t \in Threads : t \in Holders <=> pc[t] = "holding" \/ t \in granted
  BY DEF LeaseInv, Exclusive, StatesMatchHolders, QueueInv, TotalOrder, LeaseTypeOK,
         Holders, Waiting
<1>1. ASSUME NEW t \in Threads, NEW R \in SUBSET Keys, NEW W \in SUBSET Keys,
             Call(t, R, W)
      PROVE  FairStep
  <2>1. t \notin waiters /\ Holders' = Holders
    BY <1>0, <1>1 DEF Call, Holders, QueueInv, Waiting, LeaseTypeOK
  <2>2. \A u \in waiters : reads'[u] = reads[u] /\ writes'[u] = writes[u]
    BY <1>0, <1>1, <2>1 DEF Call, LeaseTypeOK
  <2> QED
    BY <1>1, <2>1, <2>2, QuietStep DEF FairStep, Call
<1>2. ASSUME NEW t \in Threads, ReserveRefused(t) PROVE FairStep
  <2>1. Holders' = Holders
    BY <1>0, <1>2 DEF ReserveRefused, Holders, LeaseTypeOK
  <2> QED
    BY <1>2, <2>1, QuietStep DEF FairStep, ReserveRefused
<1>3. ASSUME NEW t \in Threads, ReserveNothing(t) PROVE FairStep
  <2>1. Holders' = Holders \cup {t}
    BY <1>0, <1>3 DEF ReserveNothing, Holders, LeaseTypeOK, QueueInv, Waiting
  <2>2. NobodyForgotten'
    BY <1>3, QuietStep DEF ReserveNothing
  <2>3. Accesses(t) = {}
    BY <1>3 DEF ReserveNothing
  <2> QED
    BY <2>1, <2>2, <2>3 DEF FairStep, Bypassed
<1>4. ASSUME NEW t \in Threads, Reserve(t) PROVE FairStep
  <2> DEFINE Q == waiters \cup {t}
  <2> DEFINE A == [ahead EXCEPT ![t] = waiters]
  <2>1. PICK G \in SUBSET Q :
          /\ Grants(Q, A, readers, writer, G)
          /\ Acquire(readers, writer, G)
          /\ Dequeue(Q, A, G)
          /\ granted' = granted \cup (G \ {t})
          /\ pc' = [pc EXCEPT ![t] = IF t \in G THEN "holding" ELSE "waiting"]
    BY <1>4 DEF Reserve
  <2>2. pc[t] = "called" /\ UNCHANGED <<leasesClosed, signalled, reads, writes>>
    BY <1>4 DEF Reserve
  <2>3. t \notin waiters /\ t \notin granted
    BY <1>0, <2>2 DEF QueueInv, Waiting
  <2>4. Q \in SUBSET Threads /\ A \in [Threads -> SUBSET Threads]
    BY <1>0 DEF LeaseTypeOK
  <2>5. TotalOrder(Q, A)
    BY <1>0, <2>3 DEF TotalOrder, LeaseTypeOK
  <2>6. NobodyForgotten'
    <3>1. readers \in [Keys -> Nat] /\ writer \in SUBSET Keys
      BY <1>0 DEF LeaseTypeOK
    <3> HIDE DEF Q, A
    <3> QED
      BY <1>0, <2>1, <2>2, <2>4, <2>5, <3>1, PassForgetsNobody
  <2>7. ASSUME NEW v \in Holders' \ Holders, NEW u \in waiters, Bypassed(v, u)
        PROVE  FALSE
    <3>1. v \in G /\ v \in Threads
      BY <1>0, <2>1, <2>2 DEF Holders, LeaseTypeOK
    <3>2. u \notin G
      BY <2>1, <2>7 DEF Bypassed, Dequeue
    <3>3. u \in A[v]
      BY <1>0, <2>3, <2>7, <3>1 DEF Bypassed, LeaseTypeOK
    <3> HIDE DEF Q, A
    <3> QED
      BY <2>1, <2>7, <3>1, <3>2, <3>3, PassBypassesNobody DEF Bypassed
  <2> QED
    BY <2>6, <2>7 DEF FairStep
<1>5. ASSUME NEW t \in Threads, WakeGranted(t) PROVE FairStep
  <2>1. Holders' = Holders
    BY <1>0, <1>5 DEF WakeGranted, Holders, LeaseTypeOK
  <2> QED
    BY <1>5, <2>1, QuietStep DEF FairStep, WakeGranted
<1>6. ASSUME NEW t \in Threads, WakeClosed(t) PROVE FairStep
  <2>1. Holders' = Holders
    BY <1>0, <1>6 DEF WakeClosed, Holders, LeaseTypeOK
  <2> QED
    BY <1>6, <2>1 DEF FairStep, WakeClosed, NobodyForgotten
<1>7. ASSUME NEW t \in Threads, WakeAgain(t) PROVE FairStep
  <2>1. PICK G \in SUBSET waiters :
          /\ Grants(waiters, ahead, readers, writer, G)
          /\ Acquire(readers, writer, G)
          /\ Dequeue(waiters, ahead, G)
          /\ granted' = granted \cup (G \ {t})
          /\ pc' = [pc EXCEPT ![t] = IF t \in G THEN "holding" ELSE "waiting"]
    BY <1>7 DEF WakeAgain
  <2>2. pc[t] = "waiting" /\ UNCHANGED <<leasesClosed, reads, writes>>
    BY <1>7 DEF WakeAgain
  <2>3. NobodyForgotten'
    BY <1>0, <2>1, <2>2, PassForgetsNobody DEF LeaseTypeOK
  <2>4. ASSUME NEW v \in Holders' \ Holders, NEW u \in waiters, Bypassed(v, u)
        PROVE  FALSE
    <3>1. v \in G
      BY <1>0, <2>1, <2>2 DEF Holders, LeaseTypeOK
    <3>2. u \in ahead[v] \ G
      BY <2>1, <2>4, <3>1 DEF Bypassed, Dequeue
    <3> QED
      BY <2>1, <2>4, <3>1, <3>2, PassBypassesNobody DEF Bypassed
  <2> QED
    BY <2>3, <2>4 DEF FairStep
<1>8. ASSUME NEW t \in Threads, Interrupt(t) PROVE FairStep
  <2> DEFINE rd == IF t \in granted THEN ReadersWithout(t) ELSE readers
  <2> DEFINE wr == IF t \in granted THEN WriterWithout(t) ELSE writer
  <2> DEFINE Q == waiters \ {t}
  <2> DEFINE A == [u \in Threads |-> ahead[u] \ {t}]
  <2>1. PICK G \in SUBSET Q :
          /\ Grants(Q, A, rd, wr, G)
          /\ Acquire(rd, wr, G)
          /\ Dequeue(Q, A, G)
          /\ granted' = (granted \ {t}) \cup G
    BY <1>8 DEF Interrupt
  <2>2. /\ pc[t] = "waiting" /\ pc' = [pc EXCEPT ![t] = "idle"]
        /\ UNCHANGED <<leasesClosed, reads, writes>>
    BY <1>8 DEF Interrupt
  <2>3. rd \in [Keys -> Nat] /\ wr \in SUBSET Keys
    <3>1. t \in granted => t \in Holders /\ Holders \in SUBSET Threads
      BY <1>0
    <3> QED
      BY <1>0, <3>1, WithoutTypes DEF LeaseTypeOK
  <2>4. Q \in SUBSET Threads /\ A \in [Threads -> SUBSET Threads]
    BY <1>0 DEF LeaseTypeOK
  <2>5. TotalOrder(Q, A)
    BY <1>0 DEF TotalOrder, LeaseTypeOK
  <2>6. NobodyForgotten'
    <3> HIDE DEF Q, A, rd, wr
    <3> QED
      BY <1>0, <2>1, <2>2, <2>3, <2>4, <2>5, PassForgetsNobody
  <2>7. ASSUME NEW v \in Holders' \ Holders, NEW u \in waiters, Bypassed(v, u)
        PROVE  FALSE
    <3>1. v \in G /\ v \in Threads
      BY <1>0, <2>1, <2>2 DEF Holders, LeaseTypeOK
    <3>2. u \in Q \ G
      BY <2>1, <2>7 DEF Bypassed, Dequeue
    <3>3. u \in A[v]
      BY <1>0, <2>7, <3>1, <3>2 DEF Bypassed, LeaseTypeOK
    <3> HIDE DEF Q, A, rd, wr
    <3> QED
      BY <2>1, <2>7, <3>1, <3>2, <3>3, PassBypassesNobody DEF Bypassed
  <2> QED
    BY <2>6, <2>7 DEF FairStep
<1>9. ASSUME NEW t \in Threads, ReleaseAccess(t) PROVE FairStep
  <2>1. PICK G \in SUBSET waiters :
          /\ Grants(waiters, ahead, ReadersWithout(t), WriterWithout(t), G)
          /\ Acquire(ReadersWithout(t), WriterWithout(t), G)
          /\ Dequeue(waiters, ahead, G)
          /\ granted' = granted \cup G
    BY <1>9 DEF ReleaseAccess
  <2>2. /\ pc[t] = "holding" /\ pc' = [pc EXCEPT ![t] = "idle"]
        /\ UNCHANGED <<leasesClosed, reads, writes>>
    BY <1>9 DEF ReleaseAccess
  <2>3. ReadersWithout(t) \in [Keys -> Nat] /\ WriterWithout(t) \in SUBSET Keys
    <3>1. t \in Holders /\ Holders \in SUBSET Threads
      BY <1>0, <2>2
    <3> QED
      BY <1>0, <3>1, WithoutTypes
  <2>4. NobodyForgotten'
    BY <1>0, <2>1, <2>2, <2>3, PassForgetsNobody DEF LeaseTypeOK
  <2>5. ASSUME NEW v \in Holders' \ Holders, NEW u \in waiters, Bypassed(v, u)
        PROVE  FALSE
    <3>1. v \in G
      BY <1>0, <2>1, <2>2 DEF Holders, LeaseTypeOK
    <3>2. u \in ahead[v] \ G
      BY <2>1, <2>5, <3>1 DEF Bypassed, Dequeue
    <3> QED
      BY <2>1, <2>5, <3>1, <3>2, PassBypassesNobody DEF Bypassed
  <2> QED
    BY <2>4, <2>5 DEF FairStep
<1>10. CASE Close
  <2>1. Holders' = Holders
    BY <1>10 DEF Close, Holders
  <2> QED
    BY <1>10, <2>1 DEF FairStep, Close, NobodyForgotten
<1>11. CASE UNCHANGED leaseVars
  <2>1. Holders' = Holders
    BY <1>11 DEF leaseVars, Holders
  <2> QED
    BY <1>11, <2>1, QuietStep DEF FairStep, leaseVars
<1> QED
  BY <1>1, <1>2, <1>3, <1>4, <1>5, <1>6, <1>7, <1>8, <1>9, <1>10, <1>11
  DEF LeaseNext, Wake

(***************************************************************************)
(* No thread sleeps in reserve_access on an access it could be granted:    *)
(* every critical section that frees or unblocks something has scanned the *)
(* queue, the ones that end in an exception too.                           *)
(***************************************************************************)
THEOREM NobodyIsForgotten == LeaseSpec => []NobodyForgotten
<1>1. LeaseInit => NobodyForgotten
  BY DEF LeaseInit, NobodyForgotten
<1>2. LeaseInv /\ NobodyForgotten /\ [LeaseNext]_leaseVars => NobodyForgotten'
  BY NextIsFair DEF FairStep
<1> QED
  BY <1>1, <1>2, LeaseInvariance, PTL DEF LeaseSpec

(***************************************************************************)
(* Leases are given in the order of _access_waiters: an operation is never *)
(* granted while one queued before it, with an allocation in common, is    *)
(* left in the queue.                                                      *)
(***************************************************************************)
THEOREM NobodyIsBypassed == LeaseSpec => NoBypass
<1>1. LeaseInv /\ NobodyForgotten /\ [LeaseNext]_leaseVars =>
        [\A t \in Holders' \ Holders, u \in waiters :
           (t \in waiters => u \in ahead[t]) /\ u \in waiters' =>
             Accesses(u) \cap Accesses(t) = {}]_leaseVars
  BY NextIsFair DEF FairStep, Bypassed
<1> QED
  BY <1>1, LeaseInvariance, NobodyIsForgotten, PTL DEF LeaseSpec, NoBypass
=============================================================================
