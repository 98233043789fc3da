----------------------- MODULE IsolatedBackendProofs -----------------------
(***************************************************************************)
(* Proofs, for any number of threads, plugins and sessions, that a plugin  *)
(* never has two sessions, that close() leaves none behind and that the    *)
(* buffers are not closed under anybody.                                   *)
(*                                                                         *)
(* The invariant BackendInv follows every session that is not closed to    *)
(* the one place that answers for it: the table, the thread creating it,   *)
(* or close() (SessionsHeld, HandsDiffer); and every thread to the counter *)
(* that makes close() wait for it (Accounted).                             *)
(***************************************************************************)
EXTENDS IsolatedBackend, FiniteSetTheorems, TLAPS

(* Every step is one of these.                                             *)
LEMMA StepCases ==
    ASSUME [Next]_vars
    PROVE  \/ \E t \in Threads, p \in Plugins : Invoke(t, p)
           \/ \E t \in Threads :
                 \/ AcquireRefused(t) \/ AcquireFound(t) \/ AcquireCreates(t)
                 \/ AcquireWaits(t) \/ CreateDone(t) \/ CreateFails(t)
                 \/ CreateAborted(t)
                 \/ Publish(t) \/ PublishLate(t) \/ Discard(t)
                 \/ Forget(t) \/ UseRefused(t) \/ UseBegins(t)
                 \/ CallReturns(t) \/ CallFails(t) \/ CallInterrupted(t)
                 \/ CloseBroken(t) \/ Evict(t) \/ Leave(t)
                 \/ Construct(t) \/ Constructed(t) \/ Close(t)
                 \/ Drained(t) \/ CloseSession(t) \/ CloseBuffers(t)
                 \/ CloseFinished(t) \/ CloseAwaited(t) \/ WaitInterrupted(t)
           \/ \E s \in Sessions : WorkerStopped(s)
           \/ UNCHANGED vars
BY Zenon DEF Next, Start, Step, Acquire, Create, Call, Shut


(* A thread that is counted makes the counter positive.                    *)
LEMMA CountedSome ==
    ASSUME Accounted
    PROVE  /\ IsFiniteSet(Counted)
           /\ inflight \in Nat
           /\ \A t \in Counted : inflight > 0
<1>1. IsFiniteSet(Counted)
    BY BackendAssumption, FS_Subset DEF BackendAssumption, Counted
<1>2. Cardinality(Counted) \in Nat
    BY <1>1, FS_CardinalityType
<1>3. ASSUME NEW t \in Counted PROVE Cardinality(Counted) # 0
    BY <1>1, FS_EmptySet
<1>4. QED
    BY <1>1, <1>2, <1>3 DEF Accounted, InflightCounted, CreationsOwned

(* What one thread entering or leaving does to the counter.                *)
LEMMA CountChanges ==
    ASSUME Accounted, NEW t \in Threads
    PROVE  /\ Counted' = Counted /\ inflight' = inflight
                  => inflight' = Cardinality(Counted')
           /\ t \notin Counted /\ Counted' = Counted \cup {t}
                 /\ inflight' = inflight + 1
                  => inflight' = Cardinality(Counted')
           /\ t \in Counted /\ Counted' = Counted \ {t}
                 /\ inflight' = inflight - 1
                  => inflight' = Cardinality(Counted')
<1>1. IsFiniteSet(Counted) /\ inflight = Cardinality(Counted)
    BY CountedSome DEF Accounted, InflightCounted, CreationsOwned
<1>2. t \notin Counted => Cardinality(Counted \cup {t}) = inflight + 1
    BY <1>1, FS_AddElement
<1>3. t \in Counted => Cardinality(Counted \ {t}) = inflight - 1
    BY <1>1, FS_RemoveElement
<1>4. QED
    BY <1>1, <1>2, <1>3


(* Nobody creates when _creating is empty.                                 *)
LEMMA NoCreators ==
    ASSUME Accounted, creating = {}
    PROVE  Creators = {} /\ Fresh = {}
<1>1. \A t \in Creators : plugin[t] \in creating
    BY DEF Accounted, InflightCounted, CreationsOwned
<1>2. Creators = {}
    BY <1>1
<1>3. Fresh \subseteq Creators
    BY DEF Fresh, Creators
<1>4. QED
    BY <1>2, <1>3


(* Types, and nobody sleeps but in a wait.                                 *)
LEMMA TypePreserved ==
    ASSUME TypeOK, Accounted, [Next]_vars
    PROVE  TypeOK'
<1> USE BackendAssumption DEF TypeOK, Go, NotifyAll, Ready, Present, tableVars,
       sessionVars, threadVars
<1>1. ASSUME NEW t \in Threads, NEW p \in Plugins, Invoke(t, p)
      PROVE  TypeOK'
    BY <1>1 DEF Invoke
<1>2. ASSUME NEW t \in Threads, AcquireRefused(t) PROVE TypeOK'
    BY <1>2 DEF AcquireRefused
<1>3. ASSUME NEW t \in Threads, AcquireFound(t) PROVE TypeOK'
    BY <1>3 DEF AcquireFound
<1>4. ASSUME NEW t \in Threads, AcquireCreates(t) PROVE TypeOK'
    BY <1>4 DEF AcquireCreates
<1>5. ASSUME NEW t \in Threads, AcquireWaits(t) PROVE TypeOK'
    BY <1>5 DEF AcquireWaits
<1>6. ASSUME NEW t \in Threads, CreateDone(t) PROVE TypeOK'
    BY <1>6 DEF CreateDone
<1>7. ASSUME NEW t \in Threads, CreateFails(t) PROVE TypeOK'
    BY <1>7 DEF CreateFails
<1>8. ASSUME NEW t \in Threads, Publish(t) PROVE TypeOK'
    BY <1>8 DEF Publish
<1>9. ASSUME NEW t \in Threads, PublishLate(t) PROVE TypeOK'
    BY <1>9 DEF PublishLate
<1>10. ASSUME NEW t \in Threads, Discard(t) PROVE TypeOK'
    BY <1>10 DEF Discard, Ended
<1>11. ASSUME NEW t \in Threads, Forget(t) PROVE TypeOK'
    BY <1>11 DEF Forget
<1>12. ASSUME NEW t \in Threads, UseRefused(t) PROVE TypeOK'
    BY <1>12 DEF UseRefused
<1>13. ASSUME NEW t \in Threads, UseBegins(t) PROVE TypeOK'
    BY <1>13 DEF UseBegins
<1>14. ASSUME NEW t \in Threads, CallReturns(t) PROVE TypeOK'
    BY <1>14 DEF CallReturns
<1>15. ASSUME NEW t \in Threads, CallFails(t) PROVE TypeOK'
    BY <1>15 DEF CallFails
<1>16. ASSUME NEW t \in Threads, CallInterrupted(t) PROVE TypeOK'
    BY <1>16 DEF CallInterrupted
<1>17. ASSUME NEW t \in Threads, CloseBroken(t) PROVE TypeOK'
    BY <1>17 DEF CloseBroken, Ended
<1>18. ASSUME NEW t \in Threads, Evict(t) PROVE TypeOK'
    BY <1>18 DEF Evict
<1>19. ASSUME NEW t \in Threads, Leave(t) PROVE TypeOK'
    <2>1. t \in Counted
        BY <1>19 DEF Leave, Counted
    <2>2. inflight' \in Nat
        BY <1>19, <2>1, CountedSome DEF Leave
    <2>3. QED
        BY <1>19, <2>2 DEF Leave
<1>20. ASSUME NEW t \in Threads, Construct(t) PROVE TypeOK'
    BY <1>20 DEF Construct
<1>21. ASSUME NEW t \in Threads, Constructed(t) PROVE TypeOK'
    BY <1>21 DEF Constructed
<1>22. ASSUME NEW t \in Threads, Close(t) PROVE TypeOK'
    BY <1>22 DEF Close
<1>23. ASSUME NEW t \in Threads, Drained(t) PROVE TypeOK'
    BY <1>23 DEF Drained
<1>24. ASSUME NEW t \in Threads, CloseSession(t) PROVE TypeOK'
    BY <1>24 DEF CloseSession, Ended
<1>25. ASSUME NEW t \in Threads, CloseBuffers(t) PROVE TypeOK'
    BY <1>25 DEF CloseBuffers
<1>26. ASSUME NEW t \in Threads, CloseFinished(t) PROVE TypeOK'
    BY <1>26 DEF CloseFinished
<1>27. ASSUME NEW t \in Threads, CloseAwaited(t) PROVE TypeOK'
    BY <1>27 DEF CloseAwaited
<1>28. ASSUME NEW t \in Threads, WaitInterrupted(t) PROVE TypeOK'
    BY <1>28 DEF WaitInterrupted
<1>29. CASE UNCHANGED vars
    BY <1>29 DEF vars
<1>30. ASSUME NEW t \in Threads, CreateAborted(t) PROVE TypeOK'
    BY <1>30 DEF CreateAborted
<1>31. ASSUME NEW s \in Sessions, WorkerStopped(s) PROVE TypeOK'
    BY <1>31 DEF WorkerStopped
<1> HIDE DEF TypeOK, Go, NotifyAll, Ready, Present, tableVars,
       sessionVars, threadVars
<1>32. QED
    BY StepCases, <1>1, <1>2, <1>3, <1>4, <1>5, <1>6, <1>7, <1>8, <1>9,
       <1>10, <1>11, <1>12, <1>13, <1>14, <1>15, <1>16, <1>17, <1>18,
       <1>19, <1>20, <1>21, <1>22, <1>23, <1>24, <1>25, <1>26, <1>27,
       <1>28, <1>29, <1>30, <1>31, Zenon

(* The counter counts the threads inside.                                 *)
LEMMA CountPreserved ==
    ASSUME TypeOK, Accounted, [Next]_vars
    PROVE  InflightCounted'
<1> USE BackendAssumption DEF TypeOK, InflightCounted, Go, NotifyAll, Ready,
           Present, tableVars,
       sessionVars, threadVars
<1>1. ASSUME NEW t \in Threads, NEW p \in Plugins, Invoke(t, p)
      PROVE  InflightCounted'
    <2>1. Counted' = Counted /\ inflight' = inflight
        BY <1>1 DEF Invoke, Counted
    <2>2. QED
        BY <1>1, <2>1, CountChanges DEF Invoke
<1>2. ASSUME NEW t \in Threads, AcquireRefused(t) PROVE InflightCounted'
    <2>1. Counted' = Counted /\ inflight' = inflight
        BY <1>2 DEF AcquireRefused, Counted
    <2>2. QED
        BY <1>2, <2>1, CountChanges DEF AcquireRefused
<1>3. ASSUME NEW t \in Threads, AcquireFound(t) PROVE InflightCounted'
    <2>1. t \notin Counted /\ Counted' = Counted \cup {t}
        BY <1>3 DEF AcquireFound, Counted
    <2>2. QED
        BY <1>3, <2>1, CountChanges DEF AcquireFound
<1>4. ASSUME NEW t \in Threads, AcquireCreates(t) PROVE InflightCounted'
    <2>1. Counted' = Counted /\ inflight' = inflight
        BY <1>4 DEF AcquireCreates, Counted
    <2>2. QED
        BY <1>4, <2>1, CountChanges DEF AcquireCreates
<1>5. ASSUME NEW t \in Threads, AcquireWaits(t) PROVE InflightCounted'
    <2>1. Counted' = Counted /\ inflight' = inflight
        BY <1>5 DEF AcquireWaits, Counted
    <2>2. QED
        BY <1>5, <2>1, CountChanges DEF AcquireWaits
<1>6. ASSUME NEW t \in Threads, CreateDone(t) PROVE InflightCounted'
    <2>1. Counted' = Counted /\ inflight' = inflight
        BY <1>6 DEF CreateDone, Counted
    <2>2. QED
        BY <1>6, <2>1, CountChanges DEF CreateDone
<1>7. ASSUME NEW t \in Threads, CreateFails(t) PROVE InflightCounted'
    <2>1. Counted' = Counted /\ inflight' = inflight
        BY <1>7 DEF CreateFails, Counted
    <2>2. QED
        BY <1>7, <2>1, CountChanges DEF CreateFails
<1>8. ASSUME NEW t \in Threads, Publish(t) PROVE InflightCounted'
    <2>1. t \notin Counted /\ Counted' = Counted \cup {t}
        BY <1>8 DEF Publish, Counted
    <2>2. QED
        BY <1>8, <2>1, CountChanges DEF Publish
<1>9. ASSUME NEW t \in Threads, PublishLate(t) PROVE InflightCounted'
    <2>1. Counted' = Counted /\ inflight' = inflight
        BY <1>9 DEF PublishLate, Counted
    <2>2. QED
        BY <1>9, <2>1, CountChanges DEF PublishLate
<1>10. ASSUME NEW t \in Threads, Discard(t) PROVE InflightCounted'
    <2>1. Counted' = Counted /\ inflight' = inflight
        BY <1>10 DEF Discard, Counted
    <2>2. QED
        BY <1>10, <2>1, CountChanges DEF Discard, Ended
<1>11. ASSUME NEW t \in Threads, Forget(t) PROVE InflightCounted'
    <2>1. Counted' = Counted /\ inflight' = inflight
        BY <1>11 DEF Forget, Counted
    <2>2. QED
        BY <1>11, <2>1, CountChanges DEF Forget
<1>12. ASSUME NEW t \in Threads, UseRefused(t) PROVE InflightCounted'
    <2>1. Counted' = Counted /\ inflight' = inflight
        BY <1>12 DEF UseRefused, Counted
    <2>2. QED
        BY <1>12, <2>1, CountChanges DEF UseRefused
<1>13. ASSUME NEW t \in Threads, UseBegins(t) PROVE InflightCounted'
    <2>1. Counted' = Counted /\ inflight' = inflight
        BY <1>13 DEF UseBegins, Counted
    <2>2. QED
        BY <1>13, <2>1, CountChanges DEF UseBegins
<1>14. ASSUME NEW t \in Threads, CallReturns(t) PROVE InflightCounted'
    <2>1. Counted' = Counted /\ inflight' = inflight
        BY <1>14 DEF CallReturns, Counted
    <2>2. QED
        BY <1>14, <2>1, CountChanges DEF CallReturns
<1>15. ASSUME NEW t \in Threads, CallFails(t) PROVE InflightCounted'
    <2>1. Counted' = Counted /\ inflight' = inflight
        BY <1>15 DEF CallFails, Counted
    <2>2. QED
        BY <1>15, <2>1, CountChanges DEF CallFails
<1>16. ASSUME NEW t \in Threads, CallInterrupted(t) PROVE InflightCounted'
    <2>1. Counted' = Counted /\ inflight' = inflight
        BY <1>16 DEF CallInterrupted, Counted
    <2>2. QED
        BY <1>16, <2>1, CountChanges DEF CallInterrupted
<1>17. ASSUME NEW t \in Threads, CloseBroken(t) PROVE InflightCounted'
    <2>1. Counted' = Counted /\ inflight' = inflight
        BY <1>17 DEF CloseBroken, Counted
    <2>2. QED
        BY <1>17, <2>1, CountChanges DEF CloseBroken, Ended
<1>18. ASSUME NEW t \in Threads, Evict(t) PROVE InflightCounted'
    <2>1. Counted' = Counted /\ inflight' = inflight
        BY <1>18 DEF Evict, Counted
    <2>2. QED
        BY <1>18, <2>1, CountChanges DEF Evict
<1>19. ASSUME NEW t \in Threads, Leave(t) PROVE InflightCounted'
    <2>1. t \in Counted /\ Counted' = Counted \ {t}
        BY <1>19 DEF Leave, Counted
    <2>2. QED
        BY <1>19, <2>1, CountChanges DEF Leave
<1>20. ASSUME NEW t \in Threads, Construct(t) PROVE InflightCounted'
    <2>1. t \notin Counted /\ Counted' = Counted \cup {t}
        BY <1>20 DEF Construct, Counted
    <2>2. QED
        BY <1>20, <2>1, CountChanges DEF Construct
<1>21. ASSUME NEW t \in Threads, Constructed(t) PROVE InflightCounted'
    <2>1. Counted' = Counted /\ inflight' = inflight
        BY <1>21 DEF Constructed, Counted
    <2>2. QED
        BY <1>21, <2>1, CountChanges DEF Constructed
<1>22. ASSUME NEW t \in Threads, Close(t) PROVE InflightCounted'
    <2>1. Counted' = Counted /\ inflight' = inflight
        BY <1>22 DEF Close, Counted
    <2>2. QED
        BY <1>22, <2>1, CountChanges DEF Close
<1>23. ASSUME NEW t \in Threads, Drained(t) PROVE InflightCounted'
    <2>1. Counted' = Counted /\ inflight' = inflight
        BY <1>23 DEF Drained, Counted
    <2>2. QED
        BY <1>23, <2>1, CountChanges DEF Drained
<1>24. ASSUME NEW t \in Threads, CloseSession(t) PROVE InflightCounted'
    <2>1. Counted' = Counted /\ inflight' = inflight
        BY <1>24 DEF CloseSession, Counted
    <2>2. QED
        BY <1>24, <2>1, CountChanges DEF CloseSession, Ended
<1>25. ASSUME NEW t \in Threads, CloseBuffers(t) PROVE InflightCounted'
    <2>1. Counted' = Counted /\ inflight' = inflight
        BY <1>25 DEF CloseBuffers, Counted
    <2>2. QED
        BY <1>25, <2>1, CountChanges DEF CloseBuffers
<1>26. ASSUME NEW t \in Threads, CloseFinished(t) PROVE InflightCounted'
    <2>1. Counted' = Counted /\ inflight' = inflight
        BY <1>26 DEF CloseFinished, Counted
    <2>2. QED
        BY <1>26, <2>1, CountChanges DEF CloseFinished
<1>27. ASSUME NEW t \in Threads, CloseAwaited(t) PROVE InflightCounted'
    <2>1. Counted' = Counted /\ inflight' = inflight
        BY <1>27 DEF CloseAwaited, Counted
    <2>2. QED
        BY <1>27, <2>1, CountChanges DEF CloseAwaited
<1>28. ASSUME NEW t \in Threads, WaitInterrupted(t) PROVE InflightCounted'
    <2>1. Counted' = Counted /\ inflight' = inflight
        BY <1>28 DEF WaitInterrupted, Counted
    <2>2. QED
        BY <1>28, <2>1, CountChanges DEF WaitInterrupted
<1>29. CASE UNCHANGED vars
    BY <1>29 DEF vars, Counted, Accounted, InflightCounted
<1>30. ASSUME NEW t \in Threads, CreateAborted(t) PROVE InflightCounted'
    <2>1. Counted' = Counted /\ inflight' = inflight
        BY <1>30 DEF CreateAborted, Counted
    <2>2. QED
        BY <1>30, <2>1, CountChanges DEF CreateAborted
<1>31. ASSUME NEW s \in Sessions, WorkerStopped(s) PROVE InflightCounted'
    <2>1. Counted' = Counted /\ inflight' = inflight
        BY <1>31 DEF WorkerStopped, Counted
    <2>2. QED
        BY <1>31, <2>1 DEF WorkerStopped, Accounted
<1> HIDE DEF TypeOK, InflightCounted, Go, NotifyAll, Ready, Present, tableVars,
       sessionVars, threadVars
<1>32. QED
    BY StepCases, <1>1, <1>2, <1>3, <1>4, <1>5, <1>6, <1>7, <1>8, <1>9,
       <1>10, <1>11, <1>12, <1>13, <1>14, <1>15, <1>16, <1>17, <1>18,
       <1>19, <1>20, <1>21, <1>22, <1>23, <1>24, <1>25, <1>26, <1>27,
       <1>28, <1>29, <1>30, <1>31, Zenon

(* An entry of _creating has one thread that will remove it.               *)
LEMMA CreatorsPreserved ==
    ASSUME TypeOK, Accounted, [Next]_vars
    PROVE  CreationsOwned'
<1> USE BackendAssumption DEF TypeOK, Accounted, CreationsOwned, Creators,
       Go, NotifyAll, Ready, Present, tableVars,
       sessionVars, threadVars
<1>1. ASSUME NEW t \in Threads, NEW p \in Plugins, Invoke(t, p)
      PROVE  CreationsOwned'
    BY <1>1 DEF Invoke
<1>2. ASSUME NEW t \in Threads, AcquireRefused(t) PROVE CreationsOwned'
    BY <1>2 DEF AcquireRefused
<1>3. ASSUME NEW t \in Threads, AcquireFound(t) PROVE CreationsOwned'
    BY <1>3 DEF AcquireFound
<1>4. ASSUME NEW t \in Threads, AcquireCreates(t) PROVE CreationsOwned'
    BY <1>4 DEF AcquireCreates
<1>5. ASSUME NEW t \in Threads, AcquireWaits(t) PROVE CreationsOwned'
    BY <1>5 DEF AcquireWaits
<1>6. ASSUME NEW t \in Threads, CreateDone(t) PROVE CreationsOwned'
    BY <1>6 DEF CreateDone
<1>7. ASSUME NEW t \in Threads, CreateFails(t) PROVE CreationsOwned'
    BY <1>7 DEF CreateFails
<1>8. ASSUME NEW t \in Threads, Publish(t) PROVE CreationsOwned'
    BY <1>8 DEF Publish
<1>9. ASSUME NEW t \in Threads, PublishLate(t) PROVE CreationsOwned'
    BY <1>9 DEF PublishLate
<1>10. ASSUME NEW t \in Threads, Discard(t) PROVE CreationsOwned'
    BY <1>10 DEF Discard, Ended
<1>11. ASSUME NEW t \in Threads, Forget(t) PROVE CreationsOwned'
    BY <1>11 DEF Forget
<1>12. ASSUME NEW t \in Threads, UseRefused(t) PROVE CreationsOwned'
    BY <1>12 DEF UseRefused
<1>13. ASSUME NEW t \in Threads, UseBegins(t) PROVE CreationsOwned'
    BY <1>13 DEF UseBegins
<1>14. ASSUME NEW t \in Threads, CallReturns(t) PROVE CreationsOwned'
    BY <1>14 DEF CallReturns
<1>15. ASSUME NEW t \in Threads, CallFails(t) PROVE CreationsOwned'
    BY <1>15 DEF CallFails
<1>16. ASSUME NEW t \in Threads, CallInterrupted(t) PROVE CreationsOwned'
    BY <1>16 DEF CallInterrupted
<1>17. ASSUME NEW t \in Threads, CloseBroken(t) PROVE CreationsOwned'
    BY <1>17 DEF CloseBroken, Ended
<1>18. ASSUME NEW t \in Threads, Evict(t) PROVE CreationsOwned'
    BY <1>18 DEF Evict
<1>19. ASSUME NEW t \in Threads, Leave(t) PROVE CreationsOwned'
    BY <1>19 DEF Leave
<1>20. ASSUME NEW t \in Threads, Construct(t) PROVE CreationsOwned'
    BY <1>20 DEF Construct
<1>21. ASSUME NEW t \in Threads, Constructed(t) PROVE CreationsOwned'
    BY <1>21 DEF Constructed
<1>22. ASSUME NEW t \in Threads, Close(t) PROVE CreationsOwned'
    BY <1>22 DEF Close
<1>23. ASSUME NEW t \in Threads, Drained(t) PROVE CreationsOwned'
    <2>1. Creators' = Creators
        BY <1>23 DEF Drained
    <2>2. plugin' = plugin /\ creating' = creating
        BY <1>23 DEF Drained
    <2>3. QED
        BY <2>1, <2>2
<1>24. ASSUME NEW t \in Threads, CloseSession(t) PROVE CreationsOwned'
    BY <1>24 DEF CloseSession, Ended
<1>25. ASSUME NEW t \in Threads, CloseBuffers(t) PROVE CreationsOwned'
    BY <1>25 DEF CloseBuffers
<1>26. ASSUME NEW t \in Threads, CloseFinished(t) PROVE CreationsOwned'
    BY <1>26 DEF CloseFinished
<1>27. ASSUME NEW t \in Threads, CloseAwaited(t) PROVE CreationsOwned'
    BY <1>27 DEF CloseAwaited
<1>28. ASSUME NEW t \in Threads, WaitInterrupted(t) PROVE CreationsOwned'
    BY <1>28 DEF WaitInterrupted
<1>29. CASE UNCHANGED vars
    BY <1>29 DEF vars
<1>30. ASSUME NEW t \in Threads, CreateAborted(t) PROVE CreationsOwned'
    BY <1>30 DEF CreateAborted
<1>31. ASSUME NEW s \in Sessions, WorkerStopped(s) PROVE CreationsOwned'
    BY <1>31 DEF WorkerStopped
<1> HIDE DEF TypeOK, Accounted, CreationsOwned, Creators,
       Go, NotifyAll, Ready, Present, tableVars,
       sessionVars, threadVars
<1>32. QED
    BY StepCases, <1>1, <1>2, <1>3, <1>4, <1>5, <1>6, <1>7, <1>8, <1>9,
       <1>10, <1>11, <1>12, <1>13, <1>14, <1>15, <1>16, <1>17, <1>18,
       <1>19, <1>20, <1>21, <1>22, <1>23, <1>24, <1>25, <1>26, <1>27,
       <1>28, <1>29, <1>30, <1>31, Zenon

(* Every session that is not closed has its place.                         *)
LEMMA HeldPreserved ==
    ASSUME BackendInv, [Next]_vars
    PROVE  SessionsHeld'
<1> USE BackendAssumption DEF TypeOK, SessionsHeld, InTable, InCreation, Fresh,
       Go, NotifyAll, Ready, Present, tableVars,
       sessionVars, threadVars
<1>1. ASSUME NEW t \in Threads, NEW p \in Plugins, Invoke(t, p)
      PROVE  SessionsHeld'
    BY <1>1 DEF BackendInv, HandsDiffer, ClosingInOrder, Accounted,
           CreationsOwned, Users,
           Creators, Past, Closers, Counted, Invoke
<1>2. ASSUME NEW t \in Threads, AcquireRefused(t) PROVE SessionsHeld'
    BY <1>2 DEF BackendInv, HandsDiffer, ClosingInOrder, Accounted,
           CreationsOwned, Users,
           Creators, Past, Closers, Counted, AcquireRefused
<1>3. ASSUME NEW t \in Threads, AcquireFound(t) PROVE SessionsHeld'
    BY <1>3 DEF BackendInv, HandsDiffer, ClosingInOrder, Accounted,
           CreationsOwned, Users,
           Creators, Past, Closers, Counted, AcquireFound
<1>4. ASSUME NEW t \in Threads, AcquireCreates(t) PROVE SessionsHeld'
    BY <1>4 DEF BackendInv, HandsDiffer, ClosingInOrder, Accounted,
           CreationsOwned, Users,
           Creators, Past, Closers, Counted, AcquireCreates
<1>5. ASSUME NEW t \in Threads, AcquireWaits(t) PROVE SessionsHeld'
    BY <1>5 DEF BackendInv, HandsDiffer, ClosingInOrder, Accounted,
           CreationsOwned, Users,
           Creators, Past, Closers, Counted, AcquireWaits
<1>6. ASSUME NEW t \in Threads, CreateDone(t) PROVE SessionsHeld'
    BY <1>6 DEF BackendInv, HandsDiffer, ClosingInOrder, Accounted,
           CreationsOwned, Users,
           Creators, Past, Closers, Counted, CreateDone
<1>7. ASSUME NEW t \in Threads, CreateFails(t) PROVE SessionsHeld'
    BY <1>7 DEF BackendInv, HandsDiffer, ClosingInOrder, Accounted,
           CreationsOwned, Users,
           Creators, Past, Closers, Counted, CreateFails
<1>8. ASSUME NEW t \in Threads, Publish(t) PROVE SessionsHeld'
    BY <1>8 DEF BackendInv, HandsDiffer, ClosingInOrder, Accounted,
           CreationsOwned, Users,
           Creators, Past, Closers, Counted, Publish
<1>9. ASSUME NEW t \in Threads, PublishLate(t) PROVE SessionsHeld'
    BY <1>9 DEF BackendInv, HandsDiffer, ClosingInOrder, Accounted,
           CreationsOwned, Users,
           Creators, Past, Closers, Counted, PublishLate
<1>10. ASSUME NEW t \in Threads, Discard(t) PROVE SessionsHeld'
    BY <1>10 DEF BackendInv, HandsDiffer, ClosingInOrder, Accounted,
           CreationsOwned, Users,
           Creators, Past, Closers, Counted, Discard, Ended
<1>11. ASSUME NEW t \in Threads, Forget(t) PROVE SessionsHeld'
    BY <1>11 DEF BackendInv, HandsDiffer, ClosingInOrder, Accounted,
           CreationsOwned, Users,
           Creators, Past, Closers, Counted, Forget
<1>12. ASSUME NEW t \in Threads, UseRefused(t) PROVE SessionsHeld'
    BY <1>12 DEF BackendInv, HandsDiffer, ClosingInOrder, Accounted,
           CreationsOwned, Users,
           Creators, Past, Closers, Counted, UseRefused
<1>13. ASSUME NEW t \in Threads, UseBegins(t) PROVE SessionsHeld'
    BY <1>13 DEF BackendInv, HandsDiffer, ClosingInOrder, Accounted,
           CreationsOwned, Users,
           Creators, Past, Closers, Counted, UseBegins
<1>14. ASSUME NEW t \in Threads, CallReturns(t) PROVE SessionsHeld'
    BY <1>14 DEF BackendInv, HandsDiffer, ClosingInOrder, Accounted,
           CreationsOwned, Users,
           Creators, Past, Closers, Counted, CallReturns
<1>15. ASSUME NEW t \in Threads, CallFails(t) PROVE SessionsHeld'
    BY <1>15 DEF BackendInv, HandsDiffer, ClosingInOrder, Accounted,
           CreationsOwned, Users,
           Creators, Past, Closers, Counted, CallFails
<1>16. ASSUME NEW t \in Threads, CallInterrupted(t) PROVE SessionsHeld'
    BY <1>16 DEF BackendInv, HandsDiffer, ClosingInOrder, Accounted,
           CreationsOwned, Users,
           Creators, Past, Closers, Counted, CallInterrupted
<1>17. ASSUME NEW t \in Threads, CloseBroken(t) PROVE SessionsHeld'
    BY <1>17 DEF BackendInv, HandsDiffer, ClosingInOrder, Accounted,
           CreationsOwned, Users,
           Creators, Past, Closers, Counted, CloseBroken, Ended
<1>18. ASSUME NEW t \in Threads, Evict(t) PROVE SessionsHeld'
    <2>1. CASE sessions[plugin[t]] = mine[t]
        BY <1>18, <2>1 DEF BackendInv, HandsDiffer, ClosingInOrder, Accounted,
               CreationsOwned, Users,
               Creators, Past, Closers, Counted, Evict
    <2>2. CASE sessions[plugin[t]] # mine[t]
        BY <1>18, <2>2 DEF BackendInv, HandsDiffer, ClosingInOrder, Accounted,
               CreationsOwned, Users,
               Creators, Past, Closers, Counted, Evict
    <2>3. QED
        BY <2>1, <2>2
<1>19. ASSUME NEW t \in Threads, Leave(t) PROVE SessionsHeld'
    BY <1>19 DEF BackendInv, HandsDiffer, ClosingInOrder, Accounted,
           CreationsOwned, Users,
           Creators, Past, Closers, Counted, Leave
<1>20. ASSUME NEW t \in Threads, Construct(t) PROVE SessionsHeld'
    BY <1>20 DEF BackendInv, HandsDiffer, ClosingInOrder, Accounted,
           CreationsOwned, Users,
           Creators, Past, Closers, Counted, Construct
<1>21. ASSUME NEW t \in Threads, Constructed(t) PROVE SessionsHeld'
    BY <1>21 DEF BackendInv, HandsDiffer, ClosingInOrder, Accounted,
           CreationsOwned, Users,
           Creators, Past, Closers, Counted, Constructed
<1>22. ASSUME NEW t \in Threads, Close(t) PROVE SessionsHeld'
    BY <1>22 DEF BackendInv, HandsDiffer, ClosingInOrder, Accounted,
           CreationsOwned, Users,
           Creators, Past, Closers, Counted, Close
<1>23. ASSUME NEW t \in Threads, Drained(t) PROVE SessionsHeld'
    <2>1. CASE inflight = 0 /\ creating = {}
        <3>1. doomed' = {sessions[p] : p \in Present}
            BY <1>23, <2>1 DEF Drained
        <3>2. Present' = {}
            BY <1>23, <2>1 DEF Drained
        <3>3. Creators = {} /\ Fresh = {}
            BY <2>1, NoCreators DEF BackendInv
        <3>4. doomed = {}
            BY <1>23 DEF BackendInv, ClosingInOrder, Closers, Drained
        <3>5. UNCHANGED <<status, owner, creating>>
            BY <1>23 DEF Drained
        <3>6. QED
            BY <3>1, <3>2, <3>3, <3>4, <3>5 DEF BackendInv
    <2>2. CASE ~(inflight = 0 /\ creating = {})
        BY <1>23, <2>2 DEF BackendInv, Drained
    <2>3. QED
        BY <2>1, <2>2
<1>24. ASSUME NEW t \in Threads, CloseSession(t) PROVE SessionsHeld'
    BY <1>24 DEF BackendInv, HandsDiffer, ClosingInOrder, Accounted,
           CreationsOwned, Users,
           Creators, Past, Closers, Counted, CloseSession, Ended
<1>25. ASSUME NEW t \in Threads, CloseBuffers(t) PROVE SessionsHeld'
    BY <1>25 DEF BackendInv, HandsDiffer, ClosingInOrder, Accounted,
           CreationsOwned, Users,
           Creators, Past, Closers, Counted, CloseBuffers
<1>26. ASSUME NEW t \in Threads, CloseFinished(t) PROVE SessionsHeld'
    BY <1>26 DEF BackendInv, HandsDiffer, ClosingInOrder, Accounted,
           CreationsOwned, Users,
           Creators, Past, Closers, Counted, CloseFinished
<1>27. ASSUME NEW t \in Threads, CloseAwaited(t) PROVE SessionsHeld'
    BY <1>27 DEF BackendInv, HandsDiffer, ClosingInOrder, Accounted,
           CreationsOwned, Users,
           Creators, Past, Closers, Counted, CloseAwaited
<1>28. ASSUME NEW t \in Threads, WaitInterrupted(t) PROVE SessionsHeld'
    BY <1>28 DEF BackendInv, HandsDiffer, ClosingInOrder, Accounted,
           CreationsOwned, Users,
           Creators, Past, Closers, Counted, WaitInterrupted
<1>29. CASE UNCHANGED vars
    BY <1>29 DEF vars, BackendInv
<1>30. ASSUME NEW t \in Threads, CreateAborted(t) PROVE SessionsHeld'
    BY <1>30 DEF BackendInv, HandsDiffer, ClosingInOrder, Accounted,
           CreationsOwned, Users,
           Creators, Past, Closers, Counted, CreateAborted
<1>31. ASSUME NEW s \in Sessions, WorkerStopped(s) PROVE SessionsHeld'
    BY <1>31 DEF BackendInv, HandsDiffer, ClosingInOrder, Accounted,
           CreationsOwned, Users,
           Creators, Past, Closers, Counted, WorkerStopped
<1> HIDE DEF TypeOK, SessionsHeld, InTable, InCreation, Fresh,
       Go, NotifyAll, Ready, Present, tableVars,
       sessionVars, threadVars
<1>32. QED
    BY StepCases, <1>1, <1>2, <1>3, <1>4, <1>5, <1>6, <1>7, <1>8, <1>9,
       <1>10, <1>11, <1>12, <1>13, <1>14, <1>15, <1>16, <1>17, <1>18,
       <1>19, <1>20, <1>21, <1>22, <1>23, <1>24, <1>25, <1>26, <1>27,
       <1>28, <1>29, <1>30, <1>31, Zenon

(* Creators and callers never share a session.                             *)
LEMMA HandsPreserved ==
    ASSUME BackendInv, [Next]_vars
    PROVE  HandsDiffer'
<1> USE BackendAssumption DEF TypeOK, HandsDiffer, Fresh, Users,
       Go, NotifyAll, Ready, Present, tableVars,
       sessionVars, threadVars
<1>1. ASSUME NEW t \in Threads, NEW p \in Plugins, Invoke(t, p)
      PROVE  HandsDiffer'
    BY <1>1 DEF BackendInv, SessionsHeld, ClosingInOrder, Counted, Past,
           Invoke
<1>2. ASSUME NEW t \in Threads, AcquireRefused(t) PROVE HandsDiffer'
    BY <1>2 DEF BackendInv, SessionsHeld, ClosingInOrder, Counted, Past,
           AcquireRefused
<1>3. ASSUME NEW t \in Threads, AcquireFound(t) PROVE HandsDiffer'
    BY <1>3 DEF BackendInv, SessionsHeld, ClosingInOrder, Counted, Past,
           AcquireFound
<1>4. ASSUME NEW t \in Threads, AcquireCreates(t) PROVE HandsDiffer'
    BY <1>4 DEF BackendInv, SessionsHeld, ClosingInOrder, Counted, Past,
           AcquireCreates
<1>5. ASSUME NEW t \in Threads, AcquireWaits(t) PROVE HandsDiffer'
    BY <1>5 DEF BackendInv, SessionsHeld, ClosingInOrder, Counted, Past,
           AcquireWaits
<1>6. ASSUME NEW t \in Threads, CreateDone(t) PROVE HandsDiffer'
    BY <1>6 DEF BackendInv, SessionsHeld, ClosingInOrder, Counted, Past,
           CreateDone
<1>7. ASSUME NEW t \in Threads, CreateFails(t) PROVE HandsDiffer'
    BY <1>7 DEF BackendInv, SessionsHeld, ClosingInOrder, Counted, Past,
           CreateFails
<1>8. ASSUME NEW t \in Threads, Publish(t) PROVE HandsDiffer'
    BY <1>8 DEF BackendInv, SessionsHeld, ClosingInOrder, Accounted,
           CreationsOwned,
           Creators, Counted, Past, Publish
<1>9. ASSUME NEW t \in Threads, PublishLate(t) PROVE HandsDiffer'
    BY <1>9 DEF BackendInv, SessionsHeld, ClosingInOrder, Counted, Past,
           PublishLate
<1>10. ASSUME NEW t \in Threads, Discard(t) PROVE HandsDiffer'
    BY <1>10 DEF BackendInv, SessionsHeld, ClosingInOrder, Accounted,
           CreationsOwned,
           Creators, Counted, Past, Discard, Ended
<1>11. ASSUME NEW t \in Threads, Forget(t) PROVE HandsDiffer'
    BY <1>11 DEF BackendInv, SessionsHeld, ClosingInOrder, Counted, Past,
           Forget
<1>12. ASSUME NEW t \in Threads, UseRefused(t) PROVE HandsDiffer'
    BY <1>12 DEF BackendInv, SessionsHeld, ClosingInOrder, Counted, Past,
           UseRefused
<1>13. ASSUME NEW t \in Threads, UseBegins(t) PROVE HandsDiffer'
    BY <1>13 DEF BackendInv, SessionsHeld, ClosingInOrder, Counted, Past,
           UseBegins
<1>14. ASSUME NEW t \in Threads, CallReturns(t) PROVE HandsDiffer'
    BY <1>14 DEF BackendInv, SessionsHeld, ClosingInOrder, Counted, Past,
           CallReturns
<1>15. ASSUME NEW t \in Threads, CallFails(t) PROVE HandsDiffer'
    BY <1>15 DEF BackendInv, SessionsHeld, ClosingInOrder, Counted, Past,
           CallFails
<1>16. ASSUME NEW t \in Threads, CallInterrupted(t) PROVE HandsDiffer'
    BY <1>16 DEF BackendInv, SessionsHeld, ClosingInOrder, Counted, Past,
           CallInterrupted
<1>17. ASSUME NEW t \in Threads, CloseBroken(t) PROVE HandsDiffer'
    BY <1>17 DEF BackendInv, SessionsHeld, ClosingInOrder, Counted, Past,
           CloseBroken, Ended
<1>18. ASSUME NEW t \in Threads, Evict(t) PROVE HandsDiffer'
    BY <1>18 DEF BackendInv, SessionsHeld, ClosingInOrder, Counted, Past,
           Evict
<1>19. ASSUME NEW t \in Threads, Leave(t) PROVE HandsDiffer'
    BY <1>19 DEF BackendInv, SessionsHeld, ClosingInOrder, Counted, Past,
           Leave
<1>20. ASSUME NEW t \in Threads, Construct(t) PROVE HandsDiffer'
    BY <1>20 DEF BackendInv, SessionsHeld, ClosingInOrder, Counted, Past,
           Construct
<1>21. ASSUME NEW t \in Threads, Constructed(t) PROVE HandsDiffer'
    BY <1>21 DEF BackendInv, SessionsHeld, ClosingInOrder, Counted, Past,
           Constructed
<1>22. ASSUME NEW t \in Threads, Close(t) PROVE HandsDiffer'
    BY <1>22 DEF BackendInv, SessionsHeld, ClosingInOrder, Counted, Past,
           Close
<1>23. ASSUME NEW t \in Threads, Drained(t) PROVE HandsDiffer'
    BY <1>23 DEF BackendInv, SessionsHeld, ClosingInOrder, Counted, Past,
           Drained
<1>24. ASSUME NEW t \in Threads, CloseSession(t) PROVE HandsDiffer'
    <2>1. t \in Past
        BY <1>24 DEF CloseSession, Past
    <2>2. creating = {} /\ Counted = {}
        BY <2>1 DEF BackendInv, ClosingInOrder
    <2>3. Fresh = {} /\ Users = {}
        BY <2>2, NoCreators DEF BackendInv, Counted
    <2>4. pc' = pc
        BY <1>24 DEF CloseSession
    <2>5. Fresh' = {} /\ Users' = {}
        BY <2>3, <2>4
    <2> HIDE DEF Fresh, Users
    <2>6. QED
        BY <2>5
<1>25. ASSUME NEW t \in Threads, CloseBuffers(t) PROVE HandsDiffer'
    BY <1>25 DEF BackendInv, SessionsHeld, ClosingInOrder, Counted, Past,
           CloseBuffers
<1>26. ASSUME NEW t \in Threads, CloseFinished(t) PROVE HandsDiffer'
    BY <1>26 DEF BackendInv, SessionsHeld, ClosingInOrder, Counted, Past,
           CloseFinished
<1>27. ASSUME NEW t \in Threads, CloseAwaited(t) PROVE HandsDiffer'
    BY <1>27 DEF BackendInv, SessionsHeld, ClosingInOrder, Counted, Past,
           CloseAwaited
<1>28. ASSUME NEW t \in Threads, WaitInterrupted(t) PROVE HandsDiffer'
    BY <1>28 DEF BackendInv, SessionsHeld, ClosingInOrder, Counted, Past,
           WaitInterrupted
<1>29. CASE UNCHANGED vars
    BY <1>29 DEF vars, BackendInv
<1>30. ASSUME NEW t \in Threads, CreateAborted(t) PROVE HandsDiffer'
    BY <1>30 DEF BackendInv, SessionsHeld, ClosingInOrder, Counted, Past,
           CreateAborted
<1>31. ASSUME NEW s \in Sessions, WorkerStopped(s) PROVE HandsDiffer'
    BY <1>31 DEF BackendInv, SessionsHeld, ClosingInOrder, Counted, Past,
           WorkerStopped
<1> HIDE DEF TypeOK, HandsDiffer, Fresh, Users,
       Go, NotifyAll, Ready, Present, tableVars,
       sessionVars, threadVars
<1>32. QED
    BY StepCases, <1>1, <1>2, <1>3, <1>4, <1>5, <1>6, <1>7, <1>8, <1>9,
       <1>10, <1>11, <1>12, <1>13, <1>14, <1>15, <1>16, <1>17, <1>18,
       <1>19, <1>20, <1>21, <1>22, <1>23, <1>24, <1>25, <1>26, <1>27,
       <1>28, <1>29, <1>30, <1>31, Zenon

(* One closer, which finds the backend empty when it is past its drain.    *)
LEMMA OrderPreserved ==
    ASSUME BackendInv, [Next]_vars
    PROVE  ClosingInOrder'
<1> USE BackendAssumption DEF TypeOK, ClosingInOrder, Closers, Past, Counted,
       Go, NotifyAll, Ready, Present, tableVars,
       sessionVars, threadVars
<1>1. ASSUME NEW t \in Threads, NEW p \in Plugins, Invoke(t, p)
      PROVE  ClosingInOrder'
    BY <1>1 DEF BackendInv, Accounted, CreationsOwned, Creators, Invoke
<1>2. ASSUME NEW t \in Threads, AcquireRefused(t) PROVE ClosingInOrder'
    BY <1>2 DEF BackendInv, Accounted, CreationsOwned, Creators, AcquireRefused
<1>3. ASSUME NEW t \in Threads, AcquireFound(t) PROVE ClosingInOrder'
    BY <1>3 DEF BackendInv, Accounted, CreationsOwned, Creators, AcquireFound
<1>4. ASSUME NEW t \in Threads, AcquireCreates(t) PROVE ClosingInOrder'
    BY <1>4 DEF BackendInv, Accounted, CreationsOwned, Creators, AcquireCreates
<1>5. ASSUME NEW t \in Threads, AcquireWaits(t) PROVE ClosingInOrder'
    BY <1>5 DEF BackendInv, Accounted, CreationsOwned, Creators, AcquireWaits
<1>6. ASSUME NEW t \in Threads, CreateDone(t) PROVE ClosingInOrder'
    BY <1>6 DEF BackendInv, Accounted, CreationsOwned, Creators, CreateDone
<1>7. ASSUME NEW t \in Threads, CreateFails(t) PROVE ClosingInOrder'
    BY <1>7 DEF BackendInv, Accounted, CreationsOwned, Creators, CreateFails
<1>8. ASSUME NEW t \in Threads, Publish(t) PROVE ClosingInOrder'
    BY <1>8 DEF BackendInv, Accounted, CreationsOwned, Creators, Publish
<1>9. ASSUME NEW t \in Threads, PublishLate(t) PROVE ClosingInOrder'
    <2>1. Past' = Past /\ Closers' = Closers /\ Counted' = Counted
        BY <1>9 DEF BackendInv, PublishLate
    <2>2. UNCHANGED <<Present, creating, state, doomed, buffers>>
        BY <1>9 DEF BackendInv, PublishLate
    <2>3. \A u \in Threads : pc'[u] \in {"sweep", "finish"} <=>
                              pc[u] \in {"sweep", "finish"}
        BY <1>9 DEF BackendInv, PublishLate
    <2>4. \A u \in Threads : pc[u] \in {"sweep", "finish"} => pc'[u] = pc[u]
        BY <1>9 DEF BackendInv, PublishLate
    <2> HIDE DEF Past, Closers, Counted, Present
    <2>5. QED
        BY <2>1, <2>2, <2>3, <2>4 DEF BackendInv
<1>10. ASSUME NEW t \in Threads, Discard(t) PROVE ClosingInOrder'
    BY <1>10 DEF BackendInv, Accounted, CreationsOwned, Creators, Discard, Ended
<1>11. ASSUME NEW t \in Threads, Forget(t) PROVE ClosingInOrder'
    BY <1>11 DEF BackendInv, Accounted, CreationsOwned, Creators, Forget
<1>12. ASSUME NEW t \in Threads, UseRefused(t) PROVE ClosingInOrder'
    BY <1>12 DEF BackendInv, Accounted, CreationsOwned, Creators, UseRefused
<1>13. ASSUME NEW t \in Threads, UseBegins(t) PROVE ClosingInOrder'
    BY <1>13 DEF BackendInv, Accounted, CreationsOwned, Creators, UseBegins
<1>14. ASSUME NEW t \in Threads, CallReturns(t) PROVE ClosingInOrder'
    BY <1>14 DEF BackendInv, Accounted, CreationsOwned, Creators, CallReturns
<1>15. ASSUME NEW t \in Threads, CallFails(t) PROVE ClosingInOrder'
    BY <1>15 DEF BackendInv, Accounted, CreationsOwned, Creators, CallFails
<1>16. ASSUME NEW t \in Threads, CallInterrupted(t) PROVE ClosingInOrder'
    BY <1>16 DEF BackendInv, Accounted, CreationsOwned, Creators,
           CallInterrupted
<1>17. ASSUME NEW t \in Threads, CloseBroken(t) PROVE ClosingInOrder'
    BY <1>17 DEF BackendInv, Accounted, CreationsOwned, Creators, CloseBroken,
           Ended
<1>18. ASSUME NEW t \in Threads, Evict(t) PROVE ClosingInOrder'
    BY <1>18 DEF BackendInv, Accounted, CreationsOwned, Creators, Evict
<1>19. ASSUME NEW t \in Threads, Leave(t) PROVE ClosingInOrder'
    BY <1>19 DEF BackendInv, Accounted, CreationsOwned, Creators, Leave
<1>20. ASSUME NEW t \in Threads, Construct(t) PROVE ClosingInOrder'
    BY <1>20 DEF BackendInv, Accounted, CreationsOwned, Creators, Construct
<1>21. ASSUME NEW t \in Threads, Constructed(t) PROVE ClosingInOrder'
    BY <1>21 DEF BackendInv, Accounted, CreationsOwned, Creators, Constructed
<1>22. ASSUME NEW t \in Threads, Close(t) PROVE ClosingInOrder'
    BY <1>22 DEF BackendInv, Accounted, CreationsOwned, Creators, Close
<1>23. ASSUME NEW t \in Threads, Drained(t) PROVE ClosingInOrder'
    <2>1. CASE inflight = 0 /\ creating = {}
        <3>1. Present' = {} /\ creating' = {} /\ Closers' = Closers
            BY <1>23, <2>1 DEF BackendInv, Drained
        <3>2. Counted = {}
            BY <2>1, CountedSome DEF BackendInv
        <3>3. Counted' = Counted
            BY <1>23, <2>1 DEF BackendInv, Drained
        <3>4. state = "closing" /\ UNCHANGED <<state, buffers>>
            BY <1>23 DEF BackendInv, Drained
        <3>5. buffers = "open" /\ pc' = [pc EXCEPT ![t] = "sweep"]
            BY <1>23, <2>1, <3>4 DEF BackendInv, Drained
        <3> HIDE DEF Counted, Present
        <3>6. QED
            BY <1>23, <3>1, <3>2, <3>3, <3>4, <3>5 DEF BackendInv, Drained
    <2>2. CASE ~(inflight = 0 /\ creating = {})
        BY <1>23, <2>2 DEF BackendInv, Drained
    <2>3. QED
        BY <2>1, <2>2
<1>24. ASSUME NEW t \in Threads, CloseSession(t) PROVE ClosingInOrder'
    BY <1>24 DEF BackendInv, Accounted, CreationsOwned, Creators, CloseSession,
           Ended
<1>25. ASSUME NEW t \in Threads, CloseBuffers(t) PROVE ClosingInOrder'
    BY <1>25 DEF BackendInv, Accounted, CreationsOwned, Creators, CloseBuffers
<1>26. ASSUME NEW t \in Threads, CloseFinished(t) PROVE ClosingInOrder'
    <2>1. t \in Past /\ Past' = {} /\ Closers' = {}
        BY <1>26 DEF BackendInv, CloseFinished
    <2>2. Counted' = Counted /\ UNCHANGED <<Present, creating, doomed,
                                            buffers>>
        BY <1>26 DEF CloseFinished
    <2>3. doomed = {}
        BY <1>26 DEF BackendInv, CloseFinished
    <2>4. state' = "closed"
        BY <1>26 DEF CloseFinished
    <2> HIDE DEF Past, Closers, Counted, Present
    <2>5. QED
        BY <2>1, <2>2, <2>3, <2>4 DEF BackendInv
<1>27. ASSUME NEW t \in Threads, CloseAwaited(t) PROVE ClosingInOrder'
    <2>1. Past' = Past /\ Closers' = Closers /\ Counted' = Counted
        BY <1>27 DEF BackendInv, CloseAwaited
    <2>2. UNCHANGED <<Present, creating, state, doomed, buffers>>
        BY <1>27 DEF BackendInv, CloseAwaited
    <2>3. \A u \in Threads : pc'[u] \in {"sweep", "finish"} <=>
                              pc[u] \in {"sweep", "finish"}
        BY <1>27 DEF BackendInv, CloseAwaited
    <2>4. \A u \in Threads : pc[u] \in {"sweep", "finish"} => pc'[u] = pc[u]
        BY <1>27 DEF BackendInv, CloseAwaited
    <2> HIDE DEF Past, Closers, Counted, Present
    <2>5. QED
        BY <2>1, <2>2, <2>3, <2>4 DEF BackendInv
<1>28. ASSUME NEW t \in Threads, WaitInterrupted(t) PROVE ClosingInOrder'
    BY <1>28 DEF BackendInv, Accounted, CreationsOwned, Creators,
           WaitInterrupted
<1>29. CASE UNCHANGED vars
    BY <1>29 DEF vars, BackendInv
<1>30. ASSUME NEW t \in Threads, CreateAborted(t) PROVE ClosingInOrder'
    BY <1>30 DEF BackendInv, Accounted, CreationsOwned, Creators,
           CreateAborted
<1>31. ASSUME NEW s \in Sessions, WorkerStopped(s) PROVE ClosingInOrder'
    BY <1>31 DEF BackendInv, Accounted, CreationsOwned, Creators,
           WorkerStopped
<1> HIDE DEF TypeOK, ClosingInOrder, Closers, Past, Counted,
       Go, NotifyAll, Ready, Present, tableVars,
       sessionVars, threadVars
<1>32. QED
    BY StepCases, <1>1, <1>2, <1>3, <1>4, <1>5, <1>6, <1>7, <1>8, <1>9,
       <1>10, <1>11, <1>12, <1>13, <1>14, <1>15, <1>16, <1>17, <1>18,
       <1>19, <1>20, <1>21, <1>22, <1>23, <1>24, <1>25, <1>26, <1>27,
       <1>28, <1>29, <1>30, <1>31, Zenon

(* The backend discover() hands over.                                      *)
LEMMA InvInitially == Init => BackendInv
<1> SUFFICES ASSUME Init PROVE BackendInv
    OBVIOUS
<1>1. TypeOK
    BY DEF Init, TypeOK
<1>2. Counted = {} /\ Creators = {} /\ Fresh = {} /\ Users = {}
    BY DEF Init, Counted, Creators, Fresh, Users
<1>3. Accounted
    BY <1>2, FS_EmptySet DEF Init, Accounted, InflightCounted, CreationsOwned
<1>4. SessionsHeld
    <2>1. Present = Plugins /\ doomed = {} /\ creating = {}
        BY BackendAssumption DEF Init, Present
    <2>2. \A s \in Sessions : status[s] # "unused" =>
              \E p \in Plugins : sessions[p] = s
        BY DEF Init
    <2>3. \A p \in Plugins : /\ status[sessions[p]] # "unused"
                             /\ owner[sessions[p]] = p
        BY DEF Init
    <2>4. QED
        BY <2>1, <2>2, <2>3 DEF SessionsHeld, InTable
<1>5. HandsDiffer
    BY <1>2 DEF HandsDiffer
<1>6. ClosingInOrder
    BY DEF Init, ClosingInOrder, Closers, Past
<1>7. QED
    BY <1>1, <1>3, <1>4, <1>5, <1>6 DEF BackendInv

(* The invariant of the backend.                                           *)
THEOREM BackendInvariance == Spec => []BackendInv
<1>1. BackendInv /\ [Next]_vars => BackendInv'
    <2> SUFFICES ASSUME BackendInv, [Next]_vars PROVE BackendInv'
        OBVIOUS
    <2>1. TypeOK /\ Accounted
        BY DEF BackendInv
    <2>2. TypeOK'
        BY <2>1, TypePreserved
    <2>3. Accounted'
        BY <2>1, CountPreserved, CreatorsPreserved DEF Accounted,
               InflightCounted, CreationsOwned
    <2>4. QED
        BY <2>2, <2>3, HeldPreserved, HandsPreserved, OrderPreserved
           DEF BackendInv
<1>2. QED
    BY <1>1, InvInitially, PTL DEF Spec

(* The table, the counters and the threads keep their types: _inflight is  *)
(* never decremented below zero, and only threads in a wait sleep.         *)
THEOREM BackendTypes == Spec => []TypeOK
<1>1. BackendInv => TypeOK
    BY DEF BackendInv
<1>2. QED
    BY <1>1, BackendInvariance, PTL

(* A plugin never has two sessions that are not closed, whatever           *)
(* creations, failures, evictions and closes overlap.                      *)
THEOREM OneSession == Spec => []OneSessionPerPlugin
<1>1. BackendInv => OneSessionPerPlugin
    <2> SUFFICES ASSUME BackendInv, NEW s \in Sessions, NEW u \in Sessions,
                        status[s] \in {"live", "broken"},
                        status[u] \in {"live", "broken"},
                        owner[s] = owner[u]
                 PROVE  s = u
        BY DEF OneSessionPerPlugin
    <2>1. \A x \in Sessions : status[x] \in {"live", "broken"} =>
             InTable(x) \/ InCreation(x) \/ x \in doomed
        BY DEF BackendInv, SessionsHeld
    <2>2. CASE doomed # {}
        <3>1. Past # {}
            BY <2>2 DEF BackendInv, ClosingInOrder, Past
        <3>2. Present = {} /\ creating = {}
            BY <3>1 DEF BackendInv, ClosingInOrder
        <3>3. Fresh = {}
            BY <3>2, NoCreators DEF BackendInv
        <3>4. s \in doomed /\ u \in doomed
            BY <2>1, <3>2, <3>3 DEF InTable, InCreation
        <3>5. QED
            BY <3>4 DEF BackendInv, SessionsHeld
    <2>3. CASE doomed = {}
        <3>1. \A x \in Sessions : InTable(x) => sessions[owner[x]] = x
            BY DEF InTable, BackendInv, SessionsHeld
        <3>2. \A x \in Sessions : InCreation(x) => owner[x] \in creating
            BY DEF InCreation, BackendInv, HandsDiffer, Accounted,
                   CreationsOwned, Fresh,
                   Creators
        <3>3. \A x \in Sessions : InTable(x) => owner[x] \notin creating
            BY DEF InTable, BackendInv, SessionsHeld
        <3>4. InCreation(s) /\ InCreation(u) => s = u
            BY DEF InCreation, BackendInv, HandsDiffer, Accounted,
                   CreationsOwned, Fresh,
                   Creators
        <3>5. QED
            BY <2>1, <2>3, <3>1, <3>2, <3>3, <3>4
    <2>4. QED
        BY <2>2, <2>3
<1>2. QED
    BY <1>1, BackendInvariance, PTL

(* Nothing that close() has to close is left when the state is closed, or  *)
(* when it turns to the buffers: the shared part of the next two theorems. *)
LEMMA EmptyWhenDone ==
    ASSUME BackendInv, state = "closed" \/ \E t \in Threads : pc[t] = "finish"
    PROVE  /\ Alive = {}
           /\ Counted = {} /\ Creators = {}
<1>1. Present = {} /\ creating = {} /\ Counted = {}
    BY DEF BackendInv, ClosingInOrder, Past
<1>2. doomed = {}
    BY DEF BackendInv, ClosingInOrder, Closers
<1>3. Fresh = {} /\ Creators = {}
    BY <1>1, NoCreators DEF BackendInv
<1>4. \A s \in Sessions : ~InTable(s) /\ ~InCreation(s)
    BY <1>1, <1>3 DEF InTable, InCreation
<1>5. QED
    BY <1>1, <1>2, <1>3, <1>4 DEF BackendInv, SessionsHeld, TypeOK, Alive

(* When close() is over every session ever started is closed, also one     *)
(* whose creation overlapped it.                                           *)
THEOREM CloseIsComplete == Spec => []NothingOutlivesClose
<1>1. BackendInv => NothingOutlivesClose
    BY EmptyWhenDone DEF NothingOutlivesClose
<1>2. QED
    BY <1>1, BackendInvariance, PTL

(* The buffer manager is closed under no call, construction or session.    *)
THEOREM BuffersLast == Spec => []BuffersOutliveUse
<1>1. BackendInv => BuffersOutliveUse
    BY EmptyWhenDone DEF BuffersOutliveUse, BackendInv, ClosingInOrder
<1>2. QED
    BY <1>1, BackendInvariance, PTL

(* A healthy session leaves the table only by close(): an eviction that    *)
(* comes late spares the replacement.                                      *)
THEOREM EvictionSparesHealthy == Spec => HealthyStays
<1>1. BackendInv /\ [Next]_vars =>
         [\A p \in Present :
             state = "open" /\ status[sessions[p]] = "live"
                 => sessions'[p] = sessions[p]]_vars
    <2> SUFFICES ASSUME BackendInv, [Next]_vars, NEW p \in Present,
                        state = "open", status[sessions[p]] = "live"
                 PROVE  sessions'[p] = sessions[p]
        BY Zenon
    <2> USE DEF Go, NotifyAll, Ready, tableVars, sessionVars, threadVars
    <2>1. ASSUME NEW t \in Threads, Publish(t)
          PROVE  sessions'[p] = sessions[p]
        <3>1. plugin[t] \in creating
            BY <2>1 DEF Publish, BackendInv, Accounted, CreationsOwned,
                   Creators
        <3>2. p \notin creating
            BY DEF BackendInv, SessionsHeld
        <3>3. QED
            BY <2>1, <3>1, <3>2 DEF Publish, BackendInv, TypeOK, Present
    <2>2. ASSUME NEW t \in Threads, Evict(t)
          PROVE  sessions'[p] = sessions[p]
        <3>1. status[mine[t]] # "live"
            BY <2>2 DEF Evict, BackendInv, HandsDiffer, Users
        <3>2. CASE sessions[plugin[t]] = mine[t]
            BY <2>2, <3>1, <3>2 DEF Evict, BackendInv, TypeOK, Present
        <3>3. CASE sessions[plugin[t]] # mine[t]
            BY <2>2, <3>3 DEF Evict
        <3>4. QED
            BY <3>2, <3>3
    <2>3. ASSUME NEW t \in Threads, Drained(t)
          PROVE  sessions'[p] = sessions[p]
        BY <2>3 DEF Drained, BackendInv, ClosingInOrder, Closers
    <2>4. sessions' = sessions \/ \E t \in Threads :
              Publish(t) \/ Evict(t) \/ Drained(t)
        BY StepCases DEF Invoke, AcquireRefused, AcquireFound, AcquireCreates,
               AcquireWaits,
               CreateDone, CreateAborted, CreateFails, PublishLate, Discard,
               Forget, UseRefused, UseBegins, CallReturns,
               CallFails, CallInterrupted, CloseBroken, Leave,
               Construct, Constructed, Close, CloseSession,
               CloseBuffers, CloseFinished, CloseAwaited, WaitInterrupted,
               WorkerStopped, vars
    <2>5. QED
        BY <2>1, <2>2, <2>3, <2>4
<1>2. QED
    BY <1>1, BackendInvariance, PTL DEF Spec, HealthyStays

-----------------------------------------------------------------------------
(* The gate of the runtime.  The threads inside, and their stages.         *)
Inside == Counted \cup Creators

InsideStages == {"use", "call", "close", "evict", "leave", "construct",
                 "create", "publish", "discard", "forget"}

(* A thread that moves is inside or outside by its new stage.              *)
LEMMA InsideMoves ==
    ASSUME TypeOK, NEW t \in Threads, NEW s, pc' = [pc EXCEPT ![t] = s]
    PROVE  /\ t \in Inside <=> pc[t] \in InsideStages
           /\ s \in InsideStages => Inside' = Inside \cup {t}
           /\ s \notin InsideStages => Inside' = Inside \ {t}
<1>1. \A u \in Threads : u \in Inside <=> pc[u] \in InsideStages
    BY DEF Inside, Counted, Creators, InsideStages
<1>2. \A u \in Threads : u \in Inside' <=> pc'[u] \in InsideStages
    BY DEF Inside, Counted, Creators, InsideStages
<1>3. \A u \in Threads : pc'[u] = IF u = t THEN s ELSE pc[u]
    BY DEF TypeOK
<1>4. Inside \subseteq Threads /\ Inside' \subseteq Threads
    BY DEF Inside, Counted, Creators
<1>5. QED
    BY <1>1, <1>2, <1>3, <1>4

(* Whoever is inside keeps the backend from being closed.                  *)
LEMMA InsideIsNotClosed ==
    ASSUME BackendInv, NEW t \in Inside
    PROVE  state # "closed"
<1> SUFFICES ASSUME state = "closed" PROVE FALSE
    OBVIOUS
<1>1. Counted = {} /\ Creators = {}
    BY EmptyWhenDone
<1>2. QED
    BY <1>1 DEF Inside

(* Every step is a step of the gate or leaves it alone.                    *)
LEMMA GateMoves ==
    ASSUME BackendInv, [Next]_vars
    PROVE  [Gate!GateNext]_<<state, Inside, Alive, Left>>
<1> USE DEF Go, NotifyAll, Ready, tableVars, sessionVars, threadVars
<1>0. TypeOK
    BY DEF BackendInv
<1>s. InsideStages \cap {"idle", "acquire", "drain", "await", "sweep", "finish"} = {}
    BY DEF InsideStages
<1>i. "idle" \notin InsideStages
    BY <1>s
<1>1. ASSUME NEW t \in Threads,
             AcquireFound(t) \/ AcquireCreates(t) \/ Construct(t)
      PROVE  Gate!Enter(t)
    <2>1. /\ state = "open" /\ state' = state /\ status' = status
          /\ pc[t] \notin InsideStages
          /\ \E s \in InsideStages : pc' = [pc EXCEPT ![t] = s]
        BY <1>1 DEF AcquireFound, AcquireCreates, Construct, InsideStages
    <2>2. Inside' = Inside \cup {t} /\ t \notin Inside
        BY <1>0, <2>1, InsideMoves
    <2>3. QED
        BY <2>1, <2>2 DEF Gate!Enter, Inside, Alive, Left
<1>2. ASSUME NEW t \in Threads, CreateFails(t) \/ Forget(t) \/ Leave(t)
      PROVE  Gate!Exit(t)
    <2>1. /\ state' = state /\ status' = status
          /\ pc[t] \in InsideStages /\ pc' = [pc EXCEPT ![t] = "idle"]
        BY <1>2 DEF CreateFails, Forget, Leave, InsideStages
    <2>2. Inside' = Inside \ {t} /\ t \in Inside
        BY <1>0, <1>s, <1>i, <2>1, InsideMoves
    <2>3. QED
        BY <2>1, <2>2 DEF Gate!Exit, Inside, Alive, Left
<1>3. ASSUME NEW t \in Threads,
             \/ CreateDone(t) \/ CreateAborted(t) \/ Discard(t) \/ CallFails(t)
             \/ CallInterrupted(t) \/ CloseBroken(t)
      PROVE  Gate!WorkersChange
    <2>1. /\ state' = state
          /\ pc[t] \in InsideStages
          /\ \E s \in InsideStages : pc' = [pc EXCEPT ![t] = s]
        BY <1>3 DEF CreateDone, CreateAborted, Discard, CallFails,
                    CallInterrupted, CloseBroken, InsideStages
    <2>2. Inside' = Inside /\ t \in Inside
        BY <1>0, <2>1, InsideMoves
    <2>3. state # "closed"
        BY <2>2, InsideIsNotClosed
    <2>4. Alive' \subseteq Sessions /\ Left' \subseteq Sessions
        BY DEF Alive, Left
    <2>5. QED
        BY <2>1, <2>2, <2>3, <2>4 DEF Gate!WorkersChange, Inside
<1>4. ASSUME NEW t \in Threads, CloseSession(t)
      PROVE  Gate!WorkersChange
    <2>1. state' = state /\ pc' = pc /\ pc[t] = "sweep"
        BY <1>4 DEF CloseSession
    <2>2. state # "closed"
        BY <2>1 DEF BackendInv, ClosingInOrder, Closers
    <2>3. (Counted \cup Creators)' = Counted \cup Creators
        BY <2>1 DEF Counted, Creators
    <2>4. Alive' \subseteq Sessions /\ Left' \subseteq Sessions
        BY DEF Alive, Left
    <2>5. QED
        BY <2>1, <2>2, <2>3, <2>4 DEF Gate!WorkersChange
<1>5. ASSUME NEW t \in Threads, Close(t)
      PROVE  Gate!CloseBegins \/ UNCHANGED <<state, Inside, Alive, Left>>
    <2>1. /\ pc[t] = "idle" /\ state # "closed" /\ state' = "closing"
          /\ status' = status
          /\ \E s \in {"drain", "await"} : pc' = [pc EXCEPT ![t] = s]
        BY <1>5 DEF Close
    <2>2. Inside' = Inside
        BY <1>0, <1>s, <1>i, <2>1, InsideMoves
    <2>3. state = "open" \/ state = "closing"
        BY <1>0, <2>1 DEF TypeOK
    <2>4. QED
        BY <2>1, <2>2, <2>3 DEF Gate!CloseBegins, Inside, Alive, Left
<1>6. ASSUME NEW t \in Threads, CloseFinished(t)
      PROVE  Gate!CloseEnds
    <2>1. /\ pc[t] = "finish" /\ state' = "closed" /\ status' = status
          /\ pc' = [pc EXCEPT ![t] = "idle"]
        BY <1>6 DEF CloseFinished
    <2>2. /\ Alive = {}
          /\ Counted = {} /\ Creators = {}
        BY <2>1, EmptyWhenDone
    <2>3. Alive' = {} /\ Left' = Left /\ Inside = {}
        BY <2>1, <2>2 DEF Alive, Left, Inside
    <2>4. Inside' = {}
        BY <1>0, <1>i, <2>1, <2>3, InsideMoves
    <2>5. state # "closed"
        BY <2>1 DEF BackendInv, ClosingInOrder, Closers
    <2>6. QED
        BY <2>1, <2>3, <2>4, <2>5 DEF Gate!CloseEnds, Inside
<1>7. ASSUME NEW t \in Threads,
             \/ \E p \in Plugins : Invoke(t, p)
             \/ AcquireRefused(t) \/ AcquireWaits(t) \/ CloseAwaited(t)
             \/ WaitInterrupted(t) \/ Drained(t) \/ CloseBuffers(t)
      PROVE  UNCHANGED <<state, Inside, Alive, Left>>
    <2>1. /\ state' = state /\ status' = status
          /\ pc[t] \notin InsideStages
          /\ pc' = pc \/ \E s \in {"acquire", "idle", "sweep", "finish"} :
                                pc' = [pc EXCEPT ![t] = s]
        BY <1>0, <1>7 DEF Invoke, AcquireRefused, AcquireWaits, CloseAwaited,
               WaitInterrupted, Drained, CloseBuffers, InsideStages, TypeOK
    <2>2. Inside' = Inside
        <3>1. CASE pc' = pc
            BY <3>1 DEF Inside, Counted, Creators
        <3>2. CASE pc' # pc
            BY <1>0, <1>s, <2>1, <3>2, InsideMoves
        <3>3. QED
            BY <3>1, <3>2
    <2>3. QED
        BY <2>1, <2>2 DEF Alive, Left
<1>8. ASSUME NEW t \in Threads,
             \/ Publish(t) \/ PublishLate(t) \/ UseRefused(t) \/ UseBegins(t)
             \/ CallReturns(t) \/ Evict(t) \/ Constructed(t)
      PROVE  UNCHANGED <<state, Inside, Alive, Left>>
    <2>1. /\ state' = state /\ status' = status
          /\ pc[t] \in InsideStages
          /\ \E s \in InsideStages : pc' = [pc EXCEPT ![t] = s]
        BY <1>8 DEF Publish, PublishLate, UseRefused, UseBegins, CallReturns,
               Evict, Constructed, InsideStages
    <2>2. Inside' = Inside
        BY <1>0, <2>1, InsideMoves
    <2>3. QED
        BY <2>1, <2>2 DEF Alive, Left
<1>9. CASE UNCHANGED vars
    BY <1>9 DEF vars, Inside, Counted, Creators, Alive, Left
<1>10. ASSUME NEW s \in Sessions, WorkerStopped(s) PROVE Gate!LingererEnds
    <2>1. /\ UNCHANGED <<state, pc>> /\ status[s] = "left"
          /\ status' = [status EXCEPT ![s] = "closed"]
        BY <1>10 DEF WorkerStopped
    <2>2. Left' \subseteq Left /\ Alive' = Alive
        BY <1>0, <2>1 DEF Left, Alive, TypeOK
    <2>3. (Counted \cup Creators)' = Counted \cup Creators
        BY <2>1 DEF Counted, Creators
    <2>4. QED
        BY <2>1, <2>2, <2>3 DEF Gate!LingererEnds
<1>11. QED
    BY <1>1, <1>2, <1>3, <1>4, <1>5, <1>6, <1>7, <1>8, <1>9, <1>10, StepCases
    DEF Gate!GateNext

(* The isolated backend keeps what the runtime relies on: it lets nobody   *)
(* in once its close has begun, and the close is over when everybody has   *)
(* left and every session is closed; a worker that outlasts its session    *)
(* then only ends.                                                         *)
THEOREM BackendImplementsGate == Spec => BackendIsGate
<1>1. Init => Gate!GateInit
    BY DEF Init, Gate!GateInit, Counted, Creators, Alive, Left
<1>2. BackendInv /\ [Next]_vars
          => [Gate!GateNext]_<<state, Counted \cup Creators, Alive, Left>>
    BY GateMoves DEF Inside
<1>3. QED
    BY <1>1, <1>2, BackendInvariance, PTL
    DEF Spec, BackendIsGate, Gate!GateSpec, Gate!gateVars

=============================================================================
