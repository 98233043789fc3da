----------------------- MODULE SessionDispatchProofs -----------------------
(***************************************************************************)
(* Proofs, for any number of callers, any ring capacity and any bound on   *)
(* the calls, that the dispatcher of a session forgets nobody, decides     *)
(* each outcome once, registers nothing once it has failed and raises no   *)
(* false alarm, and that the session is shut down only between calls and,  *)
(* by a close() that succeeds, completely.                                 *)
(*                                                                         *)
(* The argument is the invariant DispatchInv: a submission is owned by one *)
(* caller (OwnSubmission) and, until it has an outcome, is in exactly one  *)
(* of the map, the list of a fail_ring and the hand of the completion      *)
(* thread (OneHand and NobodyForgotten); until it is pushed no record      *)
(* names it (UnsentAlone), and then one record at a time does, which the   *)
(* map of a healthy dispatcher knows (AllAwaited, AllDistinct).            *)
(***************************************************************************)
EXTENDS SessionDispatch, TLAPS


(* Every step is one of these.                                             *)
LEMMA StepCases ==
    ASSUME [Next]_vars
    PROVE  \/ \E c \in Callers :
                 \/ BeginCall(c) \/ Register(c) \/ RegisterRefused(c)
                 \/ LockProducer(c) \/ Push(c) \/ PushBlocks(c)
                 \/ PushFails(c) \/ DropPending(c) \/ Completed(c)
                 \/ WaitExpires(c) \/ CallerFailsRing(c) \/ UseAnswer(c)
                 \/ Invalidate(c) \/ EndCall(c) \/ Close(c)
                 \/ CloseEnter(c) \/ CloseAwaited(c) \/ CloseAsks(c)
                 \/ CloseJoined(c) \/ DeadlinePasses(c)
           \/ \E i \in Ids : Notify(i)
           \/ SendShutdown \/ ShutRings \/ JoinReader
           \/ Reap \/ ReaderMatches \/ ReaderRefuses
           \/ ReaderDelivers \/ ReaderClosed \/ WorkerPops
           \/ WorkerExecutes \/ WorkerPushes \/ WorkerStops
           \/ WorkerTold \/ WorkerExits \/ WorkerDies
           \/ UNCHANGED vars
BY Zenon
DEF Next, Step, CallStep, CloseStep, ThreadStep, ReaderStep, WorkerStep


(* What taking a record off a ring leaves.                                 *)
LEMMA PopTyped ==
    ASSUME NEW S, NEW q \in Seq(S), q # <<>>
    PROVE  Head(q) \in S /\ Tail(q) \in Seq(S) /\ Len(Tail(q)) = Len(q) - 1
OBVIOUS

(* Records as they are built.                                              *)
LEMMA MessagesTyped ==
    /\ Nothing \in Messages
    /\ \A i \in {0} \cup Ids, k \in Kinds : Record(i, k) \in Messages
    /\ \A m \in Messages, s \in Statuses : Answer(m, s) \in Messages
    /\ \A m \in Messages : m.submission \in {0} \cup Ids /\ m.status \in Statuses
BY DEF Messages, Record, Answer, Nothing, Kinds, Statuses

(* Where an answer leads a caller.                                         *)
LEMMA AnswerLeads ==
    ASSUME TypeOK, NEW c \in Callers, UseAnswer(c)
    PROVE  /\ stage[c] = "answered"
           /\ done[submission[c]] # "no"
           /\ \E s \in {"invalidate", "leave", "register"} :
                 stage' = [stage EXCEPT ![c] = s]
           /\ kind' \in [Callers -> Kinds]
           /\ raised' \in [Callers -> BOOLEAN]
           /\ done' = [done EXCEPT ![submission[c]] = "gone"]
           /\ UNCHANGED <<late, submission, active, begun, flags, thread, next,
                          pending, condemned, expected, ringError, producer,
                          reader, hand, commands, commandsClosed, completions,
                          completionsClosed, worker, job, told>>
<1> DEFINE status == done[submission[c]]
<1>1. CASE status = "internal"
    BY <1>1 DEF UseAnswer, TypeOK, Go, closeVars, ringVars, workerVars
<1>2. CASE status = "operation"
    BY <1>2 DEF UseAnswer, TypeOK, Go, closeVars, ringVars, workerVars
<1>3. CASE status = "ok"
    BY <1>3 DEF UseAnswer, TypeOK, Go, Kinds, closeVars, ringVars,
           workerVars
<1>4. status \in {"internal", "operation", "ok"}
    BY DEF UseAnswer
<1>5. QED
    BY <1>1, <1>2, <1>3, <1>4


(* Types: the counters stay in range and rings within capacity.            *)
LEMMA TypePreserved ==
    ASSUME TypeOK, [Next]_vars
    PROVE  TypeOK'
<1>0. faults' = faults
    BY DEF Next, vars
<1> USE <1>0, DispatchAssumption
    DEF TypeOK, Go, Ids, Kinds, Stages, FailRing, callVars, closeVars,
        hostVars, ringVars, workerVars
<1>1. ASSUME NEW c \in Callers, BeginCall(c) PROVE TypeOK'
    BY <1>1 DEF BeginCall
<1>2. ASSUME NEW c \in Callers, Register(c) PROVE TypeOK'
    BY <1>2 DEF Register
<1>3. ASSUME NEW c \in Callers, RegisterRefused(c) PROVE TypeOK'
    BY <1>3 DEF RegisterRefused
<1>4. ASSUME NEW c \in Callers, LockProducer(c) PROVE TypeOK'
    BY <1>4 DEF LockProducer
<1>5. ASSUME NEW c \in Callers, Push(c) PROVE TypeOK'
    <2>1. Record(submission[c], kind[c]) \in Messages
        BY <1>5, MessagesTyped DEF Push
    <2>2. commands' \in Seq(Messages) /\ Len(commands') <= Capacity
        BY <1>5, <2>1 DEF Push
    <2>3. QED
        BY <1>5, <2>2 DEF Push
<1>6. ASSUME NEW c \in Callers, PushBlocks(c) PROVE TypeOK'
    BY <1>6 DEF PushBlocks
<1>7. ASSUME NEW c \in Callers, PushFails(c) PROVE TypeOK'
    BY <1>7 DEF PushFails
<1>8. ASSUME NEW c \in Callers, DropPending(c) PROVE TypeOK'
    <2>1. pending' \subseteq Ids
        BY <1>8 DEF DropPending
    <2>2. stage' \in [Callers -> Stages]
        BY <1>8 DEF DropPending
    <2>3. QED
        BY <1>8, <2>1, <2>2 DEF DropPending
<1>9. ASSUME NEW c \in Callers, Completed(c) PROVE TypeOK'
    BY <1>9 DEF Completed
<1>10. ASSUME NEW c \in Callers, WaitExpires(c) PROVE TypeOK'
    BY <1>10 DEF WaitExpires
<1>11. ASSUME NEW c \in Callers, CallerFailsRing(c) PROVE TypeOK'
    BY <1>11 DEF CallerFailsRing
<1>12. ASSUME NEW c \in Callers, UseAnswer(c) PROVE TypeOK'
    <2>1. PICK s \in {"invalidate", "leave", "register"} :
                stage' = [stage EXCEPT ![c] = s]
        BY <1>12, AnswerLeads
    <2>2. /\ stage[c] = "answered"
          /\ done[submission[c]] # "no"
          /\ kind' \in [Callers -> Kinds]
          /\ raised' \in [Callers -> BOOLEAN]
          /\ done' = [done EXCEPT ![submission[c]] = "gone"]
          /\ UNCHANGED <<late, submission, active, begun, flags, thread, next,
                         pending, condemned, expected, ringError, producer,
                         reader, hand, commands, commandsClosed, completions,
                         completionsClosed, worker, job, told>>
        BY <1>12, AnswerLeads
    <2>3. stage' \in [Callers -> Stages]
        BY <2>1
    <2>4. done' \in [Ids -> {"no", "error", "gone"} \cup Statuses]
        BY <2>2
    <2>5. QED
        BY <2>2, <2>3, <2>4
<1>13. ASSUME NEW c \in Callers, Invalidate(c) PROVE TypeOK'
    <2>1. flags' \in Flags
        BY <1>13, Zenon DEF Invalidate, Flags
    <2>2. QED
        BY <1>13, <2>1 DEF Invalidate
<1>14. ASSUME NEW c \in Callers, EndCall(c) PROVE TypeOK'
    BY <1>14 DEF EndCall
<1>15. ASSUME NEW c \in Callers, Close(c) PROVE TypeOK'
    BY <1>15 DEF Close
<1>16. ASSUME NEW c \in Callers, CloseEnter(c) PROVE TypeOK'
    <2>1. flags' \in Flags
        BY <1>16, Zenon DEF CloseEnter, Flags
    <2>2. QED
        BY <1>16, <2>1 DEF CloseEnter
<1>17. ASSUME NEW c \in Callers, CloseAwaited(c) PROVE TypeOK'
    BY <1>17 DEF CloseAwaited
<1>18. ASSUME NEW c \in Callers, CloseAsks(c) PROVE TypeOK'
    BY <1>18 DEF CloseAsks
<1>19. ASSUME NEW c \in Callers, CloseJoined(c) PROVE TypeOK'
    <2>1. flags' \in Flags
        BY <1>19, Zenon DEF CloseJoined, Flags
    <2>2. QED
        BY <1>19, <2>1 DEF CloseJoined
<1>20. ASSUME NEW c \in Callers, DeadlinePasses(c) PROVE TypeOK'
    BY <1>20 DEF DeadlinePasses
<1>21. ASSUME NEW i \in Ids, Notify(i) PROVE TypeOK'
    BY <1>21 DEF Notify
<1>22. CASE SendShutdown
    BY <1>22 DEF SendShutdown
<1>23. CASE ShutRings
    BY <1>23 DEF ShutRings
<1>24. CASE JoinReader
    BY <1>24 DEF JoinReader
<1>25. CASE Reap
    BY <1>25, MessagesTyped DEF Reap
<1>26. CASE ReaderMatches
    <2>1. /\ Head(completions) \in Messages
          /\ Tail(completions) \in Seq(Messages)
          /\ Len(Tail(completions)) <= Capacity
        BY <1>26, PopTyped DEF ReaderMatches
    <2>2. hand' \in Messages /\ completions' \in Seq(Messages)
          /\ Len(completions') <= Capacity
        BY <1>26, <2>1 DEF ReaderMatches
    <2>3. pending' \subseteq Ids /\ reader' \in {"reading", "deliver", "ended"}
        BY <1>26 DEF ReaderMatches
    <2>4. QED
        BY <1>26, <2>2, <2>3 DEF ReaderMatches
<1>27. CASE ReaderRefuses
    BY <1>27, PopTyped DEF ReaderRefuses
<1>28. CASE ReaderDelivers
    <2>1. hand.status \in Statuses /\ hand' \in Messages
        BY <1>28, MessagesTyped DEF ReaderDelivers, Messages
    <2>2. done' \in [Ids -> {"no", "error", "gone"} \cup Statuses]
        BY <1>28, <2>1 DEF ReaderDelivers
    <2>3. QED
        BY <1>28, <2>1, <2>2 DEF ReaderDelivers
<1>29. CASE ReaderClosed
    BY <1>29 DEF ReaderClosed
<1>30. CASE WorkerPops
    BY <1>30, PopTyped DEF WorkerPops
<1>31. CASE WorkerExecutes
    BY <1>31, MessagesTyped DEF WorkerExecutes
<1>32. CASE WorkerPushes
    BY <1>32, MessagesTyped DEF WorkerPushes
<1>33. CASE WorkerStops
    BY <1>33, MessagesTyped DEF WorkerStops
<1>34. CASE WorkerTold
    BY <1>34 DEF WorkerTold
<1>35. CASE WorkerExits
    BY <1>35 DEF WorkerExits
<1>36. CASE WorkerDies
    BY <1>36, MessagesTyped DEF WorkerDies
<1>37. CASE UNCHANGED vars
    BY <1>37 DEF vars, sessionVars
<1> HIDE DEF TypeOK, Go, Ids, Kinds, Stages, FailRing, callVars,
       closeVars, hostVars, ringVars, workerVars
<1>38. QED
    BY StepCases, <1>1, <1>2, <1>3, <1>4, <1>5, <1>6, <1>7, <1>8, <1>9,
       <1>10, <1>11, <1>12, <1>13, <1>14, <1>15, <1>16, <1>17, <1>18,
       <1>19, <1>20, <1>21, <1>22, <1>23, <1>24, <1>25, <1>26, <1>27,
       <1>28, <1>29, <1>30, <1>31, <1>32, <1>33, <1>34, <1>35, <1>36,
       <1>37, Zenon

(* Calls are counted while they run, and a shutdown starts between them.   *)
LEMMA CallsPreserved ==
    ASSUME TypeOK, CallsCounted, CallsDrainFirst, [Next]_vars
    PROVE  (CallsCounted /\ CallsDrainFirst)'
<1> USE DispatchAssumption DEF TypeOK, Flags, CallsCounted, CallsDrainFirst,
           InCall, Stages, Go,
       callVars, closeVars, hostVars, ringVars, workerVars
<1>1. ASSUME NEW c \in Callers, BeginCall(c)
      PROVE  (CallsCounted /\ CallsDrainFirst)'
    BY <1>1 DEF BeginCall
<1>2. ASSUME NEW c \in Callers, Register(c)
      PROVE  (CallsCounted /\ CallsDrainFirst)'
    BY <1>2 DEF Register
<1>3. ASSUME NEW c \in Callers, RegisterRefused(c)
      PROVE  (CallsCounted /\ CallsDrainFirst)'
    BY <1>3 DEF RegisterRefused
<1>4. ASSUME NEW c \in Callers, LockProducer(c)
      PROVE  (CallsCounted /\ CallsDrainFirst)'
    BY <1>4 DEF LockProducer
<1>5. ASSUME NEW c \in Callers, Push(c)
      PROVE  (CallsCounted /\ CallsDrainFirst)'
    BY <1>5 DEF Push
<1>6. ASSUME NEW c \in Callers, PushBlocks(c)
      PROVE  (CallsCounted /\ CallsDrainFirst)'
    BY <1>6 DEF PushBlocks
<1>7. ASSUME NEW c \in Callers, PushFails(c)
      PROVE  (CallsCounted /\ CallsDrainFirst)'
    BY <1>7 DEF PushFails
<1>8. ASSUME NEW c \in Callers, DropPending(c)
      PROVE  (CallsCounted /\ CallsDrainFirst)'
    BY <1>8 DEF DropPending
<1>9. ASSUME NEW c \in Callers, Completed(c)
      PROVE  (CallsCounted /\ CallsDrainFirst)'
    BY <1>9 DEF Completed
<1>10. ASSUME NEW c \in Callers, WaitExpires(c)
       PROVE  (CallsCounted /\ CallsDrainFirst)'
    BY <1>10 DEF WaitExpires
<1>11. ASSUME NEW c \in Callers, CallerFailsRing(c)
       PROVE  (CallsCounted /\ CallsDrainFirst)'
    BY <1>11 DEF CallerFailsRing
<1>12. ASSUME NEW c \in Callers, UseAnswer(c)
       PROVE  (CallsCounted /\ CallsDrainFirst)'
    <2>1. PICK s \in {"invalidate", "leave", "register"} :
                stage' = [stage EXCEPT ![c] = s]
        BY <1>12, AnswerLeads
    <2>2. /\ stage[c] = "answered"
          /\ done[submission[c]] # "no"
          /\ kind' \in [Callers -> Kinds]
          /\ raised' \in [Callers -> BOOLEAN]
          /\ done' = [done EXCEPT ![submission[c]] = "gone"]
          /\ UNCHANGED <<late, submission, active, begun, flags, thread, next,
                         pending, condemned, expected, ringError, producer,
                         reader, hand, commands, commandsClosed, completions,
                         completionsClosed, worker, job, told>>
        BY <1>12, AnswerLeads
    <2>3. QED
        BY <2>1, <2>2
<1>13. ASSUME NEW c \in Callers, Invalidate(c)
       PROVE  (CallsCounted /\ CallsDrainFirst)'
    BY <1>13 DEF Invalidate
<1>14. ASSUME NEW c \in Callers, EndCall(c)
       PROVE  (CallsCounted /\ CallsDrainFirst)'
    BY <1>14 DEF EndCall
<1>15. ASSUME NEW c \in Callers, Close(c)
       PROVE  (CallsCounted /\ CallsDrainFirst)'
    BY <1>15 DEF Close
<1>16. ASSUME NEW c \in Callers, CloseEnter(c)
       PROVE  (CallsCounted /\ CallsDrainFirst)'
    BY <1>16 DEF CloseEnter
<1>17. ASSUME NEW c \in Callers, CloseAwaited(c)
       PROVE  (CallsCounted /\ CallsDrainFirst)'
    BY <1>17 DEF CloseAwaited
<1>18. ASSUME NEW c \in Callers, CloseAsks(c)
       PROVE  (CallsCounted /\ CallsDrainFirst)'
    BY <1>18 DEF CloseAsks
<1>19. ASSUME NEW c \in Callers, CloseJoined(c)
       PROVE  (CallsCounted /\ CallsDrainFirst)'
    BY <1>19 DEF CloseJoined
<1>20. ASSUME NEW c \in Callers, DeadlinePasses(c)
       PROVE  (CallsCounted /\ CallsDrainFirst)'
    BY <1>20 DEF DeadlinePasses
<1>21. ASSUME NEW i \in Ids, Notify(i) PROVE (CallsCounted /\ CallsDrainFirst)'
    BY <1>21 DEF Notify
<1>22. CASE SendShutdown
    BY <1>22 DEF SendShutdown
<1>23. CASE ShutRings
    BY <1>23 DEF ShutRings
<1>24. CASE JoinReader
    BY <1>24 DEF JoinReader
<1>25. CASE Reap
    BY <1>25 DEF Reap
<1>26. CASE ReaderMatches
    BY <1>26 DEF ReaderMatches
<1>27. CASE ReaderRefuses
    BY <1>27 DEF ReaderRefuses
<1>28. CASE ReaderDelivers
    BY <1>28 DEF ReaderDelivers
<1>29. CASE ReaderClosed
    BY <1>29 DEF ReaderClosed
<1>30. CASE WorkerPops
    BY <1>30 DEF WorkerPops
<1>31. CASE WorkerExecutes
    BY <1>31 DEF WorkerExecutes
<1>32. CASE WorkerPushes
    BY <1>32 DEF WorkerPushes
<1>33. CASE WorkerStops
    BY <1>33 DEF WorkerStops
<1>34. CASE WorkerTold
    BY <1>34 DEF WorkerTold
<1>35. CASE WorkerExits
    BY <1>35 DEF WorkerExits
<1>36. CASE WorkerDies
    BY <1>36 DEF WorkerDies
<1>37. CASE UNCHANGED vars
    BY <1>37 DEF vars, sessionVars
<1> HIDE DEF TypeOK, Flags, CallsCounted, CallsDrainFirst, InCall, Stages, Go,
       callVars, closeVars, hostVars, ringVars, workerVars
<1>38. QED
    BY StepCases, <1>1, <1>2, <1>3, <1>4, <1>5, <1>6, <1>7, <1>8, <1>9,
       <1>10, <1>11, <1>12, <1>13, <1>14, <1>15, <1>16, <1>17, <1>18,
       <1>19, <1>20, <1>21, <1>22, <1>23, <1>24, <1>25, <1>26, <1>27,
       <1>28, <1>29, <1>30, <1>31, <1>32, <1>33, <1>34, <1>35, <1>36,
       <1>37, Zenon

HandsInv ==
    OwnSubmission /\ OneHand /\ FailedDispatcherEmpty /\ NobodyForgotten

(* Where a submission without an outcome is.                               *)
LEMMA HandsPreserved ==
    ASSUME TypeOK, TypeOK', HandsInv, [Next]_vars
    PROVE  HandsInv'
<1> USE DispatchAssumption DEF HandsInv, TypeOK, OwnSubmission, OneHand,
           FailedDispatcherEmpty,
       NobodyForgotten, Unanswered, InHand, Submitted, Statuses, Go, Ids,
       FailRing, callVars, closeVars, hostVars, ringVars, workerVars
<1>1. ASSUME NEW c \in Callers, BeginCall(c) PROVE HandsInv'
    BY <1>1 DEF BeginCall
<1>2. ASSUME NEW c \in Callers, Register(c) PROVE HandsInv'
    BY <1>2 DEF Register
<1>3. ASSUME NEW c \in Callers, RegisterRefused(c) PROVE HandsInv'
    BY <1>3 DEF RegisterRefused
<1>4. ASSUME NEW c \in Callers, LockProducer(c) PROVE HandsInv'
    BY <1>4 DEF LockProducer
<1>5. ASSUME NEW c \in Callers, Push(c) PROVE HandsInv'
    BY <1>5 DEF Push
<1>6. ASSUME NEW c \in Callers, PushBlocks(c) PROVE HandsInv'
    BY <1>6 DEF PushBlocks
<1>7. ASSUME NEW c \in Callers, PushFails(c) PROVE HandsInv'
    BY <1>7 DEF PushFails
<1>8. ASSUME NEW c \in Callers, DropPending(c) PROVE HandsInv'
    BY <1>8 DEF DropPending
<1>9. ASSUME NEW c \in Callers, Completed(c) PROVE HandsInv'
    BY <1>9 DEF Completed
<1>10. ASSUME NEW c \in Callers, WaitExpires(c) PROVE HandsInv'
    BY <1>10 DEF WaitExpires
<1>11. ASSUME NEW c \in Callers, CallerFailsRing(c) PROVE HandsInv'
    BY <1>11 DEF CallerFailsRing
<1>12. ASSUME NEW c \in Callers, UseAnswer(c) PROVE HandsInv'
    <2>1. PICK s \in {"invalidate", "leave", "register"} :
                stage' = [stage EXCEPT ![c] = s]
        BY <1>12, AnswerLeads
    <2>2. /\ stage[c] = "answered"
          /\ done[submission[c]] # "no"
          /\ kind' \in [Callers -> Kinds]
          /\ raised' \in [Callers -> BOOLEAN]
          /\ done' = [done EXCEPT ![submission[c]] = "gone"]
          /\ UNCHANGED <<late, submission, active, begun, flags, thread, next,
                         pending, condemned, expected, ringError, producer,
                         reader, hand, commands, commandsClosed, completions,
                         completionsClosed, worker, job, told>>
        BY <1>12, AnswerLeads
    <2>3. QED
        BY <2>1, <2>2
<1>13. ASSUME NEW c \in Callers, Invalidate(c) PROVE HandsInv'
    BY <1>13 DEF Invalidate
<1>14. ASSUME NEW c \in Callers, EndCall(c) PROVE HandsInv'
    BY <1>14 DEF EndCall
<1>15. ASSUME NEW c \in Callers, Close(c) PROVE HandsInv'
    BY <1>15 DEF Close
<1>16. ASSUME NEW c \in Callers, CloseEnter(c) PROVE HandsInv'
    BY <1>16 DEF CloseEnter
<1>17. ASSUME NEW c \in Callers, CloseAwaited(c) PROVE HandsInv'
    BY <1>17 DEF CloseAwaited
<1>18. ASSUME NEW c \in Callers, CloseAsks(c) PROVE HandsInv'
    BY <1>18 DEF CloseAsks
<1>19. ASSUME NEW c \in Callers, CloseJoined(c) PROVE HandsInv'
    BY <1>19 DEF CloseJoined
<1>20. ASSUME NEW c \in Callers, DeadlinePasses(c) PROVE HandsInv'
    BY <1>20 DEF DeadlinePasses
<1>21. ASSUME NEW i \in Ids, Notify(i) PROVE HandsInv'
    BY <1>21 DEF Notify
<1>22. CASE SendShutdown
    BY <1>22 DEF SendShutdown
<1>23. CASE ShutRings
    BY <1>23 DEF ShutRings
<1>24. CASE JoinReader
    BY <1>24 DEF JoinReader
<1>25. CASE Reap
    BY <1>25 DEF Reap
<1>26. CASE ReaderMatches
    BY <1>26, PopTyped, MessagesTyped DEF ReaderMatches
<1>27. CASE ReaderRefuses
    BY <1>27 DEF ReaderRefuses
<1>28. CASE ReaderDelivers
    BY <1>28, MessagesTyped DEF ReaderDelivers
<1>29. CASE ReaderClosed
    BY <1>29 DEF ReaderClosed
<1>30. CASE WorkerPops
    BY <1>30 DEF WorkerPops
<1>31. CASE WorkerExecutes
    BY <1>31 DEF WorkerExecutes
<1>32. CASE WorkerPushes
    BY <1>32 DEF WorkerPushes
<1>33. CASE WorkerStops
    BY <1>33 DEF WorkerStops
<1>34. CASE WorkerTold
    BY <1>34 DEF WorkerTold
<1>35. CASE WorkerExits
    BY <1>35 DEF WorkerExits
<1>36. CASE WorkerDies
    BY <1>36 DEF WorkerDies
<1>37. CASE UNCHANGED vars
    BY <1>37 DEF vars, sessionVars
<1> HIDE DEF HandsInv, TypeOK, OwnSubmission, OneHand, FailedDispatcherEmpty,
       NobodyForgotten, Unanswered, InHand, Submitted, Statuses, Go, Ids,
       FailRing, callVars, closeVars, hostVars, ringVars, workerVars
<1>38. QED
    BY StepCases, <1>1, <1>2, <1>3, <1>4, <1>5, <1>6, <1>7, <1>8, <1>9,
       <1>10, <1>11, <1>12, <1>13, <1>14, <1>15, <1>16, <1>17, <1>18,
       <1>19, <1>20, <1>21, <1>22, <1>23, <1>24, <1>25, <1>26, <1>27,
       <1>28, <1>29, <1>30, <1>31, <1>32, <1>33, <1>34, <1>35, <1>36,
       <1>37, Zenon

CloserInv == OneCloser /\ EndsJoined

(* One closer wakes the session thread, and what it joins stays ended.     *)
LEMMA CloserPreserved ==
    ASSUME TypeOK, CallsCounted, CloserInv, [Next]_vars
    PROVE  CloserInv'
<1> USE DispatchAssumption DEF TypeOK, Flags, CallsCounted, CloserInv,
       OneCloser, EndsJoined, FailRing, WorkerUp, Go, callVars, closeVars,
       hostVars, ringVars, workerVars
<1>1. ASSUME NEW c \in Callers, BeginCall(c) PROVE CloserInv'
    BY <1>1 DEF BeginCall
<1>2. ASSUME NEW c \in Callers, Register(c) PROVE CloserInv'
    BY <1>2 DEF Register
<1>3. ASSUME NEW c \in Callers, RegisterRefused(c) PROVE CloserInv'
    BY <1>3 DEF RegisterRefused
<1>4. ASSUME NEW c \in Callers, LockProducer(c) PROVE CloserInv'
    BY <1>4 DEF LockProducer
<1>5. ASSUME NEW c \in Callers, Push(c) PROVE CloserInv'
    BY <1>5 DEF Push
<1>6. ASSUME NEW c \in Callers, PushBlocks(c) PROVE CloserInv'
    BY <1>6 DEF PushBlocks
<1>7. ASSUME NEW c \in Callers, PushFails(c) PROVE CloserInv'
    BY <1>7 DEF PushFails
<1>8. ASSUME NEW c \in Callers, DropPending(c) PROVE CloserInv'
    BY <1>8 DEF DropPending
<1>9. ASSUME NEW c \in Callers, Completed(c) PROVE CloserInv'
    BY <1>9 DEF Completed
<1>10. ASSUME NEW c \in Callers, WaitExpires(c) PROVE CloserInv'
    BY <1>10 DEF WaitExpires
<1>11. ASSUME NEW c \in Callers, CallerFailsRing(c) PROVE CloserInv'
    BY <1>11 DEF CallerFailsRing
<1>12. ASSUME NEW c \in Callers, UseAnswer(c) PROVE CloserInv'
    <2>1. PICK s \in {"invalidate", "leave", "register"} :
                stage' = [stage EXCEPT ![c] = s]
        BY <1>12, AnswerLeads
    <2>2. /\ stage[c] = "answered"
          /\ UNCHANGED <<flags, thread, reader, worker>>
        BY <1>12, AnswerLeads
    <2>3. QED
        BY <2>1, <2>2
<1>13. ASSUME NEW c \in Callers, Invalidate(c) PROVE CloserInv'
    BY <1>13 DEF Invalidate
<1>14. ASSUME NEW c \in Callers, EndCall(c) PROVE CloserInv'
    BY <1>14 DEF EndCall
<1>15. ASSUME NEW c \in Callers, Close(c) PROVE CloserInv'
    BY <1>15 DEF Close
<1>16. ASSUME NEW c \in Callers, CloseEnter(c) PROVE CloserInv'
    BY <1>16 DEF CloseEnter
<1>17. ASSUME NEW c \in Callers, CloseAwaited(c) PROVE CloserInv'
    BY <1>17 DEF CloseAwaited
<1>18. ASSUME NEW c \in Callers, CloseAsks(c) PROVE CloserInv'
    BY <1>18 DEF CloseAsks
<1>19. ASSUME NEW c \in Callers, CloseJoined(c) PROVE CloserInv'
    BY <1>19 DEF CloseJoined
<1>20. ASSUME NEW c \in Callers, DeadlinePasses(c) PROVE CloserInv'
    BY <1>20 DEF DeadlinePasses
<1>21. ASSUME NEW i \in Ids, Notify(i) PROVE CloserInv'
    BY <1>21 DEF Notify
<1>22. CASE SendShutdown
    BY <1>22 DEF SendShutdown
<1>23. CASE ShutRings
    BY <1>23 DEF ShutRings
<1>24. CASE JoinReader
    BY <1>24 DEF JoinReader
<1>25. CASE Reap
    BY <1>25 DEF Reap
<1>26. CASE ReaderMatches
    BY <1>26 DEF ReaderMatches
<1>27. CASE ReaderRefuses
    BY <1>27 DEF ReaderRefuses
<1>28. CASE ReaderDelivers
    BY <1>28 DEF ReaderDelivers
<1>29. CASE ReaderClosed
    BY <1>29 DEF ReaderClosed
<1>30. CASE WorkerPops
    BY <1>30 DEF WorkerPops
<1>31. CASE WorkerExecutes
    BY <1>31 DEF WorkerExecutes
<1>32. CASE WorkerPushes
    BY <1>32 DEF WorkerPushes
<1>33. CASE WorkerStops
    BY <1>33 DEF WorkerStops
<1>34. CASE WorkerTold
    BY <1>34 DEF WorkerTold
<1>35. CASE WorkerExits
    BY <1>35 DEF WorkerExits
<1>36. CASE WorkerDies
    BY <1>36 DEF WorkerDies
<1>37. CASE UNCHANGED vars
    BY <1>37 DEF vars, sessionVars
<1> HIDE DEF TypeOK, Flags, CallsCounted, CloserInv, OneCloser, EndsJoined,
       FailRing, WorkerUp, Go, callVars, closeVars, hostVars, ringVars,
       workerVars
<1>38. QED
    BY StepCases, <1>1, <1>2, <1>3, <1>4, <1>5, <1>6, <1>7, <1>8, <1>9, <1>10,
       <1>11, <1>12, <1>13, <1>14, <1>15, <1>16, <1>17, <1>18, <1>19, <1>20,
       <1>21, <1>22, <1>23, <1>24, <1>25, <1>26, <1>27, <1>28, <1>29, <1>30,
       <1>31, <1>32, <1>33, <1>34, <1>35, <1>36, <1>37, Zenon

(* What is under way between the host and the worker.                      *)
TransitInv == AllAwaited /\ AllDistinct /\ UnsentAlone

(* Adding a record to a ring, entry by entry.                              *)
LEMMA PushEntries ==
    ASSUME NEW q \in Seq(Messages), NEW m \in Messages
    PROVE  \A k \in 1..Len(Append(q, m)) :
              \/ k \in 1..Len(q) /\ Append(q, m)[k] = q[k]
              \/ k = Len(q) + 1 /\ Append(q, m)[k] = m
OBVIOUS

(* An answer keeps what its command carries ...                            *)
LEMMA AnswerFields ==
    \A m \in Messages, s \in Statuses :
        /\ Answer(m, s).submission = m.submission
        /\ Answer(m, s).kind = m.kind
BY DEF Answer, Messages

(* ... which is what the caller was registered with.                       *)
LEMMA PushedRecord ==
    ASSUME TypeOK, NEW c \in Callers
    PROVE  /\ Record(submission[c], kind[c]) \in Messages
           /\ Record(submission[c], kind[c]).submission = submission[c]
           /\ Record(submission[c], kind[c]).kind = kind[c]
<1>1. submission[c] \in {0} \cup Ids /\ kind[c] \in Kinds
    BY DEF TypeOK
<1>2. QED
    BY <1>1, MessagesTyped DEF Record

(* A record under way stays awaited: only its own completion takes it out  *)
(* of the map of a healthy dispatcher.                                     *)
LEMMA AwaitedPreserved ==
    ASSUME TypeOK, OwnSubmission, TransitInv, [Next]_vars
    PROVE  AllAwaited'
<1> USE DispatchAssumption DEF TransitInv, TypeOK, AllAwaited, Awaited,
       AllDistinct, Distinct, Elsewhere, Working, UnsentAlone, Unsent,
       OwnSubmission, Submitted, Ids, Go, FailRing, callVars, closeVars,
       hostVars, ringVars, workerVars
<1>1. ASSUME NEW c \in Callers, BeginCall(c) PROVE AllAwaited'
    BY <1>1 DEF BeginCall
<1>2. ASSUME NEW c \in Callers, Register(c) PROVE AllAwaited'
    BY <1>2 DEF Register
<1>3. ASSUME NEW c \in Callers, RegisterRefused(c) PROVE AllAwaited'
    BY <1>3 DEF RegisterRefused
<1>4. ASSUME NEW c \in Callers, LockProducer(c) PROVE AllAwaited'
    BY <1>4 DEF LockProducer
<1>5. ASSUME NEW c \in Callers, Push(c) PROVE AllAwaited'
    <2> PICK m : m = Record(submission[c], kind[c])
        OBVIOUS
    <2>1. m \in Messages /\ m.submission = submission[c] /\ m.kind = kind[c]
        BY PushedRecord
    <2>2. /\ commands' = Append(commands, m)
          /\ stage[c] \in {"push", "blocked"}
          /\ stage' = [stage EXCEPT ![c] = "wait"]
          /\ UNCHANGED <<kind, submission, next, pending, expected, ringError,
                         completions, worker, job>>
        BY <1>5 DEF Push
    <2>3. \A k \in 1..Len(commands') :
             \/ k \in 1..Len(commands) /\ commands'[k] = commands[k]
             \/ k = Len(commands) + 1 /\ commands'[k] = m
        BY <2>1, <2>2, PushEntries
    <2>4. QED
        BY <2>1, <2>2, <2>3
<1>6. ASSUME NEW c \in Callers, PushBlocks(c) PROVE AllAwaited'
    BY <1>6 DEF PushBlocks
<1>7. ASSUME NEW c \in Callers, PushFails(c) PROVE AllAwaited'
    BY <1>7 DEF PushFails
<1>8. ASSUME NEW c \in Callers, DropPending(c) PROVE AllAwaited'
    BY <1>8 DEF DropPending
<1>9. ASSUME NEW c \in Callers, Completed(c) PROVE AllAwaited'
    BY <1>9 DEF Completed
<1>10. ASSUME NEW c \in Callers, WaitExpires(c) PROVE AllAwaited'
    BY <1>10 DEF WaitExpires
<1>11. ASSUME NEW c \in Callers, CallerFailsRing(c) PROVE AllAwaited'
    BY <1>11 DEF CallerFailsRing
<1>12. ASSUME NEW c \in Callers, UseAnswer(c) PROVE AllAwaited'
    <2>1. PICK s \in {"invalidate", "leave", "register"} :
                stage' = [stage EXCEPT ![c] = s]
        BY <1>12, AnswerLeads
    <2>2. /\ stage[c] = "answered"
          /\ UNCHANGED <<next, pending, expected, ringError,
                         submission, commands, completions,
                         worker, job>>
        BY <1>12, AnswerLeads
    <2>3. QED
        BY <2>1, <2>2
<1>13. ASSUME NEW c \in Callers, Invalidate(c) PROVE AllAwaited'
    BY <1>13 DEF Invalidate
<1>14. ASSUME NEW c \in Callers, EndCall(c) PROVE AllAwaited'
    BY <1>14 DEF EndCall
<1>15. ASSUME NEW c \in Callers, Close(c) PROVE AllAwaited'
    BY <1>15 DEF Close
<1>16. ASSUME NEW c \in Callers, CloseEnter(c) PROVE AllAwaited'
    BY <1>16 DEF CloseEnter
<1>17. ASSUME NEW c \in Callers, CloseAwaited(c) PROVE AllAwaited'
    BY <1>17 DEF CloseAwaited
<1>18. ASSUME NEW c \in Callers, CloseAsks(c) PROVE AllAwaited'
    BY <1>18 DEF CloseAsks
<1>19. ASSUME NEW c \in Callers, CloseJoined(c) PROVE AllAwaited'
    BY <1>19 DEF CloseJoined
<1>20. ASSUME NEW c \in Callers, DeadlinePasses(c) PROVE AllAwaited'
    BY <1>20 DEF DeadlinePasses
<1>21. ASSUME NEW i \in Ids, Notify(i) PROVE AllAwaited'
    BY <1>21 DEF Notify
<1>22. CASE SendShutdown
    BY <1>22 DEF SendShutdown
<1>23. CASE ShutRings
    BY <1>23 DEF ShutRings
<1>24. CASE JoinReader
    BY <1>24 DEF JoinReader
<1>25. CASE Reap
    BY <1>25 DEF Reap
<1>26. CASE ReaderMatches
    BY <1>26 DEF ReaderMatches
<1>27. CASE ReaderRefuses
    BY <1>27 DEF ReaderRefuses
<1>28. CASE ReaderDelivers
    BY <1>28 DEF ReaderDelivers
<1>29. CASE ReaderClosed
    BY <1>29 DEF ReaderClosed
<1>30. CASE WorkerPops
    BY <1>30 DEF WorkerPops
<1>31. CASE WorkerExecutes
    <2>1. /\ job'.submission = job.submission
          /\ job'.kind = job.kind
        BY <1>31, AnswerFields DEF WorkerExecutes
    <2>2. QED
        BY <1>31, <2>1 DEF WorkerExecutes
<1>32. CASE WorkerPushes
    BY <1>32 DEF WorkerPushes
<1>33. CASE WorkerStops
    BY <1>33 DEF WorkerStops
<1>34. CASE WorkerTold
    BY <1>34 DEF WorkerTold
<1>35. CASE WorkerExits
    BY <1>35 DEF WorkerExits
<1>36. CASE WorkerDies
    BY <1>36 DEF WorkerDies
<1>37. CASE UNCHANGED vars
    BY <1>37 DEF vars, sessionVars
<1> HIDE DEF TransitInv, TypeOK, AllAwaited, Awaited, AllDistinct, Distinct,
       Elsewhere, Working, UnsentAlone, Unsent, OwnSubmission, Submitted, Ids,
       Go, FailRing, callVars, closeVars, hostVars, ringVars, workerVars
<1>38. QED
    BY StepCases, <1>1, <1>2, <1>3, <1>4, <1>5, <1>6, <1>7, <1>8, <1>9, <1>10,
       <1>11, <1>12, <1>13, <1>14, <1>15, <1>16, <1>17, <1>18, <1>19, <1>20,
       <1>21, <1>22, <1>23, <1>24, <1>25, <1>26, <1>27, <1>28, <1>29, <1>30,
       <1>31, <1>32, <1>33, <1>34, <1>35, <1>36, <1>37, Zenon

(* A submission is pushed once, so it is under way at most once.           *)
LEMMA DistinctPreserved ==
    ASSUME TypeOK, OwnSubmission, TransitInv, [Next]_vars
    PROVE  AllDistinct'
<1> USE DispatchAssumption DEF TransitInv, TypeOK, AllAwaited, Awaited,
       AllDistinct, Distinct, Elsewhere, Working, UnsentAlone, Unsent,
       OwnSubmission, Submitted, Ids, Go, FailRing, callVars, closeVars,
       hostVars, ringVars, workerVars
<1>1. ASSUME NEW c \in Callers, BeginCall(c) PROVE AllDistinct'
    BY <1>1 DEF BeginCall
<1>2. ASSUME NEW c \in Callers, Register(c) PROVE AllDistinct'
    BY <1>2 DEF Register
<1>3. ASSUME NEW c \in Callers, RegisterRefused(c) PROVE AllDistinct'
    BY <1>3 DEF RegisterRefused
<1>4. ASSUME NEW c \in Callers, LockProducer(c) PROVE AllDistinct'
    BY <1>4 DEF LockProducer
<1>5. ASSUME NEW c \in Callers, Push(c) PROVE AllDistinct'
    <2> PICK m : m = Record(submission[c], kind[c])
        OBVIOUS
    <2>1. m \in Messages /\ m.submission = submission[c] /\ m.kind = kind[c]
        BY PushedRecord
    <2>2. /\ commands' = Append(commands, m)
          /\ stage[c] \in {"push", "blocked"}
          /\ stage' = [stage EXCEPT ![c] = "wait"]
          /\ UNCHANGED <<kind, submission, next, pending, expected, ringError,
                         completions, worker, job>>
        BY <1>5 DEF Push
    <2>3. \A k \in 1..Len(commands') :
             \/ k \in 1..Len(commands) /\ commands'[k] = commands[k]
             \/ k = Len(commands) + 1 /\ commands'[k] = m
        BY <2>1, <2>2, PushEntries
    <2>4. QED
        BY <2>1, <2>2, <2>3
<1>6. ASSUME NEW c \in Callers, PushBlocks(c) PROVE AllDistinct'
    BY <1>6 DEF PushBlocks
<1>7. ASSUME NEW c \in Callers, PushFails(c) PROVE AllDistinct'
    BY <1>7 DEF PushFails
<1>8. ASSUME NEW c \in Callers, DropPending(c) PROVE AllDistinct'
    BY <1>8 DEF DropPending
<1>9. ASSUME NEW c \in Callers, Completed(c) PROVE AllDistinct'
    BY <1>9 DEF Completed
<1>10. ASSUME NEW c \in Callers, WaitExpires(c) PROVE AllDistinct'
    BY <1>10 DEF WaitExpires
<1>11. ASSUME NEW c \in Callers, CallerFailsRing(c) PROVE AllDistinct'
    BY <1>11 DEF CallerFailsRing
<1>12. ASSUME NEW c \in Callers, UseAnswer(c) PROVE AllDistinct'
    <2>1. PICK s \in {"invalidate", "leave", "register"} :
                stage' = [stage EXCEPT ![c] = s]
        BY <1>12, AnswerLeads
    <2>2. /\ stage[c] = "answered"
          /\ UNCHANGED <<next, pending, expected, ringError,
                         submission, commands, completions,
                         worker, job>>
        BY <1>12, AnswerLeads
    <2>3. QED
        BY <2>1, <2>2
<1>13. ASSUME NEW c \in Callers, Invalidate(c) PROVE AllDistinct'
    BY <1>13 DEF Invalidate
<1>14. ASSUME NEW c \in Callers, EndCall(c) PROVE AllDistinct'
    BY <1>14 DEF EndCall
<1>15. ASSUME NEW c \in Callers, Close(c) PROVE AllDistinct'
    BY <1>15 DEF Close
<1>16. ASSUME NEW c \in Callers, CloseEnter(c) PROVE AllDistinct'
    BY <1>16 DEF CloseEnter
<1>17. ASSUME NEW c \in Callers, CloseAwaited(c) PROVE AllDistinct'
    BY <1>17 DEF CloseAwaited
<1>18. ASSUME NEW c \in Callers, CloseAsks(c) PROVE AllDistinct'
    BY <1>18 DEF CloseAsks
<1>19. ASSUME NEW c \in Callers, CloseJoined(c) PROVE AllDistinct'
    BY <1>19 DEF CloseJoined
<1>20. ASSUME NEW c \in Callers, DeadlinePasses(c) PROVE AllDistinct'
    BY <1>20 DEF DeadlinePasses
<1>21. ASSUME NEW i \in Ids, Notify(i) PROVE AllDistinct'
    BY <1>21 DEF Notify
<1>22. CASE SendShutdown
    BY <1>22 DEF SendShutdown
<1>23. CASE ShutRings
    BY <1>23 DEF ShutRings
<1>24. CASE JoinReader
    BY <1>24 DEF JoinReader
<1>25. CASE Reap
    BY <1>25 DEF Reap
<1>26. CASE ReaderMatches
    BY <1>26 DEF ReaderMatches
<1>27. CASE ReaderRefuses
    BY <1>27 DEF ReaderRefuses
<1>28. CASE ReaderDelivers
    BY <1>28 DEF ReaderDelivers
<1>29. CASE ReaderClosed
    BY <1>29 DEF ReaderClosed
<1>30. CASE WorkerPops
    BY <1>30 DEF WorkerPops
<1>31. CASE WorkerExecutes
    <2>1. /\ job'.submission = job.submission
          /\ job'.kind = job.kind
        BY <1>31, AnswerFields DEF WorkerExecutes
    <2>2. QED
        BY <1>31, <2>1 DEF WorkerExecutes
<1>32. CASE WorkerPushes
    BY <1>32 DEF WorkerPushes
<1>33. CASE WorkerStops
    BY <1>33 DEF WorkerStops
<1>34. CASE WorkerTold
    BY <1>34 DEF WorkerTold
<1>35. CASE WorkerExits
    BY <1>35 DEF WorkerExits
<1>36. CASE WorkerDies
    BY <1>36 DEF WorkerDies
<1>37. CASE UNCHANGED vars
    BY <1>37 DEF vars, sessionVars
<1> HIDE DEF TransitInv, TypeOK, AllAwaited, Awaited, AllDistinct, Distinct,
       Elsewhere, Working, UnsentAlone, Unsent, OwnSubmission, Submitted, Ids,
       Go, FailRing, callVars, closeVars, hostVars, ringVars, workerVars
<1>38. QED
    BY StepCases, <1>1, <1>2, <1>3, <1>4, <1>5, <1>6, <1>7, <1>8, <1>9, <1>10,
       <1>11, <1>12, <1>13, <1>14, <1>15, <1>16, <1>17, <1>18, <1>19, <1>20,
       <1>21, <1>22, <1>23, <1>24, <1>25, <1>26, <1>27, <1>28, <1>29, <1>30,
       <1>31, <1>32, <1>33, <1>34, <1>35, <1>36, <1>37, Zenon

(* What is registered and not pushed is nowhere else.                      *)
LEMMA UnsentPreserved ==
    ASSUME TypeOK, OwnSubmission, TransitInv, [Next]_vars
    PROVE  UnsentAlone'
<1> USE DispatchAssumption DEF TransitInv, TypeOK, AllAwaited, Awaited,
       AllDistinct, Distinct, Elsewhere, Working, UnsentAlone, Unsent,
       OwnSubmission, Submitted, Ids, Go, FailRing, callVars, closeVars,
       hostVars, ringVars, workerVars
<1>1. ASSUME NEW c \in Callers, BeginCall(c) PROVE UnsentAlone'
    BY <1>1 DEF BeginCall
<1>2. ASSUME NEW c \in Callers, Register(c) PROVE UnsentAlone'
    BY <1>2 DEF Register
<1>3. ASSUME NEW c \in Callers, RegisterRefused(c) PROVE UnsentAlone'
    BY <1>3 DEF RegisterRefused
<1>4. ASSUME NEW c \in Callers, LockProducer(c) PROVE UnsentAlone'
    BY <1>4 DEF LockProducer
<1>5. ASSUME NEW c \in Callers, Push(c) PROVE UnsentAlone'
    <2> PICK m : m = Record(submission[c], kind[c])
        OBVIOUS
    <2>1. m \in Messages /\ m.submission = submission[c] /\ m.kind = kind[c]
        BY PushedRecord
    <2>2. /\ commands' = Append(commands, m)
          /\ stage[c] \in {"push", "blocked"}
          /\ stage' = [stage EXCEPT ![c] = "wait"]
          /\ UNCHANGED <<kind, submission, next, pending, expected, ringError,
                         completions, worker, job>>
        BY <1>5 DEF Push
    <2>3. \A k \in 1..Len(commands') :
             \/ k \in 1..Len(commands) /\ commands'[k] = commands[k]
             \/ k = Len(commands) + 1 /\ commands'[k] = m
        BY <2>1, <2>2, PushEntries
    <2>4. QED
        BY <2>1, <2>2, <2>3
<1>6. ASSUME NEW c \in Callers, PushBlocks(c) PROVE UnsentAlone'
    BY <1>6 DEF PushBlocks
<1>7. ASSUME NEW c \in Callers, PushFails(c) PROVE UnsentAlone'
    BY <1>7 DEF PushFails
<1>8. ASSUME NEW c \in Callers, DropPending(c) PROVE UnsentAlone'
    BY <1>8 DEF DropPending
<1>9. ASSUME NEW c \in Callers, Completed(c) PROVE UnsentAlone'
    BY <1>9 DEF Completed
<1>10. ASSUME NEW c \in Callers, WaitExpires(c) PROVE UnsentAlone'
    BY <1>10 DEF WaitExpires
<1>11. ASSUME NEW c \in Callers, CallerFailsRing(c) PROVE UnsentAlone'
    BY <1>11 DEF CallerFailsRing
<1>12. ASSUME NEW c \in Callers, UseAnswer(c) PROVE UnsentAlone'
    <2>1. PICK s \in {"invalidate", "leave", "register"} :
                stage' = [stage EXCEPT ![c] = s]
        BY <1>12, AnswerLeads
    <2>2. /\ stage[c] = "answered"
          /\ UNCHANGED <<next, pending, expected, ringError,
                         submission, commands, completions,
                         worker, job>>
        BY <1>12, AnswerLeads
    <2>3. \A d \in Callers \ {c} : kind'[d] = kind[d]
        BY <1>12 DEF UseAnswer
    <2>4. QED
        BY <2>1, <2>2, <2>3
<1>13. ASSUME NEW c \in Callers, Invalidate(c) PROVE UnsentAlone'
    BY <1>13 DEF Invalidate
<1>14. ASSUME NEW c \in Callers, EndCall(c) PROVE UnsentAlone'
    BY <1>14 DEF EndCall
<1>15. ASSUME NEW c \in Callers, Close(c) PROVE UnsentAlone'
    BY <1>15 DEF Close
<1>16. ASSUME NEW c \in Callers, CloseEnter(c) PROVE UnsentAlone'
    BY <1>16 DEF CloseEnter
<1>17. ASSUME NEW c \in Callers, CloseAwaited(c) PROVE UnsentAlone'
    BY <1>17 DEF CloseAwaited
<1>18. ASSUME NEW c \in Callers, CloseAsks(c) PROVE UnsentAlone'
    BY <1>18 DEF CloseAsks
<1>19. ASSUME NEW c \in Callers, CloseJoined(c) PROVE UnsentAlone'
    BY <1>19 DEF CloseJoined
<1>20. ASSUME NEW c \in Callers, DeadlinePasses(c) PROVE UnsentAlone'
    BY <1>20 DEF DeadlinePasses
<1>21. ASSUME NEW i \in Ids, Notify(i) PROVE UnsentAlone'
    BY <1>21 DEF Notify
<1>22. CASE SendShutdown
    BY <1>22 DEF SendShutdown
<1>23. CASE ShutRings
    BY <1>23 DEF ShutRings
<1>24. CASE JoinReader
    BY <1>24 DEF JoinReader
<1>25. CASE Reap
    BY <1>25 DEF Reap
<1>26. CASE ReaderMatches
    BY <1>26 DEF ReaderMatches
<1>27. CASE ReaderRefuses
    BY <1>27 DEF ReaderRefuses
<1>28. CASE ReaderDelivers
    BY <1>28 DEF ReaderDelivers
<1>29. CASE ReaderClosed
    BY <1>29 DEF ReaderClosed
<1>30. CASE WorkerPops
    BY <1>30 DEF WorkerPops
<1>31. CASE WorkerExecutes
    <2>1. /\ job'.submission = job.submission
          /\ job'.kind = job.kind
        BY <1>31, AnswerFields DEF WorkerExecutes
    <2>2. QED
        BY <1>31, <2>1 DEF WorkerExecutes
<1>32. CASE WorkerPushes
    BY <1>32 DEF WorkerPushes
<1>33. CASE WorkerStops
    BY <1>33 DEF WorkerStops
<1>34. CASE WorkerTold
    BY <1>34 DEF WorkerTold
<1>35. CASE WorkerExits
    BY <1>35 DEF WorkerExits
<1>36. CASE WorkerDies
    BY <1>36 DEF WorkerDies
<1>37. CASE UNCHANGED vars
    BY <1>37 DEF vars, sessionVars
<1> HIDE DEF TransitInv, TypeOK, AllAwaited, Awaited, AllDistinct, Distinct,
       Elsewhere, Working, UnsentAlone, Unsent, OwnSubmission, Submitted, Ids,
       Go, FailRing, callVars, closeVars, hostVars, ringVars, workerVars
<1>38. QED
    BY StepCases, <1>1, <1>2, <1>3, <1>4, <1>5, <1>6, <1>7, <1>8, <1>9, <1>10,
       <1>11, <1>12, <1>13, <1>14, <1>15, <1>16, <1>17, <1>18, <1>19, <1>20,
       <1>21, <1>22, <1>23, <1>24, <1>25, <1>26, <1>27, <1>28, <1>29, <1>30,
       <1>31, <1>32, <1>33, <1>34, <1>35, <1>36, <1>37, Zenon


(* A completion of a healthy dispatcher is matched.                        *)
LEMMA AlarmPreserved ==
    ASSUME TypeOK, AllAwaited, NoFalseAlarm, [Next]_vars
    PROVE  NoFalseAlarm'
<1>1. CASE ReaderRefuses
    <2>1. completions # <<>> /\ ringError # "none"
        <3> SUFFICES ASSUME ringError = "none" PROVE FALSE
            BY <1>1 DEF ReaderRefuses
        <3>1. /\ completions # <<>>
              /\ \/ Head(completions).submission \notin pending
                 \/ Head(completions).kind
                       # expected[Head(completions).submission]
            BY <1>1 DEF ReaderRefuses
        <3>2. Head(completions) = completions[1] /\ 1 \in 1..Len(completions)
            BY <3>1 DEF TypeOK
        <3>3. Awaited(Head(completions))
            BY <3>2 DEF AllAwaited
        <3>4. QED
            BY <3>1, <3>3 DEF Awaited
    <2>2. QED
        BY <1>1, <2>1 DEF ReaderRefuses, FailRing, NoFalseAlarm
<1>2. CASE ringError' \in {ringError, "transport"}
    BY <1>2 DEF NoFalseAlarm
<1>3. ReaderRefuses \/ ringError' \in {ringError, "transport"}
    BY DEF Next, Step, CallStep, CloseStep, ThreadStep, ReaderStep,
           WorkerStep, BeginCall, Register, RegisterRefused, LockProducer,
           Push, PushBlocks, PushFails, DropPending, Completed,
           WaitExpires, CallerFailsRing, UseAnswer, Invalidate, EndCall,
           Close, CloseEnter, CloseAwaited, CloseAsks, CloseJoined,
           DeadlinePasses, Notify, SendShutdown, ShutRings, JoinReader,
           Reap, ReaderMatches, ReaderDelivers, ReaderClosed, WorkerPops,
           WorkerExecutes, WorkerPushes, WorkerStops, WorkerTold,
           WorkerExits, WorkerDies, FailRing, hostVars, vars, sessionVars
<1>4. QED
    BY <1>1, <1>2, <1>3

LEMMA InvInitially == ASSUME Init PROVE DispatchInv
<1> USE DispatchAssumption DEF Init
<1>1. TypeOK
    <2>1. flags \in Flags
        BY Zenon DEF Flags
    <2>2. hand \in Messages /\ job \in Messages
        BY MessagesTyped
    <2>3. commands \in Seq(Messages) /\ completions \in Seq(Messages)
        OBVIOUS
    <2>4. /\ done \in [Ids -> {"no", "error", "gone"} \cup Statuses]
          /\ expected \in [Ids -> Kinds]
        BY DEF Kinds
    <2>5. begun \in 0..MaxCalls /\ next \in 1..(2 * MaxCalls + 1)
        OBVIOUS
    <2>6. Len(commands) <= Capacity /\ Len(completions) <= Capacity
        OBVIOUS
    <2>7. QED
        BY <2>1, <2>2, <2>3, <2>4, <2>5, <2>6 DEF TypeOK, Kinds, Stages
<1>2. CallsCounted /\ CallsDrainFirst
    BY DEF CallsCounted, CallsDrainFirst, InCall, Stages
<1>3. OwnSubmission /\ OneHand /\ FailedDispatcherEmpty /\ NobodyForgotten
    BY DEF OwnSubmission, OneHand, FailedDispatcherEmpty, NobodyForgotten,
           Unanswered, InHand, Submitted, Ids
<1>4. OneCloser /\ EndsJoined
    BY DEF OneCloser, EndsJoined
<1>5. AllAwaited /\ AllDistinct /\ UnsentAlone /\ NoFalseAlarm
    BY DEF AllAwaited, AllDistinct, Distinct, UnsentAlone, Unsent, Working,
           NoFalseAlarm
<1>6. QED
    BY <1>1, <1>2, <1>3, <1>4, <1>5 DEF DispatchInv

(* The invariant of the dispatcher of native_session.cpp and of the call   *)
(* accounting of WorkerSession.                                            *)
THEOREM DispatchInvariance == Spec => []DispatchInv
<1>1. Init => DispatchInv
    BY InvInitially
<1>2. DispatchInv /\ [Next]_vars => DispatchInv'
    <2> SUFFICES ASSUME DispatchInv, [Next]_vars PROVE DispatchInv'
        OBVIOUS
    <2>1. TypeOK'
        BY TypePreserved DEF DispatchInv
    <2>2. (CallsCounted /\ CallsDrainFirst)'
        BY CallsPreserved DEF DispatchInv
    <2>3. HandsInv'
        BY <2>1, HandsPreserved DEF DispatchInv, HandsInv
    <2>4. CloserInv'
        BY CloserPreserved DEF DispatchInv, CloserInv
    <2>5. TransitInv'
        BY AwaitedPreserved, DistinctPreserved, UnsentPreserved
        DEF DispatchInv, TransitInv
    <2>6. NoFalseAlarm'
        BY AlarmPreserved DEF DispatchInv
    <2>7. QED
        BY <2>1, <2>2, <2>3, <2>4, <2>5, <2>6
        DEF DispatchInv, HandsInv, CloserInv, TransitInv
<1>3. QED
    BY <1>1, <1>2, PTL DEF Spec

(* Type correctness of the session.                                        *)
THEOREM DispatchTypes == Spec => []TypeOK
<1>1. DispatchInv => TypeOK
    BY DEF DispatchInv
<1>2. QED
    BY <1>1, DispatchInvariance, PTL

(* fail_ring leaves no submission behind and submit_ring adds none to a    *)
(* failed dispatcher.                                                      *)
THEOREM FailedIsEmpty == Spec => []FailedDispatcherEmpty
<1>1. DispatchInv => FailedDispatcherEmpty
    BY DEF DispatchInv
<1>2. QED
    BY <1>1, DispatchInvariance, PTL

(* No caller of submit_ring is lost between the map, a fail_ring and the   *)
(* completion thread.                                                      *)
THEOREM NoCallerForgotten == Spec => []NobodyForgotten
<1>1. DispatchInv => NobodyForgotten
    BY DEF DispatchInv
<1>2. QED
    BY <1>1, DispatchInvariance, PTL

(* WorkerSession.close() shuts the session down between calls only.        *)
THEOREM ShutdownBetweenCalls == Spec => []CallsDrainFirst
<1>1. DispatchInv => CallsDrainFirst
    BY DEF DispatchInv
<1>2. QED
    BY <1>1, DispatchInvariance, PTL

(* A close() of WorkerSession that does not raise has joined the           *)
(* completion thread and reaped the worker, however many closers raced.    *)
THEOREM CleanCloseLeavesNothing == Spec => []CleanCloseStopped
<1>1. DispatchInv => CleanCloseStopped
    BY DEF DispatchInv, EndsJoined, CleanCloseStopped
<1>2. QED
    BY <1>1, DispatchInvariance, PTL

(* completion_loop never takes an answer of a faithful worker for a        *)
(* corrupt one: a healthy dispatcher knows every submission under way.     *)
THEOREM AnswersAreRecognised == Spec => []NoFalseAlarm
<1>1. DispatchInv => NoFalseAlarm
    BY DEF DispatchInv
<1>2. QED
    BY <1>1, DispatchInvariance, PTL

(* The outcome of a submission is written once, by the completion thread   *)
(* or by a fail_ring, never by both.                                       *)
THEOREM OutcomesFinal == Spec => OutcomeFinal
<1> DEFINE Kept == \A i \in Ids :
                      done[i] # "no" => done'[i] \in {done[i], "gone"}
<1>1. ASSUME DispatchInv, Next PROVE Kept
    <2>1. ASSUME NEW c \in Callers, UseAnswer(c) PROVE Kept
        BY <1>1, <2>1 DEF UseAnswer, DispatchInv, TypeOK
    <2>2. ASSUME NEW i \in Ids, Notify(i) PROVE Kept
        BY <1>1, <2>2 DEF Notify, DispatchInv, TypeOK, OneHand
    <2>3. CASE ReaderDelivers
        BY <1>1, <2>3 DEF ReaderDelivers, DispatchInv, TypeOK, OneHand, InHand
    <2>4. CASE UNCHANGED done
        BY <2>4
    <2>5. \/ \E c \in Callers : UseAnswer(c)
          \/ \E i \in Ids : Notify(i)
          \/ ReaderDelivers
          \/ UNCHANGED done
        BY <1>1 DEF Next, Step, CallStep, CloseStep, ThreadStep, ReaderStep,
              WorkerStep, BeginCall, Register, RegisterRefused, LockProducer,
              Push, PushBlocks, PushFails, DropPending, Completed,
              WaitExpires, CallerFailsRing, Invalidate, EndCall, Close,
              CloseEnter, CloseAwaited, CloseAsks, CloseJoined,
              DeadlinePasses, SendShutdown, ShutRings, JoinReader, Reap,
              ReaderMatches, ReaderRefuses, ReaderClosed, WorkerPops,
              WorkerExecutes, WorkerPushes, WorkerStops, WorkerTold,
              WorkerExits, WorkerDies, hostVars
    <2>6. QED
        BY <2>1, <2>2, <2>3, <2>4, <2>5
<1>2. DispatchInv /\ [Next]_vars => [Kept]_vars
    BY <1>1
<1>3. Spec => [][Kept]_vars
    BY <1>2, DispatchInvariance, PTL DEF Spec
<1>4. QED
    BY <1>3 DEF OutcomeFinal
=============================================================================
