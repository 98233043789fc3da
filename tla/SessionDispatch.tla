-------------------------- MODULE SessionDispatch --------------------------
(***************************************************************************)
(* One worker session seen from the threads that call it: the call         *)
(* accounting and the close of wmfs.transport.worker_process.WorkerSession *)
(* around the ring dispatcher of the native Session (submit_ring, the      *)
(* completion thread, fail_ring, close), against a worker that may be      *)
(* slow, break its control sockets or die.                                 *)
(*                                                                         *)
(* The two rings are bounded FIFOs, as SpscRing shows them to be: a closed *)
(* ring may keep records that nobody pops, and a blocked push may run into *)
(* its deadline although there is space (run RingNativeSpace).  What a     *)
(* call maps and leases is in BufferSessions.                              *)
(* A call with planned outputs submits twice, PLAN_OUTPUTS then INVOKE.    *)
(***************************************************************************)
EXTENDS Integers, Sequences, FiniteSets

CONSTANTS
    Callers,        \* threads that call the session
    NoCaller,
    Capacity,       \* record slots of each ring
    MaxCalls,       \* bound on the calls a behaviour makes
    FirstKinds,     \* what a call submits first: "plan", "invoke" or both
    PythonWorker,   \* which worker: it also closes the completion ring
    FaultModes      \* the values of faults to consider

ASSUME DispatchAssumption ==
    /\ NoCaller \notin Callers
    /\ Capacity \in Nat \ {0}
    /\ MaxCalls \in Nat
    /\ FirstKinds \subseteq {"plan", "invoke"}
    /\ PythonWorker \in BOOLEAN
    /\ FaultModes \subseteq BOOLEAN

VARIABLES
    stage,       \* where each caller is
    kind,        \* the command kind it submits next
    raised,      \* it is leaving the call with an exception
    late,        \* the deadline of its submission has passed
    submission,  \* the submission ID it waits for
    active,      \* the callers counted by _active_calls
    begun,       \* calls begun so far (bounds the model)
    flags,       \* _close_started, _closed, _invalidated, and a failed stop
    thread,      \* how far the session thread is in closing
    next,        \* next_submission
    pending,     \* keys of the map of pending submissions
    condemned,   \* taken out of pending by fail_ring, not yet notified
    done,        \* PendingSubmission::completed and its outcome
    expected,    \* PendingSubmission::expected_kind
    ringError,   \* ring_error, by cause
    producer,    \* who holds producer_mutex
    reader,      \* the completion thread
    hand,        \* the completion it has matched and not yet delivered
    commands, commandsClosed,
    completions, completionsClosed,
    worker,      \* the ring thread of the worker
    job,         \* the command it runs
    told,        \* the worker has received SHUTDOWN or lost its sockets
    faults       \* deadlines may expire and the worker may break or die

callVars   == <<stage, kind, raised, late, submission, active, begun>>
closeVars  == <<flags, thread>>
hostVars   == <<next, pending, condemned, done, expected, ringError,
                producer, reader, hand>>
ringVars   == <<commands, commandsClosed, completions, completionsClosed>>
workerVars == <<worker, job, told>>
sessionVars == <<callVars, closeVars, hostVars, ringVars, workerVars>>
vars == <<sessionVars, faults>>

-----------------------------------------------------------------------------
(* Two submissions per call: Register never runs out of them.              *)
Ids   == 1..(2 * MaxCalls)
Kinds == {"plan", "invoke"}

Stages == {"idle", "register", "produce", "push", "blocked", "drop", "fail",
           "wait", "answered", "invalidate", "leave",
           "close", "drain", "join", "await"}

(* Completion statuses: OK, OPERATION_ERROR and INTERNAL_ERROR.            *)
Statuses == {"ok", "operation", "internal"}

Record(i, k) == [submission |-> i, kind |-> k, status |-> "ok"]

Nothing == Record(0, "invoke")

Answer(m, s) == [m EXCEPT !.status = s]

Go(c, s) == stage' = [stage EXCEPT ![c] = s]

(* The worker process still runs.                                          *)
WorkerUp == worker # "dead"

Init ==
    /\ stage = [c \in Callers |-> "idle"]
    /\ kind = [c \in Callers |-> "invoke"]
    /\ raised = [c \in Callers |-> FALSE]
    /\ late = [c \in Callers |-> FALSE]
    /\ submission = [c \in Callers |-> 0]
    /\ active = {}
    /\ begun = 0
    /\ flags = [started |-> FALSE, closed |-> FALSE,
                invalid |-> FALSE, unstopped |-> FALSE]
    /\ thread = "serving"
    /\ next = 1
    /\ pending = {}
    /\ condemned = {}
    /\ done = [i \in Ids |-> "no"]
    /\ expected = [i \in Ids |-> "invoke"]
    /\ ringError = "none"
    /\ producer = NoCaller
    /\ reader = "reading"
    /\ hand = Nothing
    /\ commands = <<>> /\ commandsClosed = FALSE
    /\ completions = <<>> /\ completionsClosed = FALSE
    /\ worker = "idle"
    /\ job = Nothing
    /\ told = FALSE
    /\ faults \in FaultModes

-----------------------------------------------------------------------------
(* Fault: the map is cleared and nobody is told.                           *)
FailRing_Forgets(cause) ==
    /\ ringError' = IF ringError = "none" THEN cause ELSE ringError
    /\ pending' = {}
    /\ UNCHANGED condemned

(* fail_ring up to the release of pending_mutex: the first error is kept   *)
(* and every pending submission is condemned.                              *)
FailRing(cause) ==
    /\ ringError' = IF ringError = "none" THEN cause ELSE ringError
    /\ condemned' = condemned \cup pending
    /\ pending' = {}

(* ... and the notification of one of the submissions it collected.        *)
Notify(i) ==
    /\ i \in condemned
    /\ condemned' = condemned \ {i}
    /\ done' = [done EXCEPT ![i] = "error"]
    /\ UNCHANGED <<callVars, closeVars, ringVars, workerVars, next, pending,
                   expected, ringError, producer, reader, hand>>

(* _begin_call; a call with dynamic outputs plans them first.              *)
BeginCall(c) ==
    /\ stage[c] = "idle"
    /\ ~flags.closed /\ ~flags.started /\ ~flags.invalid
    /\ begun < MaxCalls
    /\ begun' = begun + 1
    /\ active' = active \cup {c}
    /\ \E k \in FirstKinds : kind' = [kind EXCEPT ![c] = k]
    /\ Go(c, "register")
    /\ UNCHANGED <<raised, late, submission, closeVars, hostVars, ringVars,
                   workerVars>>

(* Fault: the next call reuses the ID.                                     *)
Register_SameId(c) ==
    /\ stage[c] = "register"
    /\ ringError = "none"
    /\ next \in Ids
    /\ submission' = [submission EXCEPT ![c] = next]
    /\ expected' = [expected EXCEPT ![next] = kind[c]]
    /\ pending' = pending \cup {next}
    /\ Go(c, "produce")
    /\ UNCHANGED <<kind, raised, late, active, begun, closeVars, next,
                   condemned, done, ringError, producer, reader, hand,
                   ringVars, workerVars>>

(* submit_ring under pending_mutex, when the dispatcher is healthy ...     *)
Register(c) ==
    /\ stage[c] = "register"
    /\ ringError = "none"
    /\ next \in Ids
    /\ submission' = [submission EXCEPT ![c] = next]
    /\ expected' = [expected EXCEPT ![next] = kind[c]]
    /\ pending' = pending \cup {next}
    /\ next' = next + 1
    /\ Go(c, "produce")
    /\ UNCHANGED <<kind, raised, late, active, begun, closeVars, condemned,
                   done, ringError, producer, reader, hand, ringVars,
                   workerVars>>

(* ... and when ring_error is rethrown.                                    *)
RegisterRefused(c) ==
    /\ stage[c] = "register"
    /\ ringError # "none"
    /\ Go(c, "invalidate")
    /\ UNCHANGED <<kind, raised, late, submission, active, begun, closeVars,
                   hostVars, ringVars, workerVars>>

LockProducer(c) ==
    /\ stage[c] = "produce"
    /\ producer = NoCaller
    /\ producer' = c
    /\ Go(c, "push")
    /\ UNCHANGED <<kind, raised, late, submission, active, begun, closeVars,
                   next, pending, condemned, done, expected, ringError,
                   reader, hand, ringVars, workerVars>>

(* Fault: producer_mutex stays locked.                                     *)
Push_KeepsLock(c) ==
    /\ stage[c] \in {"push", "blocked"}
    /\ ~commandsClosed
    /\ Len(commands) < Capacity
    /\ commands' = Append(commands, Record(submission[c], kind[c]))
    /\ Go(c, "wait")
    /\ UNCHANGED <<kind, raised, late, submission, active, begun, closeVars,
                   hostVars, commandsClosed, completions, completionsClosed,
                   workerVars>>

(* try_push, then push with the deadline: a record is published ...        *)
Push(c) ==
    /\ stage[c] \in {"push", "blocked"}
    /\ ~commandsClosed
    /\ Len(commands) < Capacity
    /\ commands' = Append(commands, Record(submission[c], kind[c]))
    /\ producer' = NoCaller
    /\ Go(c, "wait")
    /\ UNCHANGED <<kind, raised, late, submission, active, begun, closeVars,
                   next, pending, condemned, done, expected, ringError,
                   reader, hand, commandsClosed, completions,
                   completionsClosed, workerVars>>

(* ... or the ring is full and the caller sleeps, keeping producer_mutex,  *)
PushBlocks(c) ==
    /\ stage[c] = "push"
    /\ ~commandsClosed
    /\ Len(commands) = Capacity
    /\ Go(c, "blocked")
    /\ UNCHANGED <<kind, raised, late, submission, active, begun, closeVars,
                   hostVars, ringVars, workerVars>>

(* ... or it is closed or the deadline passes, which throws.               *)
PushFails(c) ==
    /\ \/ stage[c] \in {"push", "blocked"} /\ commandsClosed
       \/ stage[c] = "blocked" /\ late[c]
    /\ producer' = NoCaller
    /\ Go(c, "drop")
    /\ UNCHANGED <<kind, raised, late, submission, active, begun, closeVars,
                   next, pending, condemned, done, expected, ringError,
                   reader, hand, ringVars, workerVars>>

(* The handler erases its own submission first.                            *)
DropPending(c) ==
    /\ stage[c] = "drop"
    /\ pending' = pending \ {submission[c]}
    /\ Go(c, "fail")
    /\ UNCHANGED <<kind, raised, late, submission, active, begun, closeVars,
                   next, condemned, done, expected, ringError, producer,
                   reader, hand, ringVars, workerVars>>

(* The wait for the completion: an answer, an error, or the deadline.      *)
Completed(c) ==
    /\ stage[c] = "wait"
    /\ done[submission[c]] # "no"
    /\ Go(c, IF done[submission[c]] = "error" THEN "invalidate"
             ELSE "answered")
    /\ late' = [late EXCEPT ![c] = FALSE]
    /\ UNCHANGED <<kind, raised, submission, active, begun, closeVars,
                   hostVars, ringVars, workerVars>>

WaitExpires(c) ==
    /\ stage[c] = "wait"
    /\ late[c]
    /\ done[submission[c]] = "no"
    /\ Go(c, "fail")
    /\ UNCHANGED <<kind, raised, late, submission, active, begun, closeVars,
                   hostVars, ringVars, workerVars>>

CallerFailsRing(c) ==
    /\ stage[c] = "fail"
    /\ FailRing("transport")
    /\ Go(c, "invalidate")
    /\ late' = [late EXCEPT ![c] = FALSE]
    /\ UNCHANGED <<kind, raised, submission, active, begun, closeVars,
                   next, done, expected, producer, reader, hand, ringVars,
                   workerVars>>

(* What _invoke_direct does with an answer: a plan is followed by the      *)
(* invocation; an operation error is raised and keeps the session; an      *)
(* internal error invalidates it.  The submission itself is gone.          *)
UseAnswer(c) ==
    /\ stage[c] = "answered"
    /\ LET status == done[submission[c]] IN
       \/ /\ status = "internal"
          /\ Go(c, "invalidate")
          /\ UNCHANGED <<kind, raised>>
       \/ /\ status = "operation"
          /\ Go(c, "leave")
          /\ raised' = [raised EXCEPT ![c] = TRUE]
          /\ UNCHANGED kind
       \/ /\ status = "ok"
          /\ kind[c] = "plan"
          /\ Go(c, "register")
          /\ kind' = [kind EXCEPT ![c] = "invoke"]
          /\ UNCHANGED raised
       \/ /\ status = "ok"
          /\ kind[c] = "invoke"
          /\ Go(c, "leave")
          /\ UNCHANGED <<kind, raised>>
    /\ done' = [done EXCEPT ![submission[c]] = "gone"]
    /\ UNCHANGED <<late, submission, active, begun, closeVars, next, pending,
                   condemned, expected, ringError, producer, reader, hand,
                   ringVars, workerVars>>

Invalidate(c) ==
    /\ stage[c] = "invalidate"
    /\ flags' = [flags EXCEPT !.invalid = TRUE]
    /\ raised' = [raised EXCEPT ![c] = TRUE]
    /\ Go(c, "leave")
    /\ UNCHANGED <<kind, late, submission, active, begun, thread, hostVars,
                   ringVars, workerVars>>

(* Fault: a call that raises stays counted.                                *)
EndCall_LeaksOnError(c) ==
    /\ stage[c] = "leave"
    /\ active' = IF raised[c] THEN active ELSE active \ {c}
    /\ Go(c, IF raised[c] /\ flags.invalid THEN "close" ELSE "idle")
    /\ raised' = [raised EXCEPT ![c] = FALSE]
    /\ kind' = [kind EXCEPT ![c] = "invoke"]
    /\ submission' = [submission EXCEPT ![c] = 0]
    /\ UNCHANGED <<late, begun, closeVars, hostVars, ringVars, workerVars>>

(* The except clause and _end_call: a call that raises on an invalidated   *)
(* session goes on to close it.                                            *)
EndCall(c) ==
    /\ stage[c] = "leave"
    /\ active' = active \ {c}
    /\ Go(c, IF raised[c] /\ flags.invalid THEN "close" ELSE "idle")
    /\ raised' = [raised EXCEPT ![c] = FALSE]
    /\ kind' = [kind EXCEPT ![c] = "invoke"]
    /\ submission' = [submission EXCEPT ![c] = 0]
    /\ UNCHANGED <<late, begun, closeVars, hostVars, ringVars, workerVars>>

-----------------------------------------------------------------------------
(* WorkerSession.close, by a caller or by the backend.                     *)
Close(c) ==
    /\ stage[c] = "idle"
    /\ ~flags.closed
    /\ Go(c, "close")
    /\ UNCHANGED <<kind, raised, late, submission, active, begun, closeVars,
                   hostVars, ringVars, workerVars>>

CloseEnter(c) ==
    /\ stage[c] = "close"
    /\ Go(c, IF flags.closed THEN "idle"
             ELSE IF flags.started THEN "await" ELSE "drain")
    /\ flags' = [flags EXCEPT !.started = @ \/ ~flags.closed]
    /\ UNCHANGED <<kind, raised, late, submission, active, begun, thread,
                   hostVars, ringVars, workerVars>>

CloseAwaited(c) ==
    /\ stage[c] = "await"
    /\ flags.closed
    /\ Go(c, "idle")
    /\ UNCHANGED <<kind, raised, late, submission, active, begun, closeVars,
                   hostVars, ringVars, workerVars>>

(* The last call has ended: the session thread is woken and joined.        *)
CloseAsks(c) ==
    /\ stage[c] = "drain"
    /\ active = {}
    /\ thread' = "asked"
    /\ Go(c, "join")
    /\ UNCHANGED <<kind, raised, late, submission, active, begun, flags,
                   hostVars, ringVars, workerVars>>

(* Fault: a join that gave up is taken for an end.                         *)
CloseJoined_Unchecked(c) ==
    /\ stage[c] = "join"
    /\ thread = "ended" \/ faults
    /\ flags' = [flags EXCEPT !.closed = TRUE]
    /\ Go(c, "idle")
    /\ UNCHANGED <<kind, raised, late, submission, active, begun, thread,
                   hostVars, ringVars, workerVars>>

(* join returns, or gives up after the shutdown deadline; both publish     *)
(* _closed, the second with an exception.                                  *)
CloseJoined(c) ==
    /\ stage[c] = "join"
    /\ thread = "ended" \/ faults
    /\ flags' = [flags EXCEPT !.closed = TRUE,
                              !.unstopped = thread # "ended"]
    /\ Go(c, "idle")
    /\ UNCHANGED <<kind, raised, late, submission, active, begun, thread,
                   hostVars, ringVars, workerVars>>

(* The session thread: Session::close sends SHUTDOWN, awaits the answer,   *)
(* closes both rings and joins the completion thread; then the worker is   *)
(* waited for and, past the deadline, killed.                              *)
SendShutdown ==
    /\ thread = "asked"
    /\ thread' = "roundTrip"
    /\ UNCHANGED <<callVars, flags, hostVars, ringVars, workerVars>>

ShutRings ==
    /\ thread = "roundTrip"
    /\ ~WorkerUp \/ faults
    /\ thread' = "shut"
    /\ commandsClosed' = TRUE
    /\ completionsClosed' = TRUE
    /\ UNCHANGED <<callVars, flags, hostVars, commands, completions,
                   workerVars>>

JoinReader ==
    /\ thread = "shut"
    /\ reader = "ended"
    /\ thread' = "reap"
    /\ UNCHANGED <<callVars, flags, hostVars, ringVars, workerVars>>

Reap ==
    /\ thread = "reap"
    /\ ~WorkerUp \/ faults
    /\ worker' = "dead"
    /\ job' = Nothing
    /\ thread' = "ended"
    /\ UNCHANGED <<callVars, flags, hostVars, ringVars, told>>

-----------------------------------------------------------------------------
(* Fault: the matched submission stays in the map.                         *)
ReaderMatches_KeepsPending ==
    /\ reader = "reading"
    /\ completions # <<>>
    /\ LET m == Head(completions) IN
       /\ m.submission \in pending
       /\ m.kind = expected[m.submission]
       /\ hand' = m
    /\ completions' = Tail(completions)
    /\ reader' = "deliver"
    /\ UNCHANGED <<callVars, closeVars, next, pending, condemned, done,
                   expected, ringError, producer, commands, commandsClosed,
                   completionsClosed, workerVars>>

(* The completion thread: a popped completion is matched with a pending    *)
(* submission under pending_mutex, or fails the dispatcher.                *)
ReaderMatches ==
    /\ reader = "reading"
    /\ completions # <<>>
    /\ LET m == Head(completions) IN
       /\ m.submission \in pending
       /\ m.kind = expected[m.submission]
       /\ pending' = pending \ {m.submission}
       /\ hand' = m
    /\ completions' = Tail(completions)
    /\ reader' = "deliver"
    /\ UNCHANGED <<callVars, closeVars, next, condemned, done, expected,
                   ringError, producer, commands, commandsClosed,
                   completionsClosed, workerVars>>

ReaderRefuses ==
    /\ reader = "reading"
    /\ completions # <<>>
    /\ LET m == Head(completions) IN
       /\ \/ m.submission \notin pending
          \/ m.kind # expected[m.submission]
       /\ FailRing(IF m.submission \in pending THEN "mismatch"
                   ELSE "unknown")
    /\ completions' = Tail(completions)
    /\ reader' = "ended"
    /\ UNCHANGED <<callVars, closeVars, next, done, expected, producer, hand,
                   commands, commandsClosed, completionsClosed, workerVars>>

ReaderDelivers ==
    /\ reader = "deliver"
    /\ done' = [done EXCEPT ![hand.submission] = hand.status]
    /\ hand' = Nothing
    /\ reader' = "reading"
    /\ UNCHANGED <<callVars, closeVars, next, pending, condemned, expected,
                   ringError, producer, ringVars, workerVars>>

ReaderClosed ==
    /\ reader = "reading"
    /\ completionsClosed
    /\ FailRing("transport")
    /\ reader' = "ended"
    /\ UNCHANGED <<callVars, closeVars, next, done, expected, producer, hand,
                   ringVars, workerVars>>

-----------------------------------------------------------------------------
(* The ring thread of the worker: pop, execute, push the completion.       *)
WorkerPops ==
    /\ worker = "idle"
    /\ commands # <<>>
    /\ job' = Head(commands)
    /\ commands' = Tail(commands)
    /\ worker' = "run"
    /\ UNCHANGED <<callVars, closeVars, hostVars, commandsClosed,
                   completions, completionsClosed, told>>

WorkerExecutes ==
    /\ worker = "run"
    /\ \E s \in Statuses : job' = Answer(job, s)
    /\ worker' = "push"
    /\ UNCHANGED <<callVars, closeVars, hostVars, ringVars, told>>

(* The Python worker looks at the closed flag only before it waits, the    *)
(* native one before it publishes.                                         *)
WorkerPushes ==
    /\ worker = "push"
    /\ PythonWorker \/ ~completionsClosed
    /\ Len(completions) < Capacity
    /\ completions' = Append(completions, job)
    /\ job' = Nothing
    /\ worker' = "idle"
    /\ UNCHANGED <<callVars, closeVars, hostVars, commands, commandsClosed,
                   completionsClosed, told>>

(* A closed ring ends the ring thread, whatever it still had to push.      *)
WorkerStops ==
    /\ \/ worker = "idle" /\ commandsClosed
       \/ /\ worker = "push" /\ completionsClosed
          /\ PythonWorker => Len(completions) = Capacity
    /\ worker' = "stopped"
    /\ job' = Nothing
    /\ UNCHANGED <<callVars, closeVars, hostVars, ringVars, told>>

(* The lifecycle thread receives SHUTDOWN, or a broken socket ends it; it  *)
(* closes the command ring (the Python worker both) and joins the ring     *)
(* thread before the process exits.                                        *)
WorkerTold ==
    /\ WorkerUp
    /\ ~told
    /\ thread = "roundTrip" \/ faults
    /\ told' = TRUE
    /\ commandsClosed' = TRUE
    /\ completionsClosed' = (completionsClosed \/ PythonWorker)
    /\ UNCHANGED <<callVars, closeVars, hostVars, commands, completions,
                   worker, job>>

WorkerExits ==
    /\ told
    /\ worker = "stopped"
    /\ worker' = "dead"
    /\ UNCHANGED <<callVars, closeVars, hostVars, ringVars, job, told>>

WorkerDies ==
    /\ faults
    /\ WorkerUp
    /\ worker' = "dead"
    /\ job' = Nothing
    /\ UNCHANGED <<callVars, closeVars, hostVars, ringVars, told>>

(* The clock passes the deadline of a submission.                          *)
DeadlinePasses(c) ==
    /\ faults
    /\ stage[c] \in {"produce", "push", "blocked", "wait"}
    /\ ~late[c]
    /\ late' = [late EXCEPT ![c] = TRUE]
    /\ UNCHANGED <<stage, kind, raised, submission, active, begun, closeVars,
                   hostVars, ringVars, workerVars>>

-----------------------------------------------------------------------------
CallStep(c) ==
    \/ Register(c) \/ RegisterRefused(c) \/ LockProducer(c)
    \/ Push(c) \/ PushBlocks(c) \/ PushFails(c) \/ DropPending(c)
    \/ Completed(c) \/ WaitExpires(c) \/ CallerFailsRing(c)
    \/ UseAnswer(c) \/ Invalidate(c) \/ EndCall(c)

CloseStep(c) ==
    \/ CloseEnter(c) \/ CloseAwaited(c) \/ CloseAsks(c) \/ CloseJoined(c)

ThreadStep == SendShutdown \/ ShutRings \/ JoinReader \/ Reap

ReaderStep ==
    \/ ReaderMatches \/ ReaderRefuses \/ ReaderDelivers \/ ReaderClosed

WorkerStep ==
    \/ WorkerPops \/ WorkerExecutes \/ WorkerPushes \/ WorkerStops
    \/ WorkerTold \/ WorkerExits

Step ==
    \/ \E c \in Callers : BeginCall(c) \/ CallStep(c)
    \/ \E c \in Callers : Close(c) \/ CloseStep(c)
    \/ \E c \in Callers : DeadlinePasses(c)
    \/ \E i \in Ids : Notify(i)
    \/ ThreadStep
    \/ ReaderStep
    \/ WorkerStep
    \/ WorkerDies

Next == Step /\ UNCHANGED faults

Spec == Init /\ [][Next]_vars

(* A push that waits for space, and is woken because there is some.        *)
WokenPush(c) == stage[c] = "blocked" /\ Push(c)

(* The wakeup of a full ring may be lost (SpscRing, run RingNativeSpace).  *)
(* It is not if the ring has one slot: a pop then always finds it full,    *)
(* and signals.                                                            *)
SpaceSignalled == Capacity = 1

(* Host threads run and clocks advance.  A blocked push is trusted to be   *)
(* woken by space, and the worker to run, only when no faults are in play: *)
(* a kernel may run for ever, and a push then ends by its deadline, by     *)
(* fail_ring or by a close.                                                *)
Fairness ==
    /\ \A c \in Callers :
         /\ WF_sessionVars(CallStep(c) /\ ~WokenPush(c))
         /\ WF_sessionVars(~faults /\ SpaceSignalled /\ WokenPush(c))
         /\ WF_sessionVars(CloseStep(c))
         /\ WF_sessionVars(DeadlinePasses(c))
    /\ \A i \in Ids : WF_sessionVars(Notify(i))
    /\ WF_sessionVars(ThreadStep)
    /\ WF_sessionVars(ReaderStep)
    /\ WF_sessionVars(~faults /\ SpaceSignalled /\ WorkerStep)

FairSpec == Spec /\ Fairness

-----------------------------------------------------------------------------
Flags == [started : BOOLEAN, closed : BOOLEAN,
          invalid : BOOLEAN, unstopped : BOOLEAN]

Messages == [submission : {0} \cup Ids, kind : Kinds, status : Statuses]

(* Every variable has the type of the member it stands for, and no ring    *)
(* ever holds more records than it has slots.                              *)
TypeOK ==
    /\ stage \in [Callers -> Stages]
    /\ kind \in [Callers -> Kinds]
    /\ raised \in [Callers -> BOOLEAN]
    /\ late \in [Callers -> BOOLEAN]
    /\ submission \in [Callers -> {0} \cup Ids]
    /\ active \subseteq Callers
    /\ begun \in 0..MaxCalls
    /\ flags \in Flags
    /\ thread \in {"serving", "asked", "roundTrip", "shut", "reap", "ended"}
    /\ next \in 1..(2 * MaxCalls + 1)
    /\ pending \subseteq Ids
    /\ condemned \subseteq Ids
    /\ done \in [Ids -> {"no", "error", "gone"} \cup Statuses]
    /\ expected \in [Ids -> Kinds]
    /\ ringError \in {"none", "transport", "unknown", "mismatch"}
    /\ producer \in Callers \cup {NoCaller}
    /\ reader \in {"reading", "deliver", "ended"}
    /\ hand \in Messages
    /\ commands \in Seq(Messages) /\ Len(commands) <= Capacity
    /\ completions \in Seq(Messages) /\ Len(completions) <= Capacity
    /\ commandsClosed \in BOOLEAN /\ completionsClosed \in BOOLEAN
    /\ worker \in {"idle", "run", "push", "stopped", "dead"}
    /\ job \in Messages
    /\ told \in BOOLEAN
    /\ faults \in BOOLEAN

(* A caller inside submit_ring whose submission has no outcome yet.        *)
Unanswered(c) ==
    /\ stage[c] \in {"produce", "push", "blocked", "wait"}
    /\ done[submission[c]] = "no"

(* The completion thread has taken a submission out of pending and not     *)
(* yet told its caller.                                                    *)
InHand == IF reader = "deliver" THEN {hand.submission} ELSE {}

(* Nobody waits on a dead dispatcher: once fail_ring has recorded an error *)
(* no submission is registered that neither the completion thread nor      *)
(* another fail_ring would ever look at.                                   *)
FailedDispatcherEmpty == ringError # "none" => pending = {}

(* A caller that still waits can be reached: its submission is in the map, *)
(* in the list of a running fail_ring, or in the hand of the completion    *)
(* thread, whatever order timeouts, answers and failed pushes come in.     *)
NobodyForgotten ==
    \A c \in Callers :
        Unanswered(c) =>
            submission[c] \in pending \cup condemned \cup InHand

(* "Unknown submission ID" and "identity does not match" mean a corrupt    *)
(* worker: with a faithful worker no interleaving of registration, push,   *)
(* timeout and completion makes one of them the error of the session.      *)
NoFalseAlarm == ringError \notin {"unknown", "mismatch"}

(* The outcome a caller is given is decided once: an answer is not         *)
(* overwritten by a failure of the ring, nor a failure by a late answer.   *)
OutcomeFinal ==
    [][\A i \in Ids :
          done[i] # "no" => done'[i] \in {done[i], "gone"}]_vars

(* The session is shut down only after the last accepted call has left: no *)
(* call has its rings closed under it by its own host, and none begins on  *)
(* a session being shut down.                                              *)
CallsDrainFirst == thread # "serving" => active = {}

(* A close() that reports success leaves no worker process and no          *)
(* completion thread behind.                                               *)
CleanCloseStopped ==
    flags.closed /\ ~flags.unstopped => worker = "dead" /\ reader = "ended"

(* Whatever the worker does, a call and a close end: the deadline of a     *)
(* submission, the control timeouts and the kill unblock everyone, also a  *)
(* push whose wakeup is lost and closers waiting for each other.           *)
CallEnds(c) == stage[c] # "idle" ~> stage[c] = "idle"

(* With a worker that keeps serving and no deadline passing, a submission  *)
(* is answered: full rings in both directions and callers queued on        *)
(* producer_mutex behind a blocked push cannot block each other, and a     *)
(* close that is under way waits for it.  This is said of rings of one     *)
(* slot, whose space is always signalled; a longer ring may lose that      *)
(* signal, and the push then ends by its deadline.                         *)
CallAnswered(c) == ~faults /\ stage[c] = "register" ~> stage[c] = "answered"

-----------------------------------------------------------------------------
(* The inductive invariant.  The stages in which a call is counted, and    *)
(* those in which a caller owns the submission it names.                   *)
InCall == Stages \ {"idle", "close", "drain", "join", "await"}

Submitted == {"produce", "push", "blocked", "drop", "fail", "wait",
              "answered"}

CallsCounted ==
    /\ \A c \in Callers : c \in active <=> stage[c] \in InCall
    /\ \A c \in Callers : stage[c] \in {"drain", "join"} => flags.started
    /\ thread # "serving" => flags.started

OwnSubmission ==
    /\ \A c \in Callers :
          stage[c] \in Submitted => submission[c] \in 1..(next - 1)
    /\ \A c, d \in Callers :
          /\ stage[c] \in Submitted
          /\ stage[d] \in Submitted
          /\ c # d
          => submission[c] # submission[d]

(* A submission without an outcome is in at most one hand; one with an     *)
(* outcome is in none; those not yet registered have none.                 *)
OneHand ==
    /\ \A i \in pending \cup condemned \cup InHand :
          i \in 1..(next - 1) /\ i \in Ids /\ done[i] = "no"
    /\ pending \cap condemned = {}
    /\ pending \cap InHand = {}
    /\ condemned \cap InHand = {}
    /\ \A i \in Ids : i >= next => done[i] = "no"

(* One closer at a time works on the session thread, which only it wakes;  *)
(* a thread that has gone past a join has found what it joined ended.      *)
OneCloser ==
    /\ \A c \in Callers :
          /\ stage[c] \in {"drain", "join"} => ~flags.closed
          /\ stage[c] = "drain" => thread = "serving"
    /\ \A c, d \in Callers :
          /\ stage[c] \in {"drain", "join"}
          /\ stage[d] \in {"drain", "join"}
          => c = d

EndsJoined ==
    /\ flags.closed => flags.started
    /\ flags.closed /\ ~flags.unstopped => thread = "ended"
    /\ thread \in {"reap", "ended"} => reader = "ended"
    /\ thread = "ended" => worker = "dead"

(* The commands and completions under way: each names a submission of the  *)
(* right kind that is still in the map, unless the dispatcher has failed,  *)
(* and no two name the same one.                                           *)
Working == worker \in {"run", "push"}

Awaited(m) ==
    /\ m.submission \in Ids
    /\ m.submission < next
    /\ m.kind = expected[m.submission]
    /\ ringError = "none" => m.submission \in pending

AllAwaited ==
    /\ \A k \in 1..Len(commands) : Awaited(commands[k])
    /\ \A k \in 1..Len(completions) : Awaited(completions[k])
    /\ Working => Awaited(job)

Elsewhere(i) ==
    /\ \A k \in 1..Len(commands) : commands[k].submission # i
    /\ \A k \in 1..Len(completions) : completions[k].submission # i

Distinct(ring) ==
    \A k, l \in 1..Len(ring) :
        k # l => ring[k].submission # ring[l].submission

AllDistinct ==
    /\ Distinct(commands)
    /\ Distinct(completions)
    /\ \A k \in 1..Len(commands), l \in 1..Len(completions) :
          commands[k].submission # completions[l].submission
    /\ Working => Elsewhere(job.submission)

(* A caller that has registered and not yet pushed: its submission is in   *)
(* the map, under the kind it will push, and nothing under way names it.   *)
Unsent(c) == stage[c] \in {"produce", "push", "blocked", "drop"}

UnsentAlone ==
    \A c \in Callers :
        Unsent(c) =>
            /\ submission[c] \in Ids
            /\ expected[submission[c]] = kind[c]
            /\ ringError = "none" => submission[c] \in pending
            /\ Elsewhere(submission[c])
            /\ Working => job.submission # submission[c]

DispatchInv ==
    /\ TypeOK
    /\ CallsCounted
    /\ CallsDrainFirst
    /\ OwnSubmission
    /\ OneHand
    /\ FailedDispatcherEmpty
    /\ NobodyForgotten
    /\ OneCloser
    /\ EndsJoined
    /\ AllAwaited
    /\ AllDistinct
    /\ UnsentAlone
    /\ NoFalseAlarm

=============================================================================
