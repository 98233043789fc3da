-------------------------- MODULE IsolatedBackend --------------------------
(***************************************************************************)
(* wmfs.backends.isolated.IsolatedBackend: the table of worker sessions,   *)
(* one per plugin, that any number of threads call through, the creation   *)
(* and the eviction of sessions, and close().  Everything below _condition *)
(* is one action; the constructor, the calls and the close of a session    *)
(* run outside it.                                                         *)
(*                                                                         *)
(* A session is what SessionDispatch shows it to be: it takes calls until  *)
(* it is invalidated or closed, every call and every close ends, and its   *)
(* close waits for the calls it has accepted.  A close that gives up its   *)
(* session thread leaves the worker running; nobody above hears of it.     *)
(***************************************************************************)
EXTENDS Integers, FiniteSets

CONSTANTS
    Threads,      \* the threads that call the backend
    Plugins,      \* the plugins it has manifests of
    Sessions,     \* every session a behaviour may create
    NoSession,
    Interrupts    \* a KeyboardInterrupt may end a call

ASSUME BackendAssumption ==
    /\ IsFiniteSet(Threads)
    /\ NoSession \notin Sessions
    /\ Interrupts \in BOOLEAN

VARIABLES
    state,        \* _state
    sessions,     \* _sessions
    creating,     \* _creating
    inflight,     \* _inflight
    status,       \* of each session: unused, live, broken, left, closed
    owner,        \* the plugin it was created for
    buffers,      \* the BufferManager: open or closed
    pc, plugin,   \* of each thread: where it is, and the plugin it calls,
    mine,         \*   the session it has acquired or created
    doomed,       \* the sessions close() has taken from the table
    asleep        \* the threads in _condition.wait

tableVars   == <<state, sessions, creating, inflight>>
sessionVars == <<status, owner, buffers>>
threadVars  == <<pc, plugin, mine>>
vars == <<tableVars, sessionVars, threadVars, doomed, asleep>>

-----------------------------------------------------------------------------
Go(t, s) == pc' = [pc EXCEPT ![t] = s]

NotifyAll == asleep' = {}

(* The thread runs: it is not waiting to be notified.                      *)
Ready(t, s) == pc[t] = s /\ t \notin asleep

(* The plugins that have a session in the table.                           *)
Present == {p \in Plugins : sessions[p] # NoSession}

(* WorkerSession.close() joins the session thread, which stops the worker, *)
(* or gives it up after a timeout: either way the session is closed from   *)
(* then on, and a second close() returns at once.                          *)
Ended(s) ==
    IF status[s] \in {"live", "broken"} THEN {"closed", "left"}
    ELSE {status[s]}

(* IsolatedBackend.discover has started a session for every plugin before  *)
(* anyone else knows the backend.                                          *)
Init ==
    /\ state = "open"
    /\ sessions \in [Plugins -> Sessions]
    /\ \A p, q \in Plugins : p # q => sessions[p] # sessions[q]
    /\ creating = {}
    /\ inflight = 0
    /\ status = [s \in Sessions |->
                   IF \E p \in Plugins : sessions[p] = s
                   THEN "live" ELSE "unused"]
    /\ owner \in [Sessions -> Plugins]
    /\ \A p \in Plugins : owner[sessions[p]] = p
    /\ buffers = "open"
    /\ pc = [t \in Threads |-> "idle"]
    /\ plugin \in [Threads -> Plugins]
    /\ mine = [t \in Threads |-> NoSession]
    /\ doomed = {}
    /\ asleep = {}

-----------------------------------------------------------------------------
(* invoke or plugin_environment: _acquire_session ...                      *)
Invoke(t, p) ==
    /\ pc[t] = "idle"
    /\ plugin' = [plugin EXCEPT ![t] = p]
    /\ Go(t, "acquire")
    /\ UNCHANGED <<tableVars, sessionVars, mine, doomed, asleep>>

(* ... raises when the backend is not open,                                *)
AcquireRefused(t) ==
    /\ Ready(t, "acquire")
    /\ state # "open"
    /\ Go(t, "idle")
    /\ UNCHANGED <<tableVars, sessionVars, plugin, mine, doomed, asleep>>

(* ... takes the session of the table,                                     *)
AcquireFound(t) ==
    /\ Ready(t, "acquire")
    /\ state = "open"
    /\ plugin[t] \in Present
    /\ inflight' = inflight + 1
    /\ mine' = [mine EXCEPT ![t] = sessions[plugin[t]]]
    /\ Go(t, "use")
    /\ UNCHANGED <<state, sessions, creating, sessionVars, plugin, doomed,
                   asleep>>

(* Fault: nobody else's creation is waited for.                            *)
AcquireCreates_Anyway(t) ==
    /\ Ready(t, "acquire")
    /\ state = "open"
    /\ plugin[t] \notin Present
    /\ creating' = creating \cup {plugin[t]}
    /\ Go(t, "create")
    /\ UNCHANGED <<state, sessions, inflight, sessionVars, plugin, mine,
                   doomed, asleep>>

(* ... undertakes to create one,                                           *)
AcquireCreates(t) ==
    /\ Ready(t, "acquire")
    /\ state = "open"
    /\ plugin[t] \notin Present
    /\ plugin[t] \notin creating
    /\ creating' = creating \cup {plugin[t]}
    /\ Go(t, "create")
    /\ UNCHANGED <<state, sessions, inflight, sessionVars, plugin, mine,
                   doomed, asleep>>

(* ... or sleeps while another thread does.                                *)
AcquireWaits(t) ==
    /\ Ready(t, "acquire")
    /\ state = "open"
    /\ plugin[t] \notin Present
    /\ plugin[t] \in creating
    /\ asleep' = asleep \cup {t}
    /\ UNCHANGED <<tableVars, sessionVars, threadVars, doomed>>

(* The constructor of WorkerSession, outside the lock, returns ...         *)
CreateDone(t) ==
    /\ pc[t] = "create"
    /\ \E s \in Sessions :
         /\ status[s] = "unused"
         /\ status' = [status EXCEPT ![s] = "live"]
         /\ owner' = [owner EXCEPT ![s] = plugin[t]]
         /\ mine' = [mine EXCEPT ![t] = s]
    /\ Go(t, "publish")
    /\ UNCHANGED <<tableVars, buffers, plugin, doomed, asleep>>

(* Fault: the sleepers are not told that the creation failed.              *)
CreateFails_Silent(t) ==
    /\ pc[t] = "create"
    /\ creating' = creating \ {plugin[t]}
    /\ Go(t, "idle")
    /\ UNCHANGED <<state, sessions, inflight, sessionVars, plugin, mine,
                   doomed, asleep>>

(* ... or gives up a worker it has started: StartupAborted ...             *)
CreateAborted(t) ==
    /\ pc[t] = "create"
    /\ \E s \in Sessions :
         /\ status[s] = "unused"
         /\ status' = [status EXCEPT ![s] = "left"]
         /\ owner' = [owner EXCEPT ![s] = plugin[t]]
    /\ Go(t, "forget")
    /\ UNCHANGED <<tableVars, buffers, plugin, mine, doomed, asleep>>

(* ... or raises without one, and the creation is taken back.              *)
CreateFails(t) ==
    /\ pc[t] = "create"
    /\ creating' = creating \ {plugin[t]}
    /\ NotifyAll
    /\ Go(t, "idle")
    /\ UNCHANGED <<state, sessions, inflight, sessionVars, plugin, mine,
                   doomed>>

Publish(t) ==
    /\ pc[t] = "publish"
    /\ state = "open"
    /\ sessions' = [sessions EXCEPT ![plugin[t]] = mine[t]]
    /\ creating' = creating \ {plugin[t]}
    /\ inflight' = inflight + 1
    /\ NotifyAll
    /\ Go(t, "use")
    /\ UNCHANGED <<state, sessionVars, plugin, mine, doomed>>

(* Fault: close() does not hear of a creation that comes too late.         *)
PublishLate_Forgets(t) ==
    /\ pc[t] = "publish"
    /\ state # "open"
    /\ creating' = creating \ {plugin[t]}
    /\ NotifyAll
    /\ Go(t, "discard")
    /\ UNCHANGED <<state, sessions, inflight, sessionVars, plugin, mine,
                   doomed>>

(* close() came first: the new session is closed, and only then is the     *)
(* creation over.                                                          *)
PublishLate(t) ==
    /\ pc[t] = "publish"
    /\ state # "open"
    /\ Go(t, "discard")
    /\ UNCHANGED <<tableVars, sessionVars, plugin, mine, doomed, asleep>>

Discard(t) ==
    /\ pc[t] = "discard"
    /\ \E end \in Ended(mine[t]) : status' = [status EXCEPT ![mine[t]] = end]
    /\ Go(t, "forget")
    /\ UNCHANGED <<tableVars, owner, buffers, plugin, mine, doomed, asleep>>

Forget(t) ==
    /\ pc[t] = "forget"
    /\ creating' = creating \ {plugin[t]}
    /\ NotifyAll
    /\ mine' = [mine EXCEPT ![t] = NoSession]
    /\ Go(t, "idle")
    /\ UNCHANGED <<state, sessions, inflight, sessionVars, plugin, doomed>>

-----------------------------------------------------------------------------
(* WorkerSession.invoke: a session that is invalidated or closed raises a  *)
(* RuntimeError, which is no WorkerTransportError.                         *)
UseRefused(t) ==
    /\ pc[t] = "use"
    /\ status[mine[t]] # "live"
    /\ Go(t, "leave")
    /\ UNCHANGED <<tableVars, sessionVars, plugin, mine, doomed, asleep>>

UseBegins(t) ==
    /\ pc[t] = "use"
    /\ status[mine[t]] = "live"
    /\ Go(t, "call")
    /\ UNCHANGED <<tableVars, sessionVars, plugin, mine, doomed, asleep>>

(* A result, or an error of the operation on a healthy session.            *)
CallReturns(t) ==
    /\ pc[t] = "call"
    /\ Go(t, "leave")
    /\ UNCHANGED <<tableVars, sessionVars, plugin, mine, doomed, asleep>>

(* The transport failed: the session is invalidated, closed by the caller  *)
(* and only then reported as a WorkerTransportError.                       *)
CallFails(t) ==
    /\ pc[t] = "call"
    /\ status' = [status EXCEPT ![mine[t]] = "broken"]
    /\ Go(t, "close")
    /\ UNCHANGED <<tableVars, owner, buffers, plugin, mine, doomed, asleep>>

(* A KeyboardInterrupt between dispatch and completion also invalidates    *)
(* the session, but is neither translated nor followed by a close.         *)
CallInterrupted(t) ==
    /\ Interrupts
    /\ pc[t] = "call"
    /\ status' = [status EXCEPT ![mine[t]] = "broken"]
    /\ Go(t, "leave")
    /\ UNCHANGED <<tableVars, owner, buffers, plugin, mine, doomed, asleep>>


(* What the close of the session raises is dropped.                        *)
CloseBroken(t) ==
    /\ pc[t] = "close"
    /\ \A u \in Threads : pc[u] = "call" => mine[u] # mine[t]
    /\ \E end \in Ended(mine[t]) : status' = [status EXCEPT ![mine[t]] = end]
    /\ Go(t, "evict")
    /\ UNCHANGED <<tableVars, owner, buffers, plugin, mine, doomed, asleep>>

(* Fault: whatever session the plugin has by now is evicted.               *)
Evict_Any(t) ==
    /\ pc[t] = "evict"
    /\ sessions' = [sessions EXCEPT ![plugin[t]] = NoSession]
    /\ NotifyAll
    /\ Go(t, "leave")
    /\ UNCHANGED <<state, creating, inflight, sessionVars, plugin, mine,
                   doomed>>

(* _evict_session; its own close() of the session finds it closed.         *)
Evict(t) ==
    /\ pc[t] = "evict"
    /\ \/ /\ sessions[plugin[t]] = mine[t]
          /\ sessions' = [sessions EXCEPT ![plugin[t]] = NoSession]
          /\ NotifyAll
       \/ /\ sessions[plugin[t]] # mine[t]
          /\ UNCHANGED <<sessions, asleep>>
    /\ Go(t, "leave")
    /\ UNCHANGED <<state, creating, inflight, sessionVars, plugin, mine,
                   doomed>>

(* The finally clause of _invoke_plugin, plugin_environment and            *)
(* construct_tensor.                                                       *)
Leave(t) ==
    /\ pc[t] = "leave"
    /\ inflight' = inflight - 1
    /\ mine' = [mine EXCEPT ![t] = NoSession]
    /\ NotifyAll
    /\ Go(t, "idle")
    /\ UNCHANGED <<state, sessions, creating, sessionVars, plugin, doomed>>

(* construct_tensor allocates from the buffers without any session.        *)
Construct(t) ==
    /\ pc[t] = "idle"
    /\ state = "open"
    /\ inflight' = inflight + 1
    /\ Go(t, "construct")
    /\ UNCHANGED <<state, sessions, creating, sessionVars, plugin, mine,
                   doomed, asleep>>

Constructed(t) ==
    /\ pc[t] = "construct"
    /\ Go(t, "leave")
    /\ UNCHANGED <<tableVars, sessionVars, plugin, mine, doomed, asleep>>

-----------------------------------------------------------------------------
(* close(): the first closer drains, another one waits for it.             *)
Close(t) ==
    /\ pc[t] = "idle"
    /\ state # "closed"
    /\ state' = "closing"
    /\ Go(t, IF state = "open" THEN "drain" ELSE "await")
    /\ UNCHANGED <<sessions, creating, inflight, sessionVars, plugin, mine,
                   doomed, asleep>>

Drained(t) ==
    /\ Ready(t, "drain")
    /\ IF inflight = 0 /\ creating = {}
       THEN /\ doomed' = {sessions[p] : p \in Present}
            /\ sessions' = [p \in Plugins |-> NoSession]
            /\ Go(t, "sweep")
            /\ UNCHANGED asleep
       ELSE /\ asleep' = asleep \cup {t}
            /\ UNCHANGED <<doomed, sessions, pc>>
    /\ UNCHANGED <<state, creating, inflight, sessionVars, plugin, mine>>

(* Every session is closed, whatever the others raise; then the buffers.   *)
CloseSession(t) ==
    /\ pc[t] = "sweep"
    /\ \E s \in doomed, end \in {"closed", "left"} :
         /\ end \in Ended(s)
         /\ status' = [status EXCEPT ![s] = end]
         /\ doomed' = doomed \ {s}
    /\ UNCHANGED <<tableVars, owner, buffers, threadVars, asleep>>

CloseBuffers(t) ==
    /\ pc[t] = "sweep"
    /\ doomed = {}
    /\ buffers' = "closed"
    /\ Go(t, "finish")
    /\ UNCHANGED <<tableVars, status, owner, plugin, mine, doomed, asleep>>

CloseFinished(t) ==
    /\ pc[t] = "finish"
    /\ state' = "closed"
    /\ NotifyAll
    /\ Go(t, "idle")
    /\ UNCHANGED <<sessions, creating, inflight, sessionVars, plugin, mine,
                   doomed>>

CloseAwaited(t) ==
    /\ Ready(t, "await")
    /\ IF state = "closed"
       THEN Go(t, "idle") /\ UNCHANGED asleep
       ELSE asleep' = asleep \cup {t} /\ UNCHANGED pc
    /\ UNCHANGED <<tableVars, sessionVars, plugin, mine, doomed>>

(* A KeyboardInterrupt also ends a wait, which nobody catches.             *)
WaitInterrupted(t) ==
    /\ Interrupts
    /\ t \in asleep
    /\ asleep' = asleep \ {t}
    /\ Go(t, "idle")
    /\ UNCHANGED <<tableVars, sessionVars, plugin, mine, doomed>>

(* The session thread that was given up ends, its worker with it.          *)
WorkerStopped(s) ==
    /\ status[s] = "left"
    /\ status' = [status EXCEPT ![s] = "closed"]
    /\ UNCHANGED <<tableVars, owner, buffers, threadVars, doomed, asleep>>

-----------------------------------------------------------------------------
Acquire(t) ==
    \/ AcquireRefused(t) \/ AcquireFound(t) \/ AcquireCreates(t)
    \/ AcquireWaits(t)

Create(t) ==
    \/ CreateDone(t) \/ CreateAborted(t) \/ CreateFails(t)
    \/ Publish(t) \/ PublishLate(t) \/ Discard(t) \/ Forget(t)

Call(t) ==
    \/ UseRefused(t) \/ UseBegins(t) \/ CallReturns(t) \/ CallFails(t)
    \/ CloseBroken(t) \/ Evict(t) \/ Constructed(t)
    \/ Leave(t)

Shut(t) ==
    \/ Drained(t) \/ CloseSession(t) \/ CloseBuffers(t) \/ CloseFinished(t)
    \/ CloseAwaited(t)

Step(t) == Acquire(t) \/ Create(t) \/ Call(t) \/ Shut(t)

Start(t) == (\E p \in Plugins : Invoke(t, p)) \/ Construct(t) \/ Close(t)

Next ==
    \/ \E t \in Threads :
         Start(t) \/ Step(t) \/ CallInterrupted(t) \/ WaitInterrupted(t)
    \/ \E s \in Sessions : WorkerStopped(s)

Spec == Init /\ [][Next]_vars

(* A thread inside the backend goes on.  Calls, constructors and closes of *)
(* a session end because of their deadlines (SessionDispatch, CallsEnd).   *)
FairSpec == Spec /\ \A t \in Threads : WF_vars(Step(t))

-----------------------------------------------------------------------------
(* The stages in which a thread is counted by _inflight, and those in      *)
(* which it answers for an entry of _creating.                             *)
Counted == {t \in Threads :
              pc[t] \in {"use", "call", "close", "evict", "leave",
                         "construct"}}

Creators == {t \in Threads : pc[t] \in {"create", "publish", "discard",
                                        "forget"}}

(* Every variable has the type of the attribute it stands for, and only a  *)
(* thread in one of the three waits of _condition sleeps.                  *)
TypeOK ==
    /\ state \in {"open", "closing", "closed"}
    /\ sessions \in [Plugins -> Sessions \cup {NoSession}]
    /\ creating \subseteq Plugins
    /\ inflight \in Nat
    /\ status \in [Sessions -> {"unused", "live", "broken", "left", "closed"}]
    /\ owner \in [Sessions -> Plugins]
    /\ buffers \in {"open", "closed"}
    /\ pc \in [Threads -> {"idle", "acquire", "create", "publish", "discard",
                           "forget", "use", "call", "close", "evict",
                           "leave", "construct", "drain", "await", "sweep",
                           "finish"}]
    /\ plugin \in [Threads -> Plugins]
    /\ mine \in [Threads -> Sessions \cup {NoSession}]
    /\ doomed \subseteq Sessions
    /\ asleep \subseteq Threads
    /\ \A t \in asleep : pc[t] \in {"acquire", "drain", "await"}

(* A plugin never has two sessions at a time that are not closed:          *)
(* concurrent first calls start one, and a replacement is started only     *)
(* when the close of the broken one is over.  Its worker may still run     *)
(* then, if the join in that close gave up (status "left").                *)
OneSessionPerPlugin ==
    \A s, u \in Sessions :
        /\ status[s] \in {"live", "broken"}
        /\ status[u] \in {"live", "broken"}
        /\ owner[s] = owner[u]
        => s = u

(* close() leaves no session behind: when it has returned, every one that  *)
(* was ever started is closed, also one whose start overlapped the close.  *)
Alive == {s \in Sessions : status[s] \in {"live", "broken"}}

NothingOutlivesClose == state = "closed" => Alive = {}

(* The workers whose sessions are closed and which have still to stop.     *)
Left == {s \in Sessions : status[s] = "left"}

(* What the runtime relies on (RuntimeLifecycle): callers and creators of  *)
(* sessions get in only while the state is open, a close that has begun    *)
(* ends after the last of them, and then every session is closed and no    *)
(* worker is started again, nor left, by anyone                            *)
(* (IsolatedBackend._acquire_session, _invoke_plugin, close).              *)
Gate == INSTANCE BackendGate WITH
    Workers <- Sessions, gate <- state, running <- Counted \cup Creators,
    workers <- Alive, lingering <- Left

BackendIsGate == Gate!GateSpec

(* The buffer manager is closed under nobody: not under a call, a tensor   *)
(* construction, a session being created, or one that is not closed.       *)
BuffersOutliveUse ==
    buffers = "closed" =>
        /\ Counted \cup Creators = {}
        /\ Alive = {}

(* A late eviction spares the replacement: a healthy session leaves the    *)
(* table only by close().                                                  *)
HealthyStays ==
    [][\A p \in Present :
          state = "open" /\ status[sessions[p]] = "live"
              => sessions'[p] = sessions[p]]_vars

(* Whoever sleeps in the backend is notified: callers that wait for the    *)
(* creation another thread has undertaken, also when it fails or comes too *)
(* late, and close() waiting for the last of them, whoever is interrupted. *)
SleepersWake ==
    \A t \in Threads :
        (t \in asleep /\ pc[t] # "await") ~> t \notin asleep

Broken(p) == p \in Present /\ status[sessions[p]] # "live"

Reported(p) ==
    \E t \in Threads : pc[t] \in {"close", "evict"} /\ mine[t] = sessions[p]


-----------------------------------------------------------------------------
(* The inductive invariant.  The counter counts, and an entry of _creating *)
(* has one thread that will remove it.                                     *)
InflightCounted == inflight = Cardinality(Counted)

CreationsOwned ==
    /\ creating = {plugin[t] : t \in Creators}
    /\ \A t, u \in Creators : plugin[t] = plugin[u] => t = u

Accounted == InflightCounted /\ CreationsOwned

(* A session that is not closed is in the table, in the hands of the       *)
(* thread that created it, or in those of close().                         *)
InTable(s) == \E p \in Present : sessions[p] = s

Fresh == {t \in Threads : pc[t] \in {"publish", "discard"}}

InCreation(s) == \E t \in Fresh : mine[t] = s

SessionsHeld ==
    /\ \A s \in Sessions : status[s] \in {"live", "broken"} =>
          InTable(s) \/ InCreation(s) \/ s \in doomed
    /\ \A p \in Present :
          /\ p \notin creating
          /\ owner[sessions[p]] = p
          /\ status[sessions[p]] # "unused"
    /\ \A s \in doomed : status[s] # "unused"
    /\ \A s, u \in doomed : owner[s] = owner[u] => s = u

(* What a thread knows of its session.                                     *)
Users == {t \in Threads : pc[t] \in {"use", "call", "close", "evict"}}

HandsDiffer ==
    /\ \A t \in Fresh :
          /\ mine[t] \in Sessions
          /\ status[mine[t]] = "live"
          /\ owner[mine[t]] = plugin[t]
    /\ \A t \in Users :
          /\ mine[t] \in Sessions
          /\ status[mine[t]] # "unused"
          /\ pc[t] = "call" => status[mine[t]] \in {"live", "broken"}
          /\ pc[t] = "evict" => status[mine[t]] \in {"left", "closed"}
    /\ \A t \in Fresh, u \in Users : mine[u] # mine[t]
    /\ \A t \in Fresh, p \in Present : sessions[p] # mine[t]

(* One closer at a time; past its drain the backend is empty.              *)
Closers == {t \in Threads : pc[t] \in {"drain", "sweep", "finish"}}

Past == {t \in Threads : pc[t] \in {"sweep", "finish"}}

ClosingInOrder ==
    /\ \A t \in Closers : state = "closing"
    /\ \A t, u \in Closers : t = u
    /\ Past # {} \/ state = "closed" =>
          Present = {} /\ creating = {} /\ Counted = {}
    /\ doomed # {} => \E t \in Threads : pc[t] = "sweep"
    /\ buffers = "closed" =>
          state = "closed" \/ \E t \in Threads : pc[t] = "finish"

BackendInv ==
    /\ TypeOK
    /\ Accounted
    /\ SessionsHeld
    /\ HandsDiffer
    /\ ClosingInOrder

=============================================================================
