---------------------------- MODULE SessionStartup ----------------------------
(***************************************************************************)
(* The birth and the death of a worker session: WorkerSession.__init__     *)
(* waits for the session's thread, whose coroutine _serve holds the        *)
(* _worker_connection: sockets, rings, log descriptors and a worker        *)
(* process, acquired one after the other and released in its finally       *)
(* clauses.  On the other side of the bootstrap socket _serve of           *)
(* wmfs_plugin.worker checks the identity it is sent, runs the plugin's    *)
(* hooks and answers.                                                      *)
(*                                                                         *)
(* The coroutine blocks its loop while it starts the worker; a             *)
(* cancellation reaches it at its next await.  Any deadline may expire     *)
(* whenever it is awaited, any worker may crash or hang.                   *)
(***************************************************************************)
EXTENDS FiniteSets

VARIABLES
    mode,      \* manifest.logging.mode
    declared,  \* manifest.lifecycle: the hooks that the plugin has
    ctor,      \* the constructor: waiting, expired, raised or returned
    ready,     \* _ready
    failed,    \* the connection raised: _startup_error or _shutdown_error
    cancel,    \* the cancellation of _serve_task: none, posted or raised
    conn,      \* where the coroutine is
    held,      \* what the runtime has open for the connection
    dirty,     \* cleanup_error
    worker,    \* the worker process
    hook,      \* the plugin's hooks: none, initialized or shut
    request,   \* what the worker has not yet read: none, startup, shutdown
    answer     \* what the runtime has not yet read: none, ok, wrong, error, ack

vars == <<mode, declared, ctor, ready, failed, cancel, conn, held, dirty,
          worker, hook, request, answer>>

fixed == <<mode, declared>>

LogModes == {"disabled", "centralized", "worker_file"}
Living == {"starting", "checking", "initializing", "answering", "serving",
           "stopping"}

(* The descriptors that a log mode needs on the runtime's side.            *)
LogResources ==
    CASE mode = "disabled"    -> {}
      [] mode = "centralized" -> {"log_child", "collector"}
      [] mode = "worker_file" -> {"log_file"}

Opened == {"bootstrap", "fd_socket", "fd_child", "rings"} \union LogResources

(* Socket objects: their descriptors also go when nothing refers to them.  *)
Sockets == {"bootstrap", "fd_socket", "fd_child", "log_child"}

Init ==
    /\ mode \in LogModes
    /\ declared \in SUBSET {"initialize", "shutdown"}
    /\ ctor = "waiting" /\ ready = FALSE /\ failed = FALSE
    /\ cancel = "none" /\ conn = "new" /\ held = {} /\ dirty = FALSE
    /\ worker = "none" /\ hook = "none" /\ request = "none" /\ answer = "none"

host == <<fixed, ctor, ready, cancel>>
plugin == <<worker, hook, request, answer>>

-----------------------------------------------------------------------------
(* The end of the coroutine: _run keeps the exception, and wakes the       *)
(* constructor if it is still waiting.                                     *)
Ended(raised) ==
    /\ conn' = "ended"
    /\ failed' = (failed \/ raised)
    /\ ready' = (ready \/ raised)

(* _serve begins: the loop and the task can be cancelled from here on.     *)
Begin ==
    /\ conn = "new" /\ conn' = "opening"
    /\ UNCHANGED <<host, failed, held, dirty, plugin>>

Open ==
    /\ conn = "opening" /\ conn' = "launching"
    /\ held' = Opened
    /\ UNCHANGED <<host, failed, dirty, plugin>>

(* A manifest of format 1, no descriptor left, a bad ring capacity: no     *)
(* clause protects these steps, and what was open by then stays open.      *)
OpenFails ==
    /\ conn = "opening" /\ Ended(TRUE)
    /\ held' \in SUBSET Opened
    /\ UNCHANGED <<fixed, ctor, cancel, dirty, plugin>>

Launch ==
    /\ conn = "launching" /\ conn' = "sending"
    /\ worker' = "starting"
    /\ UNCHANGED <<host, failed, held, dirty, hook, request, answer>>

(* No such executable, no process: everything is closed by hand.           *)
LaunchFails ==
    /\ conn = "launching" /\ Ended(TRUE)
    /\ held' = {}
    /\ UNCHANGED <<fixed, ctor, cancel, dirty, plugin>>

Send ==
    /\ conn = "sending" /\ conn' = "receiving"
    /\ worker # "exited"
    /\ request' = "startup"
    /\ held' = held \ {"fd_child", "log_child", "log_file"}
    /\ UNCHANGED <<host, failed, dirty, worker, hook, answer>>

(* The identity, the configuration bytes, their digest and the acceptance  *)
(* of the hook must all be the expected ones.                              *)
Accepted == {"ok"}

(* The native session takes the sockets over, and duplicates of the rings. *)
Connect ==
    /\ conn = "receiving" /\ conn' = "publishing"
    /\ answer \in Accepted /\ answer' = "none"
    /\ held' = (held \ {"bootstrap", "fd_socket"}) \union {"session"}
    /\ UNCHANGED <<host, failed, dirty, worker, hook, request>>

(* Session() is given detached descriptors and duplicates: when it raises  *)
(* it has closed them, and when the sixth duplicate cannot be made nobody  *)
(* has.                                                                    *)
ConnectFails ==
    /\ conn = "receiving" /\ conn' = "stopping"
    /\ answer \in Accepted /\ answer' = "none"
    /\ failed' = TRUE
    /\ \E lost \in SUBSET {"detached", "duplicates"} :
        /\ "duplicates" \in lost => "detached" \in lost
        /\ held' = (held \ {"bootstrap", "fd_socket"}) \union lost
    /\ UNCHANGED <<host, dirty, worker, hook, request>>

(* Any other failure between the launch and the yield leads to the finally *)
(* clause: a request that cannot be encoded or sent, an answer that is     *)
(* refused, a deadline, an extension without rings; and metadata that      *)
(* changed since discovery.                                                *)
StartFails ==
    /\ conn \in {"sending", "receiving", "publishing"}
    /\ conn' = "stopping" /\ failed' = TRUE
    /\ UNCHANGED <<host, held, dirty, plugin>>

Publish ==
    /\ conn = "publishing" /\ conn' = "serving"
    /\ ready' = TRUE
    /\ UNCHANGED <<fixed, ctor, failed, cancel, held, dirty, plugin>>

-----------------------------------------------------------------------------
(* close() of a session that was returned sets _shutdown ...               *)
Asked ==
    /\ conn = "serving" /\ ctor = "returned"
    /\ conn' = "stopping"
    /\ UNCHANGED <<host, failed, held, dirty, plugin>>

(* ... and a cancellation interrupts the wait for it.                      *)
ServeCancelled ==
    /\ conn = "serving" /\ cancel = "posted"
    /\ cancel' = "raised" /\ conn' = "stopping" /\ failed' = TRUE
    /\ UNCHANGED <<fixed, ctor, ready, held, dirty, plugin>>

(* client.shutdown(): the request, if there is a session to send it on.    *)
Shutdown ==
    /\ conn = "stopping"
    /\ IF "session" \in held
       THEN conn' = "acknowledging" /\ request' = "shutdown" /\ UNCHANGED held
       ELSE conn' = "waiting" /\ held' = held \ {"bootstrap", "fd_socket"}
            /\ UNCHANGED request
    /\ UNCHANGED <<host, failed, dirty, worker, hook, answer>>

(* The acknowledgement, or a deadline or a dead worker; the session closes *)
(* its sockets in both cases.                                              *)
Acknowledged ==
    /\ conn = "acknowledging" /\ answer = "ack"
    /\ conn' = "waiting" /\ held' = held \ {"session"} /\ answer' = "none"
    /\ UNCHANGED <<host, failed, dirty, worker, hook, request>>

Unacknowledged ==
    /\ conn = "acknowledging" /\ answer # "ack"
    /\ conn' = "waiting" /\ held' = held \ {"session"} /\ dirty' = TRUE
    /\ UNCHANGED <<host, failed, plugin>>

(* _wait_for_worker: process.wait with a deadline, then SIGTERM ...        *)
WorkerGone ==
    /\ conn = "waiting" /\ worker = "exited" /\ cancel # "posted"
    /\ conn' = "releasing"
    /\ dirty' \in {dirty, TRUE}     \* the exit status may be an error
    /\ UNCHANGED <<host, failed, held, plugin>>

(* Fault: a worker that outlives the deadline is only reported.            *)
WaitExpires_Reports ==
    /\ conn = "waiting" /\ worker # "exited" /\ cancel # "posted"
    /\ conn' = "releasing" /\ dirty' = TRUE
    /\ UNCHANGED <<host, failed, held, plugin>>

WaitExpires ==
    /\ conn = "waiting" /\ worker # "exited" /\ cancel # "posted"
    /\ conn' = "terminating" /\ dirty' = TRUE
    /\ UNCHANGED <<host, failed, held, plugin>>

(* ... and SIGKILL.                                                        *)
Kill ==
    /\ conn = "terminating" /\ cancel # "posted"
    /\ conn' = "releasing" /\ worker' = "exited"
    /\ UNCHANGED <<host, failed, held, dirty, hook, request, answer>>

(* A cancellation posted before or during an await of _wait_for_worker is  *)
(* raised there, and caught as any other error of the wait.                *)
WaitCancelled ==
    /\ conn \in {"waiting", "terminating"} /\ cancel = "posted"
    /\ cancel' = "raised" /\ conn' = "releasing" /\ dirty' = TRUE
    /\ UNCHANGED <<fixed, ctor, ready, failed, held, plugin>>

(* The rings, the log descriptors and the collector; cleanup_error is      *)
(* raised.  fd_child is not among what the finally clause closes.          *)
Release ==
    /\ conn = "releasing" /\ Ended(dirty)
    /\ held' = held \ {"rings", "log_child", "log_file", "collector"}
    /\ UNCHANGED <<fixed, ctor, cancel, dirty, plugin>>

(* Nobody refers to the frame of the coroutine any more, once the          *)
(* constructor is done and its exception was dropped: the sockets close,   *)
(* and a collector reads the end of its stream.                            *)
Forgotten ==
    /\ conn = "ended" /\ ctor \in {"raised", "returned"}
    /\ held \intersect Sockets # {}
    /\ held' = held \ (Sockets \union {"collector"})
    /\ UNCHANGED <<host, failed, conn, dirty, plugin>>

-----------------------------------------------------------------------------
(* The constructor: a session, the error of the startup, or neither before *)
(* the deadline.                                                           *)
Constructed ==
    /\ ctor = "waiting" /\ ready
    /\ ctor' = IF failed THEN "raised" ELSE "returned"
    /\ UNCHANGED <<fixed, ready, failed, cancel, conn, held, dirty, plugin>>

Expire ==
    /\ ctor = "waiting" /\ ~ready
    /\ ctor' = "expired"
    /\ UNCHANGED <<fixed, ready, failed, cancel, conn, held, dirty, plugin>>

(* Fault: the constructor gives up without cancelling the task.            *)
AbortStartup_Leaves ==
    /\ ctor = "expired" /\ ctor' = "raised"
    /\ UNCHANGED <<fixed, ready, failed, cancel, conn, held, dirty, plugin>>

(* _abort_startup cancels the task, if there is one.                       *)
AbortStartup ==
    /\ ctor = "expired" /\ ctor' = "raised"
    /\ cancel' = IF conn \in {"new", "ended"} THEN "none" ELSE "posted"
    /\ UNCHANGED <<fixed, ready, failed, conn, held, dirty, plugin>>

-----------------------------------------------------------------------------
(* The worker's end of the bootstrap socket is at its end of file.         *)
HungUp == held \intersect {"bootstrap", "detached", "session"} = {}

host_ == <<fixed, ctor, ready, failed, cancel, conn, held, dirty>>

WorkerReads ==
    /\ worker = "starting" /\ request = "startup"
    /\ worker' = "checking" /\ request' = "none"
    /\ UNCHANGED <<host_, hook, answer>>

(* A refused request: descriptors, identity, configuration or an           *)
(* initialize hook that raises.                                            *)
WorkerRefuses ==
    /\ worker \in {"checking", "initializing"}
    /\ worker' = "exited"
    /\ answer' = IF HungUp THEN answer ELSE "error"
    /\ UNCHANGED <<host_, hook, request>>

WorkerChecks ==
    /\ worker = "checking" /\ worker' = "initializing"
    /\ UNCHANGED <<host_, hook, request, answer>>

(* A plugin without an initialize hook is served, and not initialized.     *)
WorkerInitialized ==
    /\ worker = "initializing" /\ worker' = "answering"
    /\ hook' = IF "initialize" \in declared THEN "initialized" ELSE hook
    /\ UNCHANGED <<host_, request, answer>>

(* if initialized and shutdown is not None: shutdown()                     *)
AfterShutdown ==
    IF hook = "initialized" /\ "shutdown" \in declared THEN "shut" ELSE hook

(* The answer of a worker built from another interface is "wrong".  An     *)
(* answer that cannot be encoded, or sent because the runtime has hung up, *)
(* undoes the hook.                                                        *)
WorkerAnswers ==
    /\ worker = "answering"
    /\ \/ /\ ~HungUp /\ worker' = "serving" /\ answer' \in {"ok", "wrong"}
          /\ UNCHANGED hook
       \/ /\ worker' = "exited" /\ hook' = AfterShutdown
          /\ answer' = IF HungUp THEN answer ELSE "error"
    /\ UNCHANGED <<host_, request>>

WorkerTold ==
    /\ worker = "serving" /\ request = "shutdown"
    /\ worker' = "stopping" /\ request' = "none"
    /\ UNCHANGED <<host_, hook, answer>>

(* Fault: the shutdown is acknowledged before the hook has run.            *)
WorkerStops_AckFirst ==
    /\ worker = "stopping"
    /\ worker' = "exited"
    /\ answer' = IF HungUp THEN answer ELSE "ack"
    /\ UNCHANGED <<host_, hook, request>>

WorkerStops ==
    /\ worker = "stopping"
    /\ worker' = "exited" /\ hook' = AfterShutdown
    /\ answer' = IF HungUp THEN answer ELSE "ack"
    /\ UNCHANGED <<host_, request>>

(* A crash, SIGTERM, or the end of file while it reads: no hook runs.      *)
WorkerDies ==
    /\ worker \in Living
    /\ worker' = "exited"
    /\ UNCHANGED <<host_, hook, request, answer>>

-----------------------------------------------------------------------------
ConnectionStep ==
    \/ Begin \/ Open \/ OpenFails \/ Launch \/ LaunchFails \/ Send
    \/ Connect \/ ConnectFails \/ StartFails \/ Publish
    \/ ServeCancelled \/ Shutdown \/ Acknowledged \/ Unacknowledged \/ WorkerGone \/ WaitExpires \/ Kill
    \/ WaitCancelled \/ Release

ConstructorStep == Constructed \/ Expire \/ AbortStartup

WorkerStep ==
    \/ WorkerReads \/ WorkerRefuses \/ WorkerChecks \/ WorkerInitialized
    \/ WorkerAnswers \/ WorkerTold \/ WorkerStops \/ WorkerDies

Next ==
    \/ ConnectionStep \/ ConstructorStep \/ Asked \/ WorkerStep \/ Forgotten

Spec == Init /\ [][Next]_vars

(* The session's thread and the constructor run on; every wait of theirs   *)
(* has a deadline.  Nothing is assumed of the worker or of a close().      *)
FairSpec == Spec /\ WF_vars(ConnectionStep) /\ WF_vars(ConstructorStep)

-----------------------------------------------------------------------------
(* What a session leaves behind when its connection has ended.  One that   *)
(* was handed to a caller leaves nothing, however it ended: no descriptor, *)
(* no collector, no worker.  A startup that failed after the launch leaves *)
(* no worker unless its wait was cancelled, and no descriptor but those    *)
(* the finally clause of _worker_connection does not reach: fd_child when  *)
(* the request was not sent, and what was on its way into a Session() that *)
(* was not made.                                                           *)
NothingLeft ==
    conn = "ended" /\ worker # "none" =>
        /\ ctor = "returned" => held = {}
        /\ held \subseteq {"fd_child", "detached", "duplicates"}
        /\ "fd_child" \in held => hook = "none"
        /\ cancel # "raised" => worker = "exited"

(* The hooks that a plugin declares run in pairs.  A session handed to a   *)
(* caller has run the initialize hook, if there is one, however the        *)
(* startup was interleaved with deadlines and crashes; and when its stop   *)
(* reports no error, a plugin with both hooks has run its shutdown hook    *)
(* before the runtime let go of the worker (_serve of the worker).  A      *)
(* shutdown hook that is declared alone is never run.                      *)
HooksPaired ==
    /\ ctor = "returned" /\ "initialize" \in declared => hook # "none"
    /\ conn = "ended" /\ ~failed /\ declared = {"initialize", "shutdown"} =>
           hook = "shut"

(* Every startup comes to an end: the constructor returns or raises, and a *)
(* constructor that raises after the task began is followed by the end of  *)
(* the connection: the cancellation always finds an await.                 *)
StartupEnds ==
    /\ <>(ctor \in {"raised", "returned"})
    /\ (ctor = "expired" /\ conn # "new") ~> (conn = "ended")

(* docs/diagrams/failure-recovery.d2: a failed startup leads, by "bounded  *)
(* cleanup", to "Close + reap worker".                                     *)
WorkerReaped == conn = "ended" => worker \in {"none", "exited"}
=============================================================================
