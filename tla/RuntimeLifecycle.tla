-------------------------- MODULE RuntimeLifecycle --------------------------
(***************************************************************************)
(* wmfs.runtime.Runtime: the one object behind the public API.  Threads    *)
(* load and configure plugins, discover them (which starts an isolated     *)
(* backend outside the lock), select a backend, call through it and close  *)
(* the runtime, in any order.  What runs below _condition is one action.   *)
(*                                                                         *)
(* An isolated backend is what IsolatedBackend shows it to be: its close   *)
(* refuses new calls at once and waits for the ones it has begun, a wait   *)
(* that a KeyboardInterrupt may end.  The gradient of a call goes to the   *)
(* isolated backend of that call directly, at any later time, and the      *)
(* runtime does not count it.  The in-process backend is                   *)
(* wmfs.backends.bundled.BundledBackend: a table of initialized providers  *)
(* whose hooks may raise.                                                  *)
(***************************************************************************)
EXTENDS Integers, Sequences, FiniteSets

CONSTANTS
    Threads,
    Plugins,      \* plugins, numbered in the order of their manifests
    Catalogs,     \* what a directory may hold: plugin |-> fingerprint of its
                  \*   configuration schema, 0 if it has none
    Configs,      \* canonical configuration snapshots
    Empty,        \* ... among them {}
    MaxChanges,   \* bound: operations that may change the catalog
    MaxBackends   \* bound: isolated backends ever started

ASSUME RuntimeAssumption ==
    /\ IsFiniteSet(Threads)
    /\ Plugins \subseteq Nat
    /\ \A c \in Catalogs : \E S \in SUBSET Plugins : c \in [S -> Nat]
    /\ Empty \in Configs
    /\ MaxChanges \in Nat /\ MaxBackends \in Nat

VARIABLES
    state,          \* _state
    activeWork,     \* _active_work
    closes,         \* _close_generation
    generation,     \* _operation_generation
    selected,       \* _backend_name
    manifests,      \* _manifests and _registry: plugin |-> fingerprint
    configurations, \* _plugin_configurations
    initialized,    \* _initialized_plugins
    isolated,       \* _backends["isolated"], 0 for none
    backend,        \* every isolated backend ever started, by number
    graphs,         \* the ones that autograd graphs refer to
    providers,      \* BundledBackend._initialized: plugin |-> configuration
    published,      \* BundledBackend._operations, by plugin
    pc, work        \* of each thread: where it is, and what it works with

catalogVars == <<generation, selected, manifests, configurations,
                 initialized, isolated>>
bundledVars == <<providers, published>>
threadVars  == <<pc, work>>
vars == <<state, activeWork, closes, catalogVars, backend, graphs,
          bundledVars, threadVars>>

-----------------------------------------------------------------------------
Nobody == 0        \* no backend
InProcess == -1    \* the bundled backend, as the backend of a call
(* The stages of a call and of a discovery: work that was accepted ...     *)
Calling == {"call", "run"}
Discovering == {"find", "start", "swap", "retire", "retiring"}
(* ... and the ones of a close().                                          *)
Closing == {"drain", "shut", "stop", "reset"}

Changes == generation + Cardinality({t \in Threads : pc[t] \in
             {"find", "start", "swap"} \cup Closing})
Starts == Len(backend)
            + Cardinality({t \in Threads : pc[t] \in {"find", "start"}})

Go(t, s) == pc' = [pc EXCEPT ![t] = s]
Nothing == [backend |-> Nobody, generation |-> 0, catalog |-> <<>>,
            configurations |-> <<>>, plugin |-> 0, metadata |-> 0]

NextGeneration == generation + 1

AllEmpty(catalog) == [p \in DOMAIN catalog |-> Empty]

(* _operation_names_locked: what the registry or the selected backend      *)
(* publishes, by plugin.                                                   *)
Visible(sel, cat, pub, iso) ==
    DOMAIN cat \cup CASE sel = "bundled"  -> pub
                      [] sel = "isolated" -> DOMAIN backend[iso].runs
                      [] OTHER -> {}

Init ==
    /\ state = "open"
    /\ activeWork = 0 /\ closes = 0 /\ generation = 0
    /\ selected = "none"
    /\ manifests = <<>> /\ configurations = <<>> /\ initialized = {}
    /\ isolated = Nobody /\ backend = <<>> /\ graphs = {}
    /\ providers = <<>> /\ published = {}
    /\ pc = [t \in Threads |-> "idle"]
    /\ work = [t \in Threads |-> Nothing]

-----------------------------------------------------------------------------
(* What BundledBackend.initialize may do with the hooks of the plugins it  *)
(* has not initialized yet.  The ones before the failing one are shut down *)
(* again, the last one first; a shutdown hook that raises ends that and    *)
(* leaves the earlier ones initialized.                                    *)
Initialized(catalog, config) ==
    LET fresh == DOMAIN catalog \ DOMAIN providers
        refused == {p \in DOMAIN catalog \cap DOMAIN providers :
                      providers[p] # config[p]}
        with(S) == [p \in DOMAIN providers \cup S |->
                      IF p \in DOMAIN providers THEN providers[p]
                                                ELSE config[p]]
        before(p) == {q \in fresh : q < p}
        stops == {p \in fresh \cup refused : \A q \in refused : p <= q}
        kept(p) == {{}} \cup {before(q) : q \in before(p)}
    IN  [done   |-> IF refused = {} THEN {with(fresh)} ELSE {},
         failed |-> {with(S) : S \in UNION {kept(p) : p \in stops}}]

(* load_plugins: with the bundled backend selected the providers of the    *)
(* new manifests are initialized first, and a failure changes nothing else.*)
LoadPlugins(c) ==
    /\ state = "open" /\ Changes < MaxChanges
    /\ \/ /\ selected # "bundled"
          /\ UNCHANGED <<bundledVars>>
       \/ /\ selected = "bundled"
          /\ providers' \in Initialized(c, AllEmpty(c)).done
          /\ published' = DOMAIN c
    /\ manifests' = c
    /\ configurations' = AllEmpty(c)
    /\ initialized' = {}
    /\ generation' = NextGeneration
    /\ UNCHANGED <<state, activeWork, closes, selected, isolated, backend,
                   graphs, threadVars>>

LoadFails(c) ==
    /\ state = "open" /\ selected = "bundled"
    /\ providers' \in Initialized(c, AllEmpty(c)).failed
    /\ UNCHANGED <<state, activeWork, closes, catalogVars, backend, graphs,
                   published, threadVars>>

(* configure_plugin of a loaded plugin that is not initialized, with a     *)
(* configuration its schema accepts.                                       *)
ConfigurePlugin(p, c) ==
    /\ state = "open"
    /\ p \in DOMAIN manifests \ initialized
    /\ manifests[p] # 0 \/ c = Empty
    /\ configurations' = [configurations EXCEPT ![p] = c]
    /\ UNCHANGED <<state, activeWork, closes, generation, selected, manifests,
                   initialized, isolated, backend, graphs, bundledVars,
                   threadVars>>

(* configure_bundled replaces the in-process backend.                      *)
ConfigureBundled ==
    /\ state = "open" /\ selected # "bundled" /\ initialized = {}
    /\ providers' = <<>> /\ published' = {}
    /\ UNCHANGED <<state, activeWork, closes, catalogVars, backend, graphs,
                   threadVars>>

(* Fault: the operation generation does not follow a change of the names.  *)
Republished_Never(sel, pub) == generation

(* use_backend advances the generation when the published names change.    *)
Republished(sel, pub) ==
    IF Visible(sel, manifests, pub, isolated)
         = Visible(selected, manifests, published, isolated)
    THEN generation ELSE NextGeneration

UseIsolated ==
    /\ state = "open" /\ isolated # Nobody /\ Changes < MaxChanges
    /\ selected' = "isolated"
    /\ generation' = Republished("isolated", published)
    /\ UNCHANGED <<state, activeWork, closes, manifests, configurations,
                   initialized, isolated, backend, graphs, bundledVars,
                   threadVars>>

(* use_backend("bundled") initializes the loaded plugins with the stored   *)
(* configurations ...                                                      *)
UseBundled ==
    /\ state = "open" /\ Changes < MaxChanges
    /\ providers' \in Initialized(manifests, configurations).done
    /\ published' = DOMAIN manifests
    /\ initialized' = initialized \cup DOMAIN manifests
    /\ selected' = "bundled"
    /\ generation' = Republished("bundled", DOMAIN manifests)
    /\ UNCHANGED <<state, activeWork, closes, manifests, configurations,
                   isolated, backend, graphs, threadVars>>

(* ... and a hook that raises leaves the selection as it was.              *)
UseBundledFails ==
    /\ state = "open"
    /\ providers' \in Initialized(manifests, configurations).failed
    /\ UNCHANGED <<state, activeWork, closes, catalogVars, backend, graphs,
                   published, threadVars>>

-----------------------------------------------------------------------------
(* _accept_work and _finish_work.                                          *)
Accept(t, stage, w) ==
    /\ pc[t] = "idle" /\ state = "open"
    /\ activeWork' = activeWork + 1
    /\ Go(t, stage)
    /\ work' = [work EXCEPT ![t] = w]

Finish(t) ==
    /\ activeWork' = activeWork - 1
    /\ Go(t, "idle")
    /\ work' = [work EXCEPT ![t] = Nothing]

Selected == IF selected = "bundled" THEN InProcess ELSE isolated

(* invoke: a backend must be selected, and the plugin of the operation, if *)
(* there is one, counts as initialized from now on.                        *)
Invoke(t, marked) ==
    /\ selected # "none"
    /\ marked \subseteq DOMAIN manifests
    /\ Accept(t, "call", [Nothing EXCEPT !.backend = Selected,
                                         !.generation = generation])
    /\ initialized' = initialized \cup marked
    /\ UNCHANGED <<state, closes, generation, selected, manifests,
                   configurations, isolated, backend, graphs, bundledVars>>

(* empty, zeros, ones and randn mark no plugin.                            *)
ConstructTensor(t) ==
    /\ selected # "none"
    /\ Accept(t, "call", [Nothing EXCEPT !.backend = Selected,
                                         !.generation = generation])
    /\ UNCHANGED <<state, closes, catalogVars, backend, graphs, bundledVars>>

(* wmfs.__getattr__ and wmfs.ops resolve a visible operation and bind it   *)
(* to the generation and the metadata they find ...                        *)
Metadata(p) == IF p \in DOMAIN manifests THEN manifests[p] ELSE -1

Resolve(t, p) ==
    /\ pc[t] = "idle" /\ state = "open"
    /\ p \in Visible(selected, manifests, published, isolated)
    /\ work' = [work EXCEPT ![t] = [Nothing EXCEPT
                  !.generation = generation, !.plugin = p,
                  !.metadata = Metadata(p)]]
    /\ Go(t, "bound")
    /\ UNCHANGED <<state, activeWork, closes, catalogVars, backend, graphs,
                   bundledVars>>

(* ... and invoke_registered checks the generation, then the name.         *)
Bound(t) ==
    /\ work[t].generation = generation
    /\ work[t].plugin \in Visible(selected, manifests, published, isolated)

InvokeRegistered(t) ==
    /\ pc[t] = "bound" /\ state = "open"
    /\ Bound(t)
    /\ selected # "none"
    /\ activeWork' = activeWork + 1
    /\ work' = [work EXCEPT ![t] = [Nothing EXCEPT !.backend = Selected,
                                                 !.generation = generation]]
    /\ Go(t, "call")
    /\ initialized' = initialized \cup ({work[t].plugin} \cap DOMAIN manifests)
    /\ UNCHANGED <<state, closes, generation, selected, manifests,
                   configurations, isolated, backend, graphs, bundledVars>>

InvokeStale(t) ==
    /\ pc[t] = "bound"
    /\ state # "open" \/ ~Bound(t) \/ selected = "none"
    /\ work' = [work EXCEPT ![t] = Nothing]
    /\ Go(t, "idle")
    /\ UNCHANGED <<state, activeWork, closes, catalogVars, backend, graphs,
                   bundledVars>>

(* backend.invoke outside the lock.                                        *)
CallBegins(t) ==
    /\ pc[t] = "call"
    /\ \/ work[t].backend = InProcess
       \/ /\ work[t].backend # InProcess
          /\ backend[work[t].backend].status = "open"
    /\ Go(t, "run")
    /\ UNCHANGED <<state, activeWork, closes, catalogVars, backend, graphs,
                   bundledVars, work>>

CallRefused(t) ==
    /\ pc[t] = "call" /\ work[t].backend # InProcess
    /\ backend[work[t].backend].status # "open"
    /\ Finish(t)
    /\ UNCHANGED <<state, closes, catalogVars, backend, graphs, bundledVars>>

(* A call on an isolated backend may have recorded a gradient function.    *)
CallReturns(t) ==
    /\ pc[t] = "run"
    /\ Finish(t)
    /\ graphs' = graphs \cup ({work[t].backend} \ {InProcess})
    /\ UNCHANGED <<state, closes, catalogVars, backend, bundledVars>>

(* The backward pass calls the backend of the forward call, whatever the   *)
(* runtime does meanwhile; a backend whose close has begun refuses it.     *)
Backward(t, b) ==
    /\ pc[t] = "idle" /\ b \in graphs
    /\ backend[b].status = "open"
    /\ work' = [work EXCEPT ![t] = [Nothing EXCEPT !.backend = b]]
    /\ Go(t, "backward")
    /\ UNCHANGED <<state, activeWork, closes, catalogVars, backend, graphs,
                   bundledVars>>

BackwardReturns(t) ==
    /\ pc[t] = "backward"
    /\ work' = [work EXCEPT ![t] = Nothing]
    /\ Go(t, "idle")
    /\ UNCHANGED <<state, activeWork, closes, catalogVars, backend, graphs,
                   bundledVars>>

Running(b) == {t \in Threads : /\ pc[t] \in {"run", "backward"}
                               /\ work[t].backend = b}

-----------------------------------------------------------------------------
(* discover_plugins: accepted, it finds the manifests ...                  *)
Discover(t, c) ==
    /\ Changes < MaxChanges /\ Starts < MaxBackends
    /\ Accept(t, "find", [Nothing EXCEPT !.catalog = c])
    /\ UNCHANGED <<state, closes, catalogVars, backend, graphs, bundledVars>>

DiscoverFails(t) ==
    /\ pc[t] \in {"find", "start"}
    /\ Finish(t)
    /\ UNCHANGED <<state, closes, catalogVars, backend, graphs, bundledVars>>

(* _configuration_for_manifest: a configuration is kept for a plugin whose *)
(* schema did not change.                                                  *)
ConfigurationFor(p, found) ==
    IF p \in DOMAIN manifests /\ manifests[p] = found
    THEN configurations[p] ELSE Empty

(* ... copies the configurations, below the lock,                          *)
Snapshot(t) ==
    /\ pc[t] = "find"
    /\ work' = [work EXCEPT ![t].configurations =
                  [p \in DOMAIN work[t].catalog |->
                     ConfigurationFor(p, work[t].catalog[p])]]
    /\ Go(t, "start")
    /\ UNCHANGED <<state, activeWork, closes, catalogVars, backend, graphs,
                   bundledVars>>

(* Fault: the workers of the catalog in use are stopped first.             *)
StartWorkers_StopsOld(t) ==
    /\ pc[t] = "start"
    /\ backend' = Append([b \in 1..Len(backend) |-> IF b = isolated
                             THEN [backend[b] EXCEPT !.status = "closing"]
                             ELSE backend[b]],
                         [status |-> "open", runs |-> work[t].configurations])
    /\ work' = [work EXCEPT ![t].backend = Len(backend')]
    /\ Go(t, "swap")
    /\ UNCHANGED <<state, activeWork, closes, catalogVars, graphs,
                   bundledVars>>

(* ... starts the workers with them, without the lock,                     *)
StartWorkers(t) ==
    /\ pc[t] = "start"
    /\ backend' = Append(backend,
                         [status |-> "open", runs |-> work[t].configurations])
    /\ work' = [work EXCEPT ![t].backend = Len(backend')]
    /\ Go(t, "swap")
    /\ UNCHANGED <<state, activeWork, closes, catalogVars, graphs,
                   bundledVars>>

(* ... closes them again when their operations cannot be published,        *)
Unpublishable(t) ==
    /\ pc[t] = "swap"
    /\ backend' = [backend EXCEPT ![work[t].backend].status = "closed"]
    /\ Finish(t)
    /\ UNCHANGED <<state, closes, catalogVars, graphs, bundledVars>>

(* Fault: the previous backend is forgotten.                               *)
Replaced_Forgotten == Nobody

Replaced == isolated

(* ... or publishes everything at once, below the lock, and               *)
Swap(t) ==
    /\ pc[t] = "swap"
    /\ manifests' = work[t].catalog
    /\ configurations' = work[t].configurations
    /\ initialized' = DOMAIN work[t].catalog
    /\ isolated' = work[t].backend
    /\ selected' = IF selected = "isolated" THEN "none" ELSE selected
    /\ generation' = NextGeneration
    /\ work' = [work EXCEPT ![t] = [Nothing EXCEPT !.backend = Replaced]]
    /\ Go(t, "retire")
    /\ UNCHANGED <<state, activeWork, closes, backend, graphs, bundledVars>>

(* ... closes the previous isolated backend: it refuses calls from now on  *)
Retire(t) ==
    /\ pc[t] = "retire" /\ work[t].backend # Nobody
    /\ backend' = [backend EXCEPT ![work[t].backend].status = "closing"]
    /\ Go(t, "retiring")
    /\ UNCHANGED <<state, activeWork, closes, catalogVars, graphs, bundledVars,
                   work>>

(* ... and waits for the ones it has begun.                                *)
Retired(t) ==
    /\ \/ /\ pc[t] = "retire" /\ work[t].backend = Nobody
          /\ UNCHANGED backend
       \/ /\ pc[t] = "retiring"
          /\ Running(work[t].backend) = {}
          /\ backend' = [backend EXCEPT ![work[t].backend].status = "closed"]
    /\ Finish(t)
    /\ UNCHANGED <<state, closes, catalogVars, graphs, bundledVars>>

(* A KeyboardInterrupt in that wait: the backend stays as it is, with its  *)
(* workers, and nobody will close it.                                      *)
RetireInterrupted(t) ==
    /\ pc[t] = "retiring"
    /\ backend' = [backend EXCEPT ![work[t].backend].status = "abandoned"]
    /\ Finish(t)
    /\ UNCHANGED <<state, closes, catalogVars, graphs, bundledVars>>

-----------------------------------------------------------------------------
(* close(): the first one stops the acceptance of work, a later one waits  *)
(* for it.                                                                 *)
Close(t) ==
    /\ pc[t] = "idle" /\ state = "open" /\ Changes < MaxChanges
    /\ state' = "closing"
    /\ Go(t, "drain")
    /\ UNCHANGED <<activeWork, closes, catalogVars, backend, graphs,
                   bundledVars, work>>

CloseJoins(t) ==
    /\ pc[t] = "idle" /\ state = "closing"
    /\ work' = [work EXCEPT ![t].generation = closes]
    /\ Go(t, "await")
    /\ UNCHANGED <<state, activeWork, closes, catalogVars, backend, graphs,
                   bundledVars>>

CloseJoined(t) ==
    /\ pc[t] = "await" /\ closes # work[t].generation
    /\ work' = [work EXCEPT ![t] = Nothing]
    /\ Go(t, "idle")
    /\ UNCHANGED <<state, activeWork, closes, catalogVars, backend, graphs,
                   bundledVars>>

(* Fault: discoveries are not waited for.                                  *)
NoWork_CallsOnly == \A t \in Threads : pc[t] \notin Calling

NoWork == activeWork = 0

Drained(t) ==
    /\ pc[t] = "drain"
    /\ NoWork
    /\ Go(t, "shut")
    /\ UNCHANGED <<state, activeWork, closes, catalogVars, backend, graphs,
                   bundledVars, work>>

(* A KeyboardInterrupt in a wait of close().                               *)
WaitInterrupted(t) ==
    /\ pc[t] \in {"drain", "await"}
    /\ work' = [work EXCEPT ![t] = Nothing]
    /\ Go(t, "idle")
    /\ UNCHANGED <<state, activeWork, closes, catalogVars, backend, graphs,
                   bundledVars>>

(* Every backend is closed, whatever the others raise: the shutdown hooks  *)
(* of all providers run, then the isolated backend refuses calls,          *)
CloseBackends(t) ==
    /\ pc[t] = "shut"
    /\ providers' = <<>> /\ published' = {}
    /\ \/ /\ isolated = Nobody
          /\ UNCHANGED backend
          /\ Go(t, "reset")
       \/ /\ isolated # Nobody
          /\ backend' = [backend EXCEPT ![isolated].status = "closing"]
          /\ Go(t, "stop")
    /\ UNCHANGED <<state, activeWork, closes, catalogVars, graphs, work>>

(* Fault: the workers are stopped below the backward calls that run.       *)
Stopped_Now(t) ==
    /\ pc[t] = "stop"
    /\ backend' = [backend EXCEPT ![isolated].status = "closed"]
    /\ Go(t, "reset")
    /\ UNCHANGED <<state, activeWork, closes, catalogVars, graphs,
                   bundledVars, work>>

(* ... waits for the backward calls inside and stops its workers.          *)
Stopped(t) ==
    /\ pc[t] = "stop"
    /\ Running(isolated) = {}
    /\ backend' = [backend EXCEPT ![isolated].status = "closed"]
    /\ Go(t, "reset")
    /\ UNCHANGED <<state, activeWork, closes, catalogVars, graphs,
                   bundledVars, work>>

(* A KeyboardInterrupt in that wait is one more failure of a backend.      *)
StopInterrupted(t) ==
    /\ pc[t] = "stop"
    /\ backend' = [backend EXCEPT ![isolated].status = "abandoned"]
    /\ Go(t, "reset")
    /\ UNCHANGED <<state, activeWork, closes, catalogVars, graphs,
                   bundledVars, work>>

(* Fault: the closers that wait are not told.                              *)
NextClose_Same == closes

NextClose == closes + 1

(* The state of the constructor is restored.                               *)
Reset(t) ==
    /\ pc[t] = "reset"
    /\ isolated' = Nobody /\ selected' = "none"
    /\ manifests' = <<>> /\ configurations' = <<>> /\ initialized' = {}
    /\ generation' = NextGeneration
    /\ state' = "open"
    /\ closes' = NextClose
    /\ Go(t, "idle")
    /\ UNCHANGED <<activeWork, backend, graphs, bundledVars, work>>

-----------------------------------------------------------------------------
CatalogStep ==
    \/ \E c \in Catalogs : LoadPlugins(c) \/ LoadFails(c)
    \/ \E p \in Plugins, c \in Configs : ConfigurePlugin(p, c)
    \/ ConfigureBundled
    \/ UseIsolated
    \/ UseBundled
    \/ UseBundledFails

CallStep(t) ==
    CallBegins(t) \/ CallRefused(t) \/ CallReturns(t) \/ BackwardReturns(t)

DiscoverStep(t) ==
    \/ DiscoverFails(t) \/ Snapshot(t) \/ StartWorkers(t)
    \/ Unpublishable(t) \/ Swap(t) \/ Retire(t) \/ Retired(t)

CloseStep(t) ==
    \/ Drained(t) \/ CloseBackends(t) \/ Stopped(t) \/ Reset(t)
    \/ CloseJoined(t)

Next ==
    \/ CatalogStep
    \/ \E t \in Threads :
         \/ \E p \in SUBSET Plugins : Cardinality(p) <= 1 /\ Invoke(t, p)
         \/ ConstructTensor(t)
         \/ \E p \in Plugins : Resolve(t, p)
         \/ InvokeRegistered(t) \/ InvokeStale(t)
         \/ \E c \in Catalogs : Discover(t, c)
         \/ Close(t) \/ CloseJoins(t)
         \/ \E b \in graphs : Backward(t, b)
         \/ WaitInterrupted(t) \/ RetireInterrupted(t) \/ StopInterrupted(t)
         \/ CallStep(t) \/ DiscoverStep(t) \/ CloseStep(t)

Spec == Init /\ [][Next]_vars

(* The threads run, and the backends keep what IsolatedBackend shows: the  *)
(* calls, the starts and the closes of a backend end.                      *)
Fairness == \A t \in Threads :
    WF_vars(CallStep(t)) /\ WF_vars(DiscoverStep(t)) /\ WF_vars(CloseStep(t))

FairSpec == Spec /\ Fairness

-----------------------------------------------------------------------------
(* Runtime.close closes the backends between calls: from the moment its    *)
(* wait ends until the runtime is open again no accepted call and no       *)
(* discovery is under way, and there is one closer only.  (Backward calls  *)
(* are not accepted work: the isolated backend itself waits for them.)     *)
CloseExclusive ==
    \A t \in Threads : pc[t] \in {"shut", "stop", "reset"} =>
        /\ state = "closing"
        /\ \A u \in Threads \ {t} :
             pc[u] \notin Calling \cup Discovering \cup Closing

(* A backend of workers is lost in one way only, an interrupt in the wait  *)
(* of its close: any other one that has not been closed is the one of the  *)
(* table, or a discovery still has to publish or close it.                 *)
BackendsOwned ==
    \A b \in 1..Len(backend) : backend[b].status \in {"open", "closing"} =>
        \/ b = isolated
        \/ \E t \in Threads : /\ pc[t] \in {"swap", "retire", "retiring"}
                                /\ work[t].backend = b

(* An accepted call is refused by its backend only when a rediscovery has  *)
(* replaced the backend since: while the generation it was accepted in     *)
(* lasts, its backend takes it.                                            *)
CurrentCallServed ==
    \A t \in Threads :
        /\ pc[t] = "call" /\ work[t].backend # InProcess
        /\ work[t].generation = generation
        => backend[work[t].backend].status = "open"

(* A published operation is what it was when it was resolved as long as    *)
(* the generation lasts: its name is still published and its metadata is   *)
(* the registry's, whatever else has been loaded, selected or configured.  *)
CurrentIsUnchanged ==
    \A t \in Threads :
        /\ pc[t] = "bound" /\ work[t].generation = generation /\ state = "open"
        => /\ work[t].plugin \in
                Visible(selected, manifests, published, isolated)
           /\ work[t].metadata = Metadata(work[t].plugin)

(* A thread that waits in close() returns, unless the close it waits for   *)
(* was abandoned by an interrupt in its own wait.                          *)
Abandoned == state = "closing" /\ \A t \in Threads : pc[t] \notin Closing

ClosersReturn ==
    \A t \in Threads : pc[t] \in Closing \cup {"await"} ~>
        pc[t] \notin Closing \cup {"await"} \/ Abandoned

(* What Runtime asks of an isolated backend is what IsolatedBackend keeps: *)
(* a call, forward or backward, gets into one that is open and is refused  *)
(* as soon as its close has begun, a close that was begun ends when nobody *)
(* runs inside, also if the runtime has not counted them, and the close of *)
(* a backend that was never published, taken for one step, finds nobody.   *)
GateOf(b) ==
    IF b \notin DOMAIN backend THEN "open"
    ELSE IF backend[b].status = "abandoned" THEN "closing"
    ELSE backend[b].status

Gate(b) == INSTANCE BackendGate WITH
    Workers <- {b}, gate <- GateOf(b), running <- Running(b),
    workers <- IF GateOf(b) = "closed" THEN {} ELSE {b}, lingering <- {}

BackendsAreGates ==
    /\ \A b \in 1..MaxBackends : Gate(b)!GateInit
    /\ [][\A b \in 1..MaxBackends :
              Gate(b)!GateNext \/ UNCHANGED Gate(b)!gateVars]_vars

(* Not true of the code: a provider that runs has the configuration that   *)
(* is stored for its plugin.                                               *)
ConfigurationImmutable ==
    \A p \in DOMAIN manifests \cap DOMAIN providers :
        selected = "bundled" => providers[p] = configurations[p]
=============================================================================
