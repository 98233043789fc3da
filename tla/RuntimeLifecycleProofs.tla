----------------------- MODULE RuntimeLifecycleProofs -----------------------
(***************************************************************************)
(* Proofs, for any number of threads, plugins, catalogs and backends, that *)
(* Runtime.close runs alone, that an isolated backend is lost only by an   *)
(* interrupt in the wait of its close, that an accepted call of the        *)
(* current generation is served by its backend, that a resolved operation  *)
(* that is still current has not changed, and that every isolated backend  *)
(* is used as the gate IsolatedBackend implements.                         *)
(*                                                                         *)
(* The argument is the invariant RuntimeInv: the counter _active_work      *)
(* counts the threads between _accept_work and _finish_work (WorkCounted), *)
(* there is one closer and it works only when nobody else does (OneCloser),*)
(* every isolated backend that takes calls or is being closed has one      *)
(* owner (BackendsHeld), and a call of this generation goes to the backend *)
(* of the table (CallsCurrent).  For the gates, no call has been sent to a *)
(* backend that is not published yet, no gradient function refers to it,   *)
(* and a replaced one is closed in its two steps (GatesInv).               *)
(***************************************************************************)
EXTENDS RuntimeLifecycle, FiniteSetTheorems, SequenceTheorems, TLAPS

(* Tables by plugin: configuration snapshots and schema fingerprints.      *)
Snapshots == UNION {[S -> Configs] : S \in SUBSET Plugins}
Contents == UNION {[S -> Nat] : S \in SUBSET Plugins}

Statuses == {"open", "closing", "closed", "abandoned"}
Backends == [status : Statuses, runs : Snapshots]

Stages ==
    {"idle", "bound", "await", "backward"} \cup Calling \cup Discovering
      \cup Closing

Works == [backend : Int, generation : Nat, catalog : Contents,
          configurations : Snapshots, plugin : Int, metadata : Int]

RuntimeTypes ==
    /\ state \in {"open", "closing"}
    /\ activeWork \in Int /\ closes \in Nat /\ generation \in Nat
    /\ selected \in {"none", "bundled", "isolated"}
    /\ manifests \in Contents
    /\ configurations \in Snapshots /\ DOMAIN configurations = DOMAIN manifests
    /\ initialized \subseteq Plugins
    /\ backend \in Seq(Backends) /\ isolated \in 0..Len(backend)
    /\ graphs \subseteq Int
    /\ providers \in Snapshots /\ published \subseteq Plugins
    /\ pc \in [Threads -> Stages]
    /\ work \in [Threads -> Works]

(* What a discovery carries: the configurations of its own catalog.        *)
Carried ==
    \A t \in Threads : pc[t] \in {"start", "swap"} =>
        DOMAIN work[t].configurations = DOMAIN work[t].catalog

(* The threads between _accept_work and _finish_work.                      *)
Working == {t \in Threads : pc[t] \in Calling \cup Discovering}

WorkCounted == activeWork = Cardinality(Working)

OneCloser ==
    /\ \A t \in Threads : pc[t] \in Closing => state = "closing"
    /\ \A t, u \in Threads : pc[t] \in Closing /\ pc[u] \in Closing => t = u
    /\ \A t \in Threads : pc[t] \in {"shut", "stop", "reset"} => Working = {}

(* The discoveries that answer for a backend of their own: the new one     *)
(* before the swap, the replaced one after it.                             *)
Owning == {"swap", "retire", "retiring"}

SelectedStarted == selected = "isolated" => isolated # Nobody

(* The backend of the table is open until a closer closes it, or gives up. *)
TableOpen ==
    /\ isolated # Nobody =>
         \/ backend[isolated].status = "open"
         \/ \E t \in Threads : pc[t] \in {"stop", "reset"}
    /\ \A t \in Threads : pc[t] = "stop" =>
         isolated # Nobody /\ backend[isolated].status = "closing"
    /\ \A t \in Threads : pc[t] = "reset" =>
         \/ isolated = Nobody
         \/ backend[isolated].status \in {"closed", "abandoned"}

OwnersHold ==
    \A t \in Threads : pc[t] \in Owning =>
      /\ work[t].backend \in 0..Len(backend)
      /\ pc[t] # "retire" => work[t].backend # Nobody
      /\ pc[t] = "swap" => backend[work[t].backend].status = "open"

OwnersApart ==
    \A t \in Threads : pc[t] \in Owning /\ work[t].backend # Nobody =>
      /\ work[t].backend # isolated
      /\ \A u \in Threads \ {t} :
           pc[u] \in Owning => work[u].backend # work[t].backend

BackendsHeld ==
    SelectedStarted /\ TableOpen /\ OwnersHold /\ OwnersApart /\ BackendsOwned

(* A call or a resolved operation is not newer than the catalog, and a     *)
(* call as old as the catalog goes to the backend of the table.            *)
CallsCurrent ==
    /\ \A t \in Threads : pc[t] \in {"call", "bound"} =>
         work[t].generation <= generation
    /\ \A t \in Threads : pc[t] = "call" /\ work[t].backend # InProcess =>
         /\ work[t].backend \in 1..Len(backend)
         /\ work[t].generation = generation => work[t].backend = isolated

RuntimeInv ==
    /\ RuntimeTypes
    /\ Carried
    /\ WorkCounted
    /\ OneCloser
    /\ BackendsHeld
    /\ CallsCurrent
    /\ CurrentIsUnchanged

-----------------------------------------------------------------------------
(* Every step is one of these.                                             *)
LEMMA StepCases ==
    ASSUME [Next]_vars
    PROVE  \/ CatalogStep
           \/ \E t \in Threads, p \in SUBSET Plugins : Invoke(t, p)
           \/ \E t \in Threads, p \in Plugins : Resolve(t, p)
           \/ \E t \in Threads, c \in Catalogs : Discover(t, c)
           \/ \E t \in Threads, b \in graphs : Backward(t, b)
           \/ \E t \in Threads :
                 \/ ConstructTensor(t) \/ InvokeRegistered(t) \/ InvokeStale(t)
                 \/ Close(t) \/ CloseJoins(t) \/ WaitInterrupted(t)
                 \/ CallBegins(t) \/ CallRefused(t) \/ CallReturns(t)
                 \/ BackwardReturns(t)
                 \/ RetireInterrupted(t) \/ StopInterrupted(t)
                 \/ DiscoverFails(t) \/ Snapshot(t) \/ StartWorkers(t)
                 \/ Unpublishable(t) \/ Swap(t) \/ Retire(t) \/ Retired(t)
                 \/ Drained(t) \/ CloseBackends(t) \/ Stopped(t) \/ Reset(t)
                 \/ CloseJoined(t)
           \/ UNCHANGED vars
BY Zenon DEF Next, CallStep, DiscoverStep, CloseStep

(* The empty table, which the code writes as {}.                           *)
LEMMA EmptyTable ==
    <<>> \in Contents /\ <<>> \in Snapshots /\ DOMAIN <<>> = {}
<1>1. <<>> \in Seq(Nat) /\ <<>> \in Seq(Configs) /\ Len(<<>>) = 0
    BY EmptySeq
<1>2. /\ <<>> \in [1..0 -> Nat] /\ <<>> \in [1..0 -> Configs]
      /\ DOMAIN <<>> = 1..0
    BY <1>1, LenProperties
<1>3. 1..0 = {}
    OBVIOUS
<1>4. {} \in SUBSET Plugins
    OBVIOUS
<1>5. QED
    BY <1>2, <1>3, <1>4, Zenon DEF Contents, Snapshots

(* Tables as functions.                                                    *)
LEMMA TableIsFunction ==
    /\ \A f \in Contents : DOMAIN f \subseteq Plugins /\ f \in [DOMAIN f -> Nat]
    /\ \A f \in Snapshots :
         DOMAIN f \subseteq Plugins /\ f \in [DOMAIN f -> Configs]
    /\ \A S \in SUBSET Plugins : [S -> Configs] \subseteq Snapshots
    /\ Catalogs \subseteq Contents
BY RuntimeAssumption DEF Contents, Snapshots

LEMMA NothingTyped == Nothing \in Works
BY EmptyTable DEF Nothing, Works, Nobody

(* What one step does to the list of backends.                             *)
LEMMA StatusSet ==
    ASSUME NEW q \in Seq(Backends), NEW b \in 1..Len(q), NEW s \in Statuses
    PROVE  LET r == [q EXCEPT ![b].status = s] IN
           /\ r \in Seq(Backends) /\ Len(r) = Len(q)
           /\ \A i \in 1..Len(q) :
                /\ r[i].runs = q[i].runs
                /\ r[i].status = IF i = b THEN s ELSE q[i].status
<1> DEFINE e == [q[b] EXCEPT !.status = s]
           r == [q EXCEPT ![b] = e]
<1>1. q[b] \in Backends
    BY ElementOfSeq
<1>2. e \in Backends /\ e.status = s /\ e.runs = q[b].runs
    BY <1>1 DEF Backends
<1> HIDE DEF e
<1>3. /\ r \in Seq(Backends) /\ Len(r) = Len(q)
      /\ \A i \in 1..Len(q) : r[i] = IF i = b THEN e ELSE q[i]
    BY <1>2, ExceptSeq
<1>4. r = [q EXCEPT ![b].status = s]
    BY DEF e
<1>5. QED
    BY <1>2, <1>3, <1>4

LEMMA Started ==
    ASSUME NEW q \in Seq(Backends), NEW c \in Snapshots
    PROVE  LET e == [status |-> "open", runs |-> c]
               r == Append(q, e)
           IN  /\ r \in Seq(Backends) /\ Len(r) = Len(q) + 1
               /\ \A i \in 1..Len(q) : r[i] = q[i]
               /\ r[Len(q) + 1].status = "open"
<1> DEFINE e == [status |-> "open", runs |-> c]
<1>1. e \in Backends /\ e.status = "open"
    BY DEF Backends, Statuses
<1> HIDE DEF e
<1>2. QED
    BY <1>1, AppendProperties DEF e

(* What the hooks leave are configuration snapshots.                       *)
LEMMA InitializedTyped ==
    ASSUME providers \in Snapshots, NEW cat \in Contents,
           NEW conf \in Snapshots, DOMAIN conf = DOMAIN cat
    PROVE  /\ Initialized(cat, conf).done \subseteq Snapshots
           /\ Initialized(cat, conf).failed \subseteq Snapshots
<1> DEFINE fresh == DOMAIN cat \ DOMAIN providers
           with(S) == [p \in DOMAIN providers \cup S |->
                         IF p \in DOMAIN providers THEN providers[p]
                                                   ELSE conf[p]]
           refused == {p \in DOMAIN cat \cap DOMAIN providers :
                         providers[p] # conf[p]}
           before(p) == {q \in fresh : q < p}
           stops == {p \in fresh \cup refused : \A q \in refused : p <= q}
           kept(p) == {{}} \cup {before(q) : q \in before(p)}
<1>1. ASSUME NEW S \in SUBSET fresh PROVE with(S) \in Snapshots
    <2>1. DOMAIN providers \cup S \subseteq Plugins
        BY TableIsFunction
    <2>2. with(S) \in [DOMAIN providers \cup S -> Configs]
        BY TableIsFunction
    <2>3. QED
        BY <2>1, <2>2, TableIsFunction
<1>2. Initialized(cat, conf).done \subseteq {with(fresh)}
    BY DEF Initialized
<1>3. ASSUME NEW v \in Initialized(cat, conf).failed
      PROVE  \E S \in SUBSET fresh : v = with(S)
    <2>1. Initialized(cat, conf).failed
              = {with(S) : S \in UNION {kept(p) : p \in stops}}
        BY DEF Initialized
    <2>2. \A p \in stops : \A S \in kept(p) : S \subseteq fresh
        OBVIOUS
    <2> HIDE DEF with, kept, stops
    <2>3. PICK S \in UNION {kept(p) : p \in stops} : v = with(S)
        BY <1>3, <2>1
    <2>4. S \subseteq fresh
        BY <2>2, <2>3
    <2>5. QED
        BY <2>3, <2>4
<1> HIDE DEF with, fresh
<1>4. QED
    BY <1>1, <1>2, <1>3

(* The records that threads are given to work with.                        *)
LEMMA WorkFields ==
    ASSUME NEW w \in Works
    PROVE  /\ w.backend \in Int /\ w.generation \in Nat /\ w.catalog \in Contents
           /\ w.configurations \in Snapshots /\ w.plugin \in Int
           /\ w.metadata \in Int
BY DEF Works

LEMMA GenerationKept ==
    ASSUME NEW w \in Works, NEW g \in Nat
    PROVE  [w EXCEPT !.generation = g] \in Works
BY DEF Works

LEMMA BackendGiven ==
    ASSUME NEW w \in Works, NEW b \in Int
    PROVE  LET v == [w EXCEPT !.backend = b]
           IN  /\ v \in Works /\ v.backend = b
               /\ v.configurations = w.configurations /\ v.catalog = w.catalog
BY DEF Works

LEMMA ConfigurationsGiven ==
    ASSUME NEW w \in Works, NEW c \in Snapshots
    PROVE  LET v == [w EXCEPT !.configurations = c]
           IN  /\ v \in Works /\ v.configurations = c
               /\ v.catalog = w.catalog
BY DEF Works

LEMMA CallGiven ==
    ASSUME NEW b \in Int, NEW g \in Nat
    PROVE  LET w == [Nothing EXCEPT !.backend = b, !.generation = g]
           IN  w \in Works /\ w.backend = b /\ w.generation = g
<1> DEFINE w == [backend |-> b, generation |-> g, catalog |-> <<>>,
                 configurations |-> <<>>, plugin |-> 0, metadata |-> 0]
<1>1. [Nothing EXCEPT !.backend = b, !.generation = g] = w
    <2> DEFINE u == [backend |-> b, generation |-> 0, catalog |-> <<>>,
                     configurations |-> <<>>, plugin |-> 0, metadata |-> 0]
    <2>1. [Nothing EXCEPT !.backend = b, !.generation = g]
              = [[Nothing EXCEPT !.backend = b] EXCEPT !.generation = g]
        OBVIOUS
    <2>2. [Nothing EXCEPT !.backend = b] = u
        BY DEF Nothing
    <2>3. [u EXCEPT !.generation = g] = w
        OBVIOUS
    <2>4. QED
        BY <2>1, <2>2, <2>3, Zenon
<1>2. w \in Works /\ w.backend = b /\ w.generation = g
    BY EmptyTable DEF Works
<1>3. QED
    BY <1>1, <1>2, Zenon

LEMMA CatalogGiven ==
    ASSUME NEW c \in Contents
    PROVE  LET w == [Nothing EXCEPT !.catalog = c]
           IN  w \in Works /\ w.catalog = c
BY EmptyTable DEF Works, Nothing, Nobody

LEMMA OperationRecord ==
    ASSUME NEW g, NEW p, NEW m
    PROVE  [Nothing EXCEPT !.generation = g, !.plugin = p, !.metadata = m]
             = [backend |-> Nobody, generation |-> g, catalog |-> <<>>,
                configurations |-> <<>>, plugin |-> p, metadata |-> m]
<1> DEFINE u == [backend |-> Nobody, generation |-> g, catalog |-> <<>>,
                 configurations |-> <<>>, plugin |-> 0, metadata |-> 0]
           v == [backend |-> Nobody, generation |-> g, catalog |-> <<>>,
                 configurations |-> <<>>, plugin |-> p, metadata |-> 0]
           w == [backend |-> Nobody, generation |-> g, catalog |-> <<>>,
                 configurations |-> <<>>, plugin |-> p, metadata |-> m]
<1>1. [Nothing EXCEPT !.generation = g, !.plugin = p, !.metadata = m]
          = [[[Nothing EXCEPT !.generation = g] EXCEPT !.plugin = p]
                EXCEPT !.metadata = m]
    OBVIOUS
<1>2. [Nothing EXCEPT !.generation = g] = u
    BY DEF Nothing
<1>3. [u EXCEPT !.plugin = p] = v
    OBVIOUS
<1>4. [v EXCEPT !.metadata = m] = w
    OBVIOUS
<1>5. QED
    BY <1>1, <1>2, <1>3, <1>4, Zenon

LEMMA OperationGiven ==
    ASSUME NEW g \in Nat, NEW p \in Int, NEW m \in Int
    PROVE  [Nothing EXCEPT !.generation = g, !.plugin = p, !.metadata = m]
             \in Works
<1> DEFINE w == [backend |-> Nobody, generation |-> g, catalog |-> <<>>,
                 configurations |-> <<>>, plugin |-> p, metadata |-> m]
<1>1. [Nothing EXCEPT !.generation = g, !.plugin = p, !.metadata = m] = w
    BY OperationRecord, Zenon
<1>2. w \in Works
    BY EmptyTable DEF Works, Nobody
<1>3. QED
    BY <1>1, <1>2, Zenon

(* The steps that close a backend change the status of one backend only.   *)
Marks(b, s) ==
    /\ b \in 1..Len(backend)
    /\ backend' \in Seq(Backends) /\ Len(backend') = Len(backend)
    /\ \A i \in 1..Len(backend) :
         /\ backend'[i].runs = backend[i].runs
         /\ backend'[i].status = IF i = b THEN s ELSE backend[i].status

LEMMA Marking ==
    ASSUME RuntimeTypes, NEW b \in 1..Len(backend), NEW s \in Statuses,
           backend' = [backend EXCEPT ![b].status = s]
    PROVE  Marks(b, s)
BY StatusSet DEF Marks, RuntimeTypes

LEMMA OwnedBackend ==
    ASSUME RuntimeTypes, BackendsHeld, NEW t \in Threads,
           pc[t] \in Owning, work[t].backend # Nobody
    PROVE  work[t].backend \in 1..Len(backend)
BY DEF BackendsHeld, OwnersHold, Nobody, RuntimeTypes

LEMMA UnpublishableMarks ==
    ASSUME RuntimeTypes, BackendsHeld, NEW t \in Threads, Unpublishable(t)
    PROVE  Marks(work[t].backend, "closed")
<1>1. work[t].backend \in 1..Len(backend)
    BY OwnedBackend DEF Unpublishable, Owning, BackendsHeld, OwnersHold
<1>2. backend' = [backend EXCEPT ![work[t].backend].status = "closed"]
    BY DEF Unpublishable
<1>3. QED
    BY <1>1, <1>2, Marking DEF Statuses

LEMMA RetireMarks ==
    ASSUME RuntimeTypes, BackendsHeld, NEW t \in Threads, Retire(t)
    PROVE  Marks(work[t].backend, "closing")
<1>1. work[t].backend \in 1..Len(backend)
    BY OwnedBackend DEF Retire, Owning
<1>2. backend' = [backend EXCEPT ![work[t].backend].status = "closing"]
    BY DEF Retire
<1>3. QED
    BY <1>1, <1>2, Marking DEF Statuses

LEMMA RetiredMarks ==
    ASSUME RuntimeTypes, BackendsHeld, NEW t \in Threads, Retired(t)
    PROVE  \/ /\ pc[t] = "retire" /\ work[t].backend = Nobody
              /\ UNCHANGED backend
           \/ /\ pc[t] = "retiring" /\ work[t].backend # Nobody
              /\ Marks(work[t].backend, "closed")
<1>1. CASE pc[t] = "retiring"
    <2>1. work[t].backend \in 1..Len(backend) /\ work[t].backend # Nobody
        BY <1>1, OwnedBackend DEF Owning, BackendsHeld, OwnersHold
    <2>2. backend' = [backend EXCEPT ![work[t].backend].status = "closed"]
        BY <1>1 DEF Retired
    <2>3. QED
        BY <1>1, <2>1, <2>2, Marking DEF Statuses
<1>2. CASE pc[t] # "retiring"
    BY <1>2 DEF Retired
<1>3. QED
    BY <1>1, <1>2

LEMMA RetireInterruptedMarks ==
    ASSUME RuntimeTypes, BackendsHeld, NEW t \in Threads, RetireInterrupted(t)
    PROVE  work[t].backend # Nobody /\ Marks(work[t].backend, "abandoned")
<1>1. work[t].backend \in 1..Len(backend) /\ work[t].backend # Nobody
    BY OwnedBackend DEF RetireInterrupted, Owning, BackendsHeld, OwnersHold
<1>2. backend' = [backend EXCEPT ![work[t].backend].status = "abandoned"]
    BY DEF RetireInterrupted
<1>3. QED
    BY <1>1, <1>2, Marking DEF Statuses

LEMMA CloseMarks ==
    ASSUME RuntimeTypes, NEW t \in Threads, CloseBackends(t)
    PROVE  \/ /\ isolated = Nobody /\ UNCHANGED backend
              /\ pc' = [pc EXCEPT ![t] = "reset"]
           \/ /\ isolated # Nobody /\ Marks(isolated, "closing")
              /\ pc' = [pc EXCEPT ![t] = "stop"]
<1>1. CASE isolated # Nobody
    <2>1. isolated \in 1..Len(backend)
        BY <1>1 DEF RuntimeTypes, Nobody
    <2>2. /\ backend' = [backend EXCEPT ![isolated].status = "closing"]
          /\ pc' = [pc EXCEPT ![t] = "stop"]
        BY <1>1 DEF CloseBackends, Go
    <2>3. QED
        BY <1>1, <2>1, <2>2, Marking DEF Statuses
<1>2. CASE isolated = Nobody
    BY <1>2 DEF CloseBackends, Go
<1>3. QED
    BY <1>1, <1>2

LEMMA StopMarks ==
    ASSUME RuntimeTypes, BackendsHeld, NEW t \in Threads
    PROVE  /\ Stopped(t) => isolated # Nobody /\ Marks(isolated, "closed")
           /\ StopInterrupted(t) =>
                isolated # Nobody /\ Marks(isolated, "abandoned")
<1>1. pc[t] = "stop" => isolated # Nobody /\ isolated \in 1..Len(backend)
    BY DEF BackendsHeld, TableOpen, RuntimeTypes, Nobody
<1>2. CASE Stopped(t)
    <2>1. backend' = [backend EXCEPT ![isolated].status = "closed"]
        BY <1>2 DEF Stopped
    <2>2. isolated # Nobody /\ Marks(isolated, "closed")
        BY <1>1, <1>2, <2>1, Marking DEF Statuses, Stopped
    <2>3. ~StopInterrupted(t) \/ Marks(isolated, "abandoned")
        <3>1. StopInterrupted(t) =>
                 backend' = [backend EXCEPT ![isolated].status = "abandoned"]
            BY DEF StopInterrupted
        <3>2. QED
            BY <1>1, <1>2, <3>1, Marking DEF Statuses, Stopped
    <2>4. QED
        BY <2>2, <2>3
<1>3. CASE ~Stopped(t)
    <2>1. StopInterrupted(t) =>
             backend' = [backend EXCEPT ![isolated].status = "abandoned"]
        BY DEF StopInterrupted
    <2>2. QED
        BY <1>1, <1>3, <2>1, Marking DEF Statuses, StopInterrupted
<1>4. QED
    BY <1>2, <1>3

(* What the operations on the catalog change.                              *)
LEMMA CatalogTypes ==
    ASSUME RuntimeTypes, CatalogStep
    PROVE  /\ RuntimeTypes'
           /\ UNCHANGED <<state, activeWork, closes, isolated, backend,
                          graphs, threadVars>>
<1> USE RuntimeAssumption, TableIsFunction
    DEF RuntimeTypes, NextGeneration, Republished, bundledVars, catalogVars,
        threadVars
<1>1. ASSUME NEW c \in Catalogs
      PROVE  /\ c \in Contents /\ DOMAIN c \subseteq Plugins
             /\ AllEmpty(c) \in Snapshots /\ DOMAIN AllEmpty(c) = DOMAIN c
    <2>1. c \in Contents /\ DOMAIN c \subseteq Plugins
        OBVIOUS
    <2>2. AllEmpty(c) \in [DOMAIN c -> Configs]
        BY DEF AllEmpty
    <2>3. QED
        BY <2>1, <2>2 DEF AllEmpty
<1>2. ASSUME NEW c \in Catalogs, LoadPlugins(c)
      PROVE  RuntimeTypes' /\ UNCHANGED <<state, activeWork, closes, isolated,
                                          backend, graphs, threadVars>>
    <2>1. providers' \in Snapshots /\ published' \subseteq Plugins
        BY <1>1, <1>2, InitializedTyped DEF LoadPlugins
    <2>2. QED
        BY <1>1, <1>2, <2>1 DEF LoadPlugins
<1>3. ASSUME NEW c \in Catalogs, LoadFails(c)
      PROVE  RuntimeTypes' /\ UNCHANGED <<state, activeWork, closes, isolated,
                                          backend, graphs, threadVars>>
    <2>1. providers' \in Snapshots
        BY <1>1, <1>3, InitializedTyped DEF LoadFails
    <2>2. QED
        BY <1>3, <2>1 DEF LoadFails
<1>4. ASSUME NEW p \in Plugins, NEW c \in Configs, ConfigurePlugin(p, c)
      PROVE  RuntimeTypes' /\ UNCHANGED <<state, activeWork, closes, isolated,
                                          backend, graphs, threadVars>>
    <2>1. configurations' \in [DOMAIN configurations -> Configs]
        BY <1>4 DEF ConfigurePlugin
    <2>2. configurations' \in Snapshots /\ DOMAIN configurations' = DOMAIN manifests
        BY <2>1
    <2>3. QED
        BY <1>4, <2>2 DEF ConfigurePlugin
<1>5. CASE ConfigureBundled
    BY <1>5, EmptyTable DEF ConfigureBundled
<1>6. CASE UseIsolated
    BY <1>6 DEF UseIsolated
<1>7. CASE UseBundled
    <2>1. providers' \in Snapshots /\ published' \subseteq Plugins
        BY <1>7, InitializedTyped DEF UseBundled
    <2>2. initialized' \subseteq Plugins
        BY <1>7 DEF UseBundled
    <2>3. QED
        BY <1>7, <2>1, <2>2 DEF UseBundled
<1>8. CASE UseBundledFails
    <2>1. providers' \in Snapshots
        BY <1>8, InitializedTyped DEF UseBundledFails
    <2>2. QED
        BY <1>8, <2>1 DEF UseBundledFails
<1>9. QED
    BY <1>2, <1>3, <1>4, <1>5, <1>6, <1>7, <1>8 DEF CatalogStep

(* Types, and that a discovery carries a configuration per plugin found.   *)
LEMMA TypesPreserved ==
    ASSUME RuntimeTypes, Carried, BackendsHeld, CallsCurrent, [Next]_vars
    PROVE  RuntimeTypes' /\ Carried'
<1> DEFINE Goal == RuntimeTypes' /\ Carried'
<1> USE DEF RuntimeTypes, Carried, Go, Stages, Calling, Discovering, Closing,
            NextGeneration, NextClose, bundledVars, catalogVars, threadVars
<1>0. ASSUME NEW t \in Threads
      PROVE  /\ work[t] \in Works
             /\ work[t].backend \in Int /\ work[t].generation \in Nat
             /\ work[t].catalog \in Contents
             /\ work[t].configurations \in Snapshots
    BY WorkFields
<1>1. CASE CatalogStep
    BY <1>1, CatalogTypes
<1>2. ASSUME NEW b \in {Selected}
      PROVE  /\ [Nothing EXCEPT !.backend = b, !.generation = generation]
                   \in Works
             /\ Nothing \in Works
    <2>1. b \in Int /\ generation \in Nat
        BY DEF Selected, InProcess
    <2>2. QED
        BY <2>1, CallGiven, NothingTyped, Zenon
<1>3. ASSUME NEW t \in Threads, NEW p \in SUBSET Plugins, Invoke(t, p)
      PROVE  Goal
    BY <1>2, <1>3 DEF Invoke, Accept
<1>4. ASSUME NEW t \in Threads, ConstructTensor(t) PROVE Goal
    BY <1>2, <1>4 DEF ConstructTensor, Accept
<1>5. ASSUME NEW t \in Threads, NEW p \in Plugins, Resolve(t, p) PROVE Goal
    <2>1. Metadata(p) \in Int
        BY TableIsFunction DEF Metadata
    <2>2. [Nothing EXCEPT !.generation = generation, !.plugin = p,
                          !.metadata = Metadata(p)] \in Works
        <3>1. p \in Int /\ generation \in Nat
            BY RuntimeAssumption
        <3>2. QED
            BY <2>1, <3>1, OperationGiven, Zenon
    <2>3. QED
        BY <1>5, <2>2 DEF Resolve
<1>6. ASSUME NEW t \in Threads, InvokeRegistered(t) PROVE Goal
    <2>1. initialized' \subseteq Plugins
        BY <1>6, TableIsFunction DEF InvokeRegistered
    <2>2. /\ work' \in [Threads -> Works] /\ pc' \in [Threads -> Stages]
          /\ \A u \in Threads : pc'[u] \in {"start", "swap"} =>
               pc'[u] = pc[u] /\ work'[u] = work[u]
        BY <1>2, <1>6 DEF InvokeRegistered
    <2>3. activeWork' \in Int
        BY <1>6 DEF InvokeRegistered
    <2>4. UNCHANGED <<state, closes, generation, selected, manifests,
                      configurations, isolated, backend, graphs, bundledVars>>
        BY <1>6 DEF InvokeRegistered
    <2>5. QED
        BY <2>1, <2>2, <2>3, <2>4
<1>7. ASSUME NEW t \in Threads, InvokeStale(t) PROVE Goal
    BY <1>7, NothingTyped DEF InvokeStale
<1>8. ASSUME NEW t \in Threads, CallBegins(t) PROVE Goal
    BY <1>8 DEF CallBegins
<1>9. ASSUME NEW t \in Threads, CallRefused(t) PROVE Goal
    BY <1>9, NothingTyped DEF CallRefused, Finish
<1>10. ASSUME NEW t \in Threads, CallReturns(t) PROVE Goal
    <2>1. graphs' \subseteq Int
        BY <1>0, <1>10 DEF CallReturns
    <2>2. QED
        BY <1>10, <2>1, NothingTyped DEF CallReturns, Finish
<1>11. ASSUME NEW t \in Threads, NEW c \in Catalogs, Discover(t, c)
       PROVE  Goal
    BY <1>11, CatalogGiven, TableIsFunction DEF Discover, Accept
<1>12. ASSUME NEW t \in Threads, DiscoverFails(t) PROVE Goal
    BY <1>12, NothingTyped DEF DiscoverFails, Finish
<1>13. ASSUME NEW t \in Threads, Snapshot(t) PROVE Goal
    <2> DEFINE new == [p \in DOMAIN work[t].catalog |->
                         ConfigurationFor(p, work[t].catalog[p])]
    <2>1. \A p \in DOMAIN work[t].catalog :
             ConfigurationFor(p, work[t].catalog[p]) \in Configs
        BY TableIsFunction, RuntimeAssumption DEF ConfigurationFor
    <2>2. new \in [DOMAIN work[t].catalog -> Configs]
        BY <2>1
    <2>3. new \in Snapshots /\ DOMAIN new = DOMAIN work[t].catalog
        BY <1>0, <2>2, TableIsFunction
    <2> HIDE DEF new
    <2>4. /\ [work[t] EXCEPT !.configurations = new] \in Works
          /\ [work[t] EXCEPT !.configurations = new].configurations = new
          /\ [work[t] EXCEPT !.configurations = new].catalog = work[t].catalog
        BY <1>0, <2>3, ConfigurationsGiven
    <2>5. /\ work' = [work EXCEPT ![t] =
                        [work[t] EXCEPT !.configurations = new]]
          /\ pc' = [pc EXCEPT ![t] = "start"]
          /\ UNCHANGED <<state, activeWork, closes, catalogVars, backend,
                         graphs, bundledVars>>
        BY <1>13 DEF Snapshot, new
    <2>6. QED
        BY <2>3, <2>4, <2>5
<1>14. ASSUME NEW t \in Threads, StartWorkers(t) PROVE Goal
    <2>1. backend' \in Seq(Backends) /\ Len(backend') = Len(backend) + 1
        BY <1>0, <1>14, Started DEF StartWorkers
    <2> DEFINE n == Len(backend')
               new == [work[t] EXCEPT !.backend = n]
    <2>2. n \in Int
        BY <2>1
    <2>3. work' = [work EXCEPT ![t] = new] /\ pc' = [pc EXCEPT ![t] = "swap"]
        BY <1>14 DEF StartWorkers
    <2>4. /\ pc[t] = "start"
          /\ UNCHANGED <<state, activeWork, closes, catalogVars, graphs,
                         bundledVars>>
        BY <1>14 DEF StartWorkers
    <2> HIDE DEF n
    <2>5. /\ new \in Works /\ new.configurations = work[t].configurations
          /\ new.catalog = work[t].catalog
        BY <1>0, <2>2, BackendGiven
    <2> HIDE DEF new
    <2>6. QED
        BY <2>1, <2>3, <2>4, <2>5
<1>15. ASSUME NEW t \in Threads, Unpublishable(t) PROVE Goal
    <2>1. backend' \in Seq(Backends) /\ Len(backend') = Len(backend)
        BY <1>15, UnpublishableMarks DEF Marks
    <2>2. QED
        BY <1>15, <2>1, NothingTyped DEF Unpublishable, Finish
<1>16. ASSUME NEW t \in Threads, Swap(t) PROVE Goal
    <2>1. [Nothing EXCEPT !.backend = isolated] \in Works
        BY NothingTyped, BackendGiven
    <2>2. work[t].backend \in 0..Len(backend)
        BY <1>16 DEF Swap, BackendsHeld, OwnersHold, Owning
    <2>3. DOMAIN work[t].catalog \subseteq Plugins
        BY <1>0, TableIsFunction
    <2>4. QED
        BY <1>0, <1>16, <2>1, <2>2, <2>3 DEF Swap, Replaced
<1>17. ASSUME NEW t \in Threads, Retire(t) PROVE Goal
    <2>1. backend' \in Seq(Backends) /\ Len(backend') = Len(backend)
        BY <1>17, RetireMarks DEF Marks
    <2>2. QED
        BY <1>17, <2>1 DEF Retire
<1>18. ASSUME NEW t \in Threads, Retired(t) PROVE Goal
    <2>1. backend' \in Seq(Backends) /\ Len(backend') = Len(backend)
        BY <1>18, RetiredMarks DEF Marks
    <2>2. QED
        BY <1>18, <2>1, NothingTyped DEF Retired, Finish
<1>19. ASSUME NEW t \in Threads, Close(t) PROVE Goal
    BY <1>19 DEF Close
<1>20. ASSUME NEW t \in Threads, CloseJoins(t) PROVE Goal
    <2>1. [work[t] EXCEPT !.generation = closes] \in Works
        BY <1>0, GenerationKept
    <2>2. work' = [work EXCEPT ![t] = [work[t] EXCEPT !.generation = closes]]
        BY <1>20 DEF CloseJoins
    <2>3. QED
        BY <1>20, <2>1, <2>2 DEF CloseJoins
<1>21. ASSUME NEW t \in Threads, CloseJoined(t) PROVE Goal
    BY <1>21, NothingTyped DEF CloseJoined
<1>22. ASSUME NEW t \in Threads, WaitInterrupted(t) PROVE Goal
    BY <1>22, NothingTyped DEF WaitInterrupted
<1>23. ASSUME NEW t \in Threads, Drained(t) PROVE Goal
    BY <1>23 DEF Drained
<1>24. ASSUME NEW t \in Threads, CloseBackends(t) PROVE Goal
    <2>1. backend' \in Seq(Backends) /\ Len(backend') = Len(backend)
        BY <1>24, CloseMarks DEF Marks
    <2>2. QED
        BY <1>24, <2>1, EmptyTable DEF CloseBackends
<1>25. ASSUME NEW t \in Threads, Reset(t) PROVE Goal
    BY <1>25, EmptyTable DEF Reset, Nobody
<1>26. CASE UNCHANGED vars
    BY <1>26 DEF vars
<1>28. ASSUME NEW t \in Threads, NEW b \in graphs, Backward(t, b) PROVE Goal
    <2>1. [Nothing EXCEPT !.backend = b] \in Works
        BY NothingTyped, BackendGiven
    <2>2. QED
        BY <1>28, <2>1 DEF Backward
<1>29. ASSUME NEW t \in Threads, BackwardReturns(t) PROVE Goal
    BY <1>29, NothingTyped DEF BackwardReturns
<1>30. ASSUME NEW t \in Threads, RetireInterrupted(t) PROVE Goal
    <2>1. backend' \in Seq(Backends) /\ Len(backend') = Len(backend)
        BY <1>30, RetireInterruptedMarks DEF Marks
    <2>2. QED
        BY <1>30, <2>1, NothingTyped DEF RetireInterrupted, Finish
<1>31. ASSUME NEW t \in Threads, Stopped(t) \/ StopInterrupted(t) PROVE Goal
    <2>1. backend' \in Seq(Backends) /\ Len(backend') = Len(backend)
        BY <1>31, StopMarks DEF Marks
    <2>2. QED
        BY <1>31, <2>1 DEF Stopped, StopInterrupted
<1>27. QED
    <2> HIDE DEF RuntimeTypes, Carried
    <2>1. QED
        BY StepCases, <1>1, <1>3, <1>4, <1>5, <1>6, <1>7, <1>8, <1>9, <1>10,
           <1>11, <1>12, <1>13, <1>14, <1>15, <1>16, <1>17, <1>18, <1>19,
           <1>20, <1>21, <1>22, <1>23, <1>24, <1>25, <1>26, <1>28, <1>29,
           <1>30, <1>31, Zenon

-----------------------------------------------------------------------------
(* The threads at work are counted when they come and go.                  *)
LEMMA WorkEnters ==
    ASSUME RuntimeTypes, WorkCounted, NEW t \in Threads,
           pc[t] \notin Calling \cup Discovering,
           NEW s \in Calling \cup Discovering, pc' = [pc EXCEPT ![t] = s],
           activeWork' = activeWork + 1
    PROVE  WorkCounted'
<1>1. Working' = Working \cup {t} /\ t \notin Working
    BY DEF Working, RuntimeTypes
<1>2. IsFiniteSet(Working)
    BY FS_Subset, RuntimeAssumption DEF Working
<1>3. Cardinality(Working \cup {t}) = Cardinality(Working) + 1
    BY <1>1, <1>2, FS_AddElement
<1>4. QED
    BY <1>1, <1>3 DEF WorkCounted

LEMMA WorkLeaves ==
    ASSUME RuntimeTypes, WorkCounted, NEW t \in Threads,
           pc[t] \in Calling \cup Discovering,
           NEW s, s \notin Calling \cup Discovering,
           pc' = [pc EXCEPT ![t] = s], activeWork' = activeWork - 1
    PROVE  WorkCounted' /\ Working' \subseteq Working
<1>1. Working' = Working \ {t} /\ t \in Working
    BY DEF Working, RuntimeTypes
<1>2. IsFiniteSet(Working)
    BY FS_Subset, RuntimeAssumption DEF Working
<1>3. Cardinality(Working \ {t}) = Cardinality(Working) - 1
    BY <1>1, <1>2, FS_RemoveElement
<1>4. QED
    BY <1>1, <1>3 DEF WorkCounted

LEMMA WorkStays ==
    ASSUME RuntimeTypes, WorkCounted, NEW t \in Threads, NEW s,
           pc[t] \in Calling \cup Discovering
             <=> s \in Calling \cup Discovering,
           pc' = [pc EXCEPT ![t] = s], activeWork' = activeWork
    PROVE  WorkCounted' /\ Working' = Working
<1>1. Working' = Working
    BY DEF Working, RuntimeTypes
<1>2. QED
    BY <1>1 DEF WorkCounted

LEMMA NobodyWorks ==
    ASSUME WorkCounted, NoWork
    PROVE  Working = {}
<1>1. IsFiniteSet(Working)
    BY FS_Subset, RuntimeAssumption DEF Working
<1>2. QED
    BY <1>1, FS_EmptySet DEF WorkCounted, NoWork

(* The counter is right, and there is one closer, alone once it has waited.*)
LEMMA CountPreserved ==
    ASSUME RuntimeTypes, WorkCounted, OneCloser, [Next]_vars
    PROVE  WorkCounted' /\ OneCloser'
<1> DEFINE Goal == WorkCounted' /\ OneCloser'
<1>1. CASE CatalogStep
    BY <1>1, CatalogTypes DEF WorkCounted, OneCloser, Working, threadVars
<1>2. ASSUME NEW t \in Threads, NEW s \in {"call", "find"}, state = "open",
             pc[t] \in {"idle", "bound"}, pc' = [pc EXCEPT ![t] = s],
             activeWork' = activeWork + 1, state' = state
      PROVE  Goal
    <2>1. WorkCounted'
        BY <1>2, WorkEnters DEF Calling, Discovering
    <2>2. \A u \in Threads : pc'[u] \notin Closing
        BY <1>2 DEF OneCloser, Closing, RuntimeTypes
    <2>3. QED
        BY <2>1, <2>2 DEF OneCloser, Closing
<1>3. ASSUME NEW t \in Threads, pc[t] \in Calling \cup Discovering,
             pc' = [pc EXCEPT ![t] = "idle"], activeWork' = activeWork - 1,
             state' = state
      PROVE  Goal
    <2>1. WorkCounted' /\ Working' \subseteq Working
        BY <1>3, WorkLeaves DEF Calling, Discovering
    <2>2. \A u \in Threads : pc'[u] # "idle" => pc'[u] = pc[u]
        BY <1>3 DEF RuntimeTypes
    <2>3. QED
        BY <1>3, <2>1, <2>2 DEF OneCloser, Closing
<1>4. ASSUME NEW t \in Threads, NEW s \in Stages, s \notin Closing,
             pc[t] \in Calling \cup Discovering
               <=> s \in Calling \cup Discovering,
             pc' = [pc EXCEPT ![t] = s], activeWork' = activeWork,
             state' = state
      PROVE  Goal
    <2>1. WorkCounted' /\ Working' = Working
        BY <1>4, WorkStays
    <2>2. \A u \in Threads : pc'[u] \in Closing => pc'[u] = pc[u]
        BY <1>4 DEF RuntimeTypes
    <2>3. QED
        BY <1>4, <2>1, <2>2 DEF OneCloser, Closing
<1> USE DEF Go, Calling, Discovering, Closing, Stages
<1>5. ASSUME NEW t \in Threads, NEW p \in SUBSET Plugins, Invoke(t, p)
      PROVE  Goal
    BY <1>2, <1>5 DEF Invoke, Accept
<1>6. ASSUME NEW t \in Threads, ConstructTensor(t) PROVE Goal
    BY <1>2, <1>6 DEF ConstructTensor, Accept
<1>7. ASSUME NEW t \in Threads, InvokeRegistered(t) PROVE Goal
    BY <1>2, <1>7 DEF InvokeRegistered
<1>8. ASSUME NEW t \in Threads, NEW c \in Catalogs, Discover(t, c) PROVE Goal
    BY <1>2, <1>8 DEF Discover, Accept
<1>9. ASSUME NEW t \in Threads,
             CallRefused(t) \/ CallReturns(t) \/ DiscoverFails(t)
      PROVE  Goal
    BY <1>3, <1>9 DEF CallRefused, CallReturns, DiscoverFails, Finish
<1>10. ASSUME NEW t \in Threads,
              Unpublishable(t) \/ Retired(t) \/ RetireInterrupted(t)
       PROVE  Goal
    BY <1>3, <1>10 DEF Unpublishable, Retired, RetireInterrupted, Finish
<1>11. ASSUME NEW t \in Threads, NEW p \in Plugins, Resolve(t, p) PROVE Goal
    BY <1>4, <1>11 DEF Resolve
<1>12. ASSUME NEW t \in Threads,
              InvokeStale(t) \/ CloseJoins(t) \/ CloseJoined(t)
       PROVE  Goal
    BY <1>4, <1>12 DEF InvokeStale, CloseJoins, CloseJoined
<1>13. ASSUME NEW t \in Threads, WaitInterrupted(t) PROVE Goal
    BY <1>4, <1>13 DEF WaitInterrupted
<1>14. ASSUME NEW t \in Threads, CallBegins(t) \/ Snapshot(t) PROVE Goal
    BY <1>4, <1>14 DEF CallBegins, Snapshot
<1>15. ASSUME NEW t \in Threads, StartWorkers(t) \/ Swap(t) \/ Retire(t)
       PROVE  Goal
    BY <1>4, <1>15 DEF StartWorkers, Swap, Retire
<1>16. ASSUME NEW t \in Threads, Close(t) PROVE Goal
    <2>1. WorkCounted'
        BY <1>16, WorkStays DEF Close
    <2>2. \A u \in Threads : pc'[u] \in Closing => u = t /\ pc'[u] = "drain"
        BY <1>16 DEF Close, OneCloser, RuntimeTypes
    <2>3. QED
        BY <1>16, <2>1, <2>2 DEF OneCloser, Close
<1>17. ASSUME NEW t \in Threads, Drained(t) PROVE Goal
    <2>1. WorkCounted' /\ Working' = Working
        BY <1>17, WorkStays DEF Drained
    <2>2. Working = {}
        BY <1>17, NobodyWorks DEF Drained
    <2>3. \A u \in Threads : pc'[u] \in Closing <=> pc[u] \in Closing
        BY <1>17 DEF Drained, RuntimeTypes
    <2>4. QED
        BY <1>17, <2>1, <2>2, <2>3 DEF OneCloser, Drained
<1>18. ASSUME NEW t \in Threads, pc[t] \in {"shut", "stop"},
              NEW s \in {"stop", "reset"}, pc' = [pc EXCEPT ![t] = s],
              UNCHANGED <<state, activeWork>>
       PROVE  Goal
    <2>1. WorkCounted' /\ Working' = Working
        BY <1>18, WorkStays
    <2>2. Working = {}
        BY <1>18 DEF OneCloser
    <2>3. \A u \in Threads : pc'[u] \in Closing <=> pc[u] \in Closing
        BY <1>18 DEF RuntimeTypes
    <2>4. QED
        BY <1>18, <2>1, <2>2, <2>3 DEF OneCloser
<1>22. ASSUME NEW t \in Threads, CloseBackends(t) PROVE Goal
    BY <1>18, <1>22 DEF CloseBackends
<1>23. ASSUME NEW t \in Threads, Stopped(t) \/ StopInterrupted(t) PROVE Goal
    BY <1>18, <1>23 DEF Stopped, StopInterrupted
<1>24. ASSUME NEW t \in Threads, NEW b \in graphs, Backward(t, b) PROVE Goal
    BY <1>4, <1>24 DEF Backward
<1>25. ASSUME NEW t \in Threads, BackwardReturns(t) PROVE Goal
    BY <1>4, <1>25 DEF BackwardReturns
<1>19. ASSUME NEW t \in Threads, Reset(t) PROVE Goal
    <2>1. WorkCounted'
        BY <1>19, WorkStays DEF Reset
    <2>2. \A u \in Threads : pc'[u] \notin Closing
        BY <1>19 DEF Reset, OneCloser, RuntimeTypes
    <2>3. QED
        BY <2>1, <2>2 DEF OneCloser
<1>20. CASE UNCHANGED vars
    BY <1>20 DEF vars, WorkCounted, OneCloser, Working, threadVars
<1>21. QED
    BY StepCases, <1>1, <1>5, <1>6, <1>7, <1>8, <1>9, <1>10, <1>11, <1>12,
       <1>13, <1>14, <1>15, <1>16, <1>17, <1>19, <1>20, <1>22, <1>23,
       <1>24, <1>25, Zenon

-----------------------------------------------------------------------------
(* Every isolated backend that is in use or being closed has one owner.    *)
LEMMA HeldPreserved ==
    ASSUME RuntimeTypes, OneCloser, BackendsHeld, [Next]_vars
    PROVE  BackendsHeld'
<1> USE DEF RuntimeTypes, BackendsHeld, Nobody
<1>1. CASE CatalogStep
    <2>1. UNCHANGED <<isolated, backend, pc, work>>
        BY <1>1, CatalogTypes DEF threadVars
    <2>2. SelectedStarted'
        BY <1>1 DEF CatalogStep, LoadPlugins, LoadFails, ConfigurePlugin,
           ConfigureBundled, UseIsolated, UseBundled, UseBundledFails,
           SelectedStarted, catalogVars
    <2>3. QED
        BY <2>1, <2>2
        DEF TableOpen, OwnersHold, OwnersApart, BackendsOwned
<1>2. ASSUME NEW t \in Threads, NEW s, s \notin Owning \cup {"stop", "reset"},
             pc[t] \notin Owning \cup {"stop", "reset"},
             pc' = [pc EXCEPT ![t] = s],
             \A u \in Threads \ {t} : work'[u] = work[u],
             UNCHANGED <<selected, isolated, backend>>
      PROVE  BackendsHeld'
    <2>1. \A u \in Threads : pc'[u] \in Owning \cup {"stop", "reset"}
             <=> pc[u] \in Owning \cup {"stop", "reset"}
        BY <1>2
    <2>2. \A u \in Threads : pc[u] \in Owning \cup {"stop", "reset"} =>
             u # t /\ pc'[u] = pc[u] /\ work'[u] = work[u]
        BY <1>2
    <2>3. SelectedStarted' /\ TableOpen'
        BY <1>2, <2>1, <2>2 DEF SelectedStarted, TableOpen
    <2>4. OwnersHold'
        BY <1>2, <2>1, <2>2 DEF OwnersHold
    <2>5. OwnersApart'
        BY <1>2, <2>1, <2>2 DEF OwnersApart
    <2>6. BackendsOwned'
        BY <1>2, <2>1, <2>2 DEF BackendsOwned, Owning
    <2>7. QED
        BY <2>3, <2>4, <2>5, <2>6
<1>3. ASSUME NEW t \in Threads, NEW p \in SUBSET Plugins, Invoke(t, p)
      PROVE  BackendsHeld'
    BY <1>2, <1>3 DEF Invoke, Accept, Go, Owning
<1>4. ASSUME NEW t \in Threads, NEW p \in Plugins, Resolve(t, p)
      PROVE  BackendsHeld'
    BY <1>2, <1>4 DEF Resolve, Go, Owning, catalogVars
<1>5. ASSUME NEW t \in Threads, NEW c \in Catalogs, Discover(t, c)
      PROVE  BackendsHeld'
    BY <1>2, <1>5 DEF Discover, Accept, Go, Owning, catalogVars
<1>6. ASSUME NEW t \in Threads, ConstructTensor(t) PROVE BackendsHeld'
    BY <1>2, <1>6 DEF ConstructTensor, Accept, Go, Owning, catalogVars
<1>7. ASSUME NEW t \in Threads, InvokeRegistered(t) PROVE BackendsHeld'
    BY <1>2, <1>7 DEF InvokeRegistered, Go, Owning
<1>8. ASSUME NEW t \in Threads, InvokeStale(t) PROVE BackendsHeld'
    BY <1>2, <1>8 DEF InvokeStale, Go, Owning, catalogVars
<1>9. ASSUME NEW t \in Threads, CallBegins(t) PROVE BackendsHeld'
    BY <1>2, <1>9 DEF CallBegins, Go, Owning, catalogVars
<1>10. ASSUME NEW t \in Threads,
              CallRefused(t) \/ CallReturns(t) \/ DiscoverFails(t)
       PROVE  BackendsHeld'
    BY <1>2, <1>10
    DEF CallRefused, CallReturns, DiscoverFails, Finish, Go, Owning, catalogVars
<1>11. ASSUME NEW t \in Threads, Snapshot(t) PROVE BackendsHeld'
    BY <1>2, <1>11 DEF Snapshot, Go, Owning, catalogVars
<1>12. ASSUME NEW t \in Threads, Close(t) \/ CloseJoins(t) \/ CloseJoined(t)
       PROVE  BackendsHeld'
    BY <1>2, <1>12
    DEF Close, CloseJoins, CloseJoined, Go, Owning, catalogVars
<1>13. ASSUME NEW t \in Threads, WaitInterrupted(t) \/ Drained(t)
       PROVE  BackendsHeld'
    BY <1>2, <1>13 DEF WaitInterrupted, Drained, Go, Owning, catalogVars
<1>14. ASSUME NEW t \in Threads, StartWorkers(t) PROVE BackendsHeld'
    <2>1. /\ backend' \in Seq(Backends) /\ Len(backend') = Len(backend) + 1
          /\ \A i \in 1..Len(backend) : backend'[i] = backend[i]
          /\ backend'[Len(backend) + 1].status = "open"
        <3>1. work[t].configurations \in Snapshots
            BY WorkFields
        <3>2. QED
            BY <1>14, <3>1, Started DEF StartWorkers
    <2>2. /\ pc[t] = "start" /\ pc' = [pc EXCEPT ![t] = "swap"]
          /\ UNCHANGED <<selected, isolated>>
        BY <1>14 DEF StartWorkers, Go, catalogVars
    <2>3. /\ work'[t].backend = Len(backend) + 1
          /\ \A u \in Threads \ {t} : work'[u] = work[u]
        <3>1. work' = [work EXCEPT ![t] =
                         [work[t] EXCEPT !.backend = Len(backend')]]
            BY <1>14 DEF StartWorkers
        <3>2. work'[t] = [work[t] EXCEPT !.backend = Len(backend')]
            BY <3>1
        <3>3. [work[t] EXCEPT !.backend = Len(backend')].backend = Len(backend')
            BY <2>1, BackendGiven
        <3>4. QED
            BY <2>1, <3>1, <3>2, <3>3
    <2>4. SelectedStarted' /\ TableOpen'
        BY <2>1, <2>2 DEF SelectedStarted, TableOpen
    <2>5. OwnersHold'
        BY <2>1, <2>2, <2>3 DEF OwnersHold, Owning
    <2>6. OwnersApart'
        BY <2>1, <2>2, <2>3 DEF OwnersApart, OwnersHold, Owning
    <2>7. BackendsOwned'
        BY <2>1, <2>2, <2>3 DEF BackendsOwned
    <2>8. QED
        BY <2>4, <2>5, <2>6, <2>7
<1>15. ASSUME NEW t \in Threads, pc[t] \in Owning, work[t].backend # Nobody,
              NEW s \in {"idle", "retiring"},
              NEW v \in {"closing", "closed", "abandoned"},
              s = "idle" => v # "closing",
              pc' = [pc EXCEPT ![t] = s],
              \A u \in Threads \ {t} : work'[u] = work[u],
              s = "retiring" => work' = work,
              Marks(work[t].backend, v), UNCHANGED <<selected, isolated>>
       PROVE  BackendsHeld'
    <2>1. \A u \in Threads \ {t} :
             pc'[u] = pc[u] /\ work'[u] = work[u]
        BY <1>15
    <2>2. pc'[t] = s
        BY <1>15
    <2>3. work[t].backend # isolated /\ work[t].backend \in 1..Len(backend)
        BY <1>15, OwnedBackend DEF OwnersApart
    <2>4. SelectedStarted' /\ TableOpen'
        BY <1>15, <2>1, <2>2, <2>3
        DEF SelectedStarted, TableOpen, Marks, Owning
    <2>5. OwnersHold'
        <3>1. ASSUME NEW u \in Threads \ {t}, pc[u] \in Owning
              PROVE  work[u].backend # work[t].backend
            BY <1>15, <3>1 DEF OwnersApart
        <3>2. QED
            BY <1>15, <2>1, <2>2, <2>3, <3>1 DEF OwnersHold, Marks, Owning
    <2>6. OwnersApart'
        BY <1>15, <2>1, <2>2 DEF OwnersApart, Owning
    <2>7. BackendsOwned'
        BY <1>15, <2>1, <2>2 DEF BackendsOwned, Marks, Owning
    <2>8. QED
        BY <2>4, <2>5, <2>6, <2>7
<1>16. ASSUME NEW t \in Threads, Unpublishable(t) PROVE BackendsHeld'
    <2>1. Marks(work[t].backend, "closed") /\ work[t].backend # Nobody
        BY <1>16, UnpublishableMarks DEF Unpublishable, OwnersHold, Owning
    <2>2. QED
        BY <1>15, <1>16, <2>1
        DEF Unpublishable, Finish, Go, Owning, catalogVars
<1>17. ASSUME NEW t \in Threads, Retire(t) PROVE BackendsHeld'
    <2>1. Marks(work[t].backend, "closing")
        BY <1>17, RetireMarks
    <2>2. QED
        BY <1>15, <1>17, <2>1 DEF Retire, Go, Owning, catalogVars
<1>18. ASSUME NEW t \in Threads, Retired(t) PROVE BackendsHeld'
    <2>1. /\ pc' = [pc EXCEPT ![t] = "idle"]
          /\ \A u \in Threads \ {t} : work'[u] = work[u]
          /\ UNCHANGED <<selected, isolated>>
        BY <1>18 DEF Retired, Finish, Go, catalogVars
    <2>2. CASE pc[t] = "retiring" /\ work[t].backend # Nobody
                 /\ Marks(work[t].backend, "closed")
        BY <1>15, <2>1, <2>2 DEF Owning
    <2>3. CASE pc[t] = "retire" /\ work[t].backend = Nobody
                 /\ UNCHANGED backend
        <3>1. \A u \in Threads \ {t} :
                 pc'[u] = pc[u] /\ work'[u] = work[u]
            BY <2>1
        <3>2. pc'[t] = "idle"
            BY <2>1
        <3>3. SelectedStarted' /\ TableOpen'
            BY <2>1, <2>3, <3>1, <3>2 DEF SelectedStarted, TableOpen
        <3>4. OwnersHold'
            BY <2>3, <3>1, <3>2 DEF OwnersHold, Owning
        <3>5. OwnersApart'
            BY <2>1, <2>3, <3>1, <3>2 DEF OwnersApart, Owning
        <3>6. BackendsOwned'
            BY <2>1, <2>3, <3>1, <3>2 DEF BackendsOwned, Owning
        <3>7. QED
            BY <3>3, <3>4, <3>5, <3>6
    <2>4. QED
        BY <1>18, <2>2, <2>3, RetiredMarks
<1>19. ASSUME NEW t \in Threads, Swap(t) PROVE BackendsHeld'
    <2>1. /\ pc[t] = "swap" /\ pc' = [pc EXCEPT ![t] = "retire"]
          /\ isolated' = work[t].backend /\ UNCHANGED backend
          /\ work' = [work EXCEPT ![t] = [Nothing EXCEPT !.backend = isolated]]
          /\ selected' # "isolated"
        BY <1>19 DEF Swap, Go, Replaced
    <2>2. work'[t].backend = isolated /\ pc'[t] = "retire"
        BY <2>1, NothingTyped, BackendGiven
    <2>3. \A u \in Threads \ {t} :
             pc'[u] = pc[u] /\ work'[u] = work[u]
        BY <2>1
    <2>4. \A u \in Threads : /\ pc[u] \notin {"stop", "reset"}
                             /\ pc'[u] \notin {"stop", "reset"}
        BY <2>1, <2>2, <2>3 DEF OneCloser, Working, Discovering
    <2>5. SelectedStarted' /\ TableOpen'
        BY <2>1, <2>2, <2>3, <2>4
        DEF SelectedStarted, TableOpen, OwnersHold, Owning
    <2>6. OwnersHold'
        BY <2>1, <2>2, <2>3 DEF OwnersHold, Owning
    <2>7. OwnersApart'
        BY <2>1, <2>2, <2>3 DEF OwnersApart, OwnersHold, Owning
    <2>8. BackendsOwned'
        BY <2>1, <2>2, <2>3 DEF BackendsOwned, Owning
    <2>9. QED
        BY <2>5, <2>6, <2>7, <2>8
<1>20. ASSUME NEW t \in Threads, pc[t] \in {"shut", "stop"},
              NEW s \in {"stop", "reset"}, pc' = [pc EXCEPT ![t] = s],
              UNCHANGED <<selected, isolated, work>>,
              NEW v \in {"closing", "closed", "abandoned"},
              s = "stop" => isolated # Nobody /\ v = "closing",
              s = "reset" => isolated = Nobody \/ v # "closing",
              \/ isolated = Nobody /\ UNCHANGED backend
              \/ isolated # Nobody /\ Marks(isolated, v)
       PROVE  BackendsHeld'
    <2>1. \A u \in Threads : pc[u] \notin Owning /\ pc'[u] \notin Owning
        BY <1>20 DEF OneCloser, Working, Discovering, Owning
    <2>2. /\ \A u \in Threads : pc'[u] \in {"stop", "reset"} => u = t
          /\ pc'[t] = s
        BY <1>20 DEF OneCloser, Closing
    <2>3. /\ Len(backend') = Len(backend)
          /\ isolated # Nobody => backend'[isolated].status = v
          /\ \A i \in 1..Len(backend) :
               i # isolated => backend'[i].status = backend[i].status
        BY <1>20 DEF Marks
    <2>4. SelectedStarted' /\ TableOpen'
        BY <1>20, <2>2, <2>3 DEF SelectedStarted, TableOpen
    <2>5. OwnersHold' /\ OwnersApart'
        BY <2>1 DEF OwnersHold, OwnersApart
    <2>6. BackendsOwned'
        BY <1>20, <2>1, <2>3 DEF BackendsOwned, Owning
    <2>7. QED
        BY <2>4, <2>5, <2>6
<1>24. ASSUME NEW t \in Threads, CloseBackends(t) PROVE BackendsHeld'
    <2>1. pc[t] = "shut" /\ UNCHANGED <<selected, isolated, work>>
        BY <1>24 DEF CloseBackends, catalogVars
    <2>2. CASE /\ isolated = Nobody /\ UNCHANGED backend
               /\ pc' = [pc EXCEPT ![t] = "reset"]
        BY <1>20, <2>1, <2>2
    <2>3. CASE /\ isolated # Nobody /\ Marks(isolated, "closing")
               /\ pc' = [pc EXCEPT ![t] = "stop"]
        BY <1>20, <2>1, <2>3
    <2>4. QED
        BY <1>24, <2>2, <2>3, CloseMarks
<1>25. ASSUME NEW t \in Threads, Stopped(t) \/ StopInterrupted(t)
       PROVE  BackendsHeld'
    <2>1. /\ pc[t] = "stop" /\ pc' = [pc EXCEPT ![t] = "reset"]
          /\ UNCHANGED <<selected, isolated, work>>
        BY <1>25 DEF Stopped, StopInterrupted, Go, catalogVars
    <2>2. \E v \in {"closed", "abandoned"} :
             isolated # Nobody /\ Marks(isolated, v)
        BY <1>25, StopMarks
    <2>3. QED
        BY <1>20, <2>1, <2>2
<1>26. ASSUME NEW t \in Threads, RetireInterrupted(t) PROVE BackendsHeld'
    <2>1. work[t].backend # Nobody /\ Marks(work[t].backend, "abandoned")
        BY <1>26, RetireInterruptedMarks
    <2>2. QED
        BY <1>15, <1>26, <2>1
        DEF RetireInterrupted, Finish, Go, Owning, catalogVars
<1>27. ASSUME NEW t \in Threads, NEW b \in graphs, Backward(t, b)
       PROVE  BackendsHeld'
    BY <1>2, <1>27 DEF Backward, Go, Owning, catalogVars
<1>28. ASSUME NEW t \in Threads, BackwardReturns(t) PROVE BackendsHeld'
    BY <1>2, <1>28 DEF BackwardReturns, Go, Owning, catalogVars
<1>21. ASSUME NEW t \in Threads, Reset(t) PROVE BackendsHeld'
    <2>1. /\ pc[t] = "reset" /\ pc' = [pc EXCEPT ![t] = "idle"]
          /\ isolated' = Nobody /\ selected' = "none"
          /\ UNCHANGED <<work, backend>>
        BY <1>21 DEF Reset, Go
    <2>2. \A u \in Threads : /\ pc[u] \notin Owning /\ pc'[u] \notin Owning
                             /\ pc'[u] \notin {"stop", "reset"}
        BY <2>1 DEF OneCloser, Working, Discovering, Owning, Closing
    <2>3. SelectedStarted' /\ TableOpen'
        BY <2>1, <2>2 DEF SelectedStarted, TableOpen
    <2>4. OwnersHold' /\ OwnersApart'
        BY <2>2 DEF OwnersHold, OwnersApart
    <2>5. BackendsOwned'
        BY <2>1, <2>2 DEF BackendsOwned, Owning, TableOpen
    <2>6. QED
        BY <2>3, <2>4, <2>5
<1>22. CASE UNCHANGED vars
    BY <1>22 DEF vars, catalogVars, threadVars, SelectedStarted, TableOpen,
       OwnersHold, OwnersApart, BackendsOwned
<1>23. QED
    <2> HIDE DEF RuntimeTypes, BackendsHeld
    <2>1. QED
        BY StepCases, <1>1, <1>3, <1>4, <1>5, <1>6, <1>7, <1>8, <1>9, <1>10,
           <1>11, <1>12, <1>13, <1>14, <1>16, <1>17, <1>18, <1>19, <1>21,
           <1>22, <1>24, <1>25, <1>26, <1>27, <1>28, Zenon

-----------------------------------------------------------------------------
(* The generation moves one at a time, and with it the backend of the      *)
(* table; backends are only added.                                         *)
LEMMA GenerationAdvances ==
    ASSUME RuntimeTypes, BackendsHeld, [Next]_vars
    PROVE  /\ generation' \in {generation, generation + 1}
           /\ generation' = generation => isolated' = isolated
           /\ Len(backend') \in {Len(backend), Len(backend) + 1}
<1> DEFINE Goal == /\ generation' \in {generation, generation + 1}
                   /\ generation' = generation => isolated' = isolated
                   /\ Len(backend') \in {Len(backend), Len(backend) + 1}
<1> USE DEF RuntimeTypes, NextGeneration, catalogVars
<1>1. CASE CatalogStep
    <2>1. UNCHANGED <<isolated, backend>>
        BY <1>1, CatalogTypes
    <2>2. generation' \in {generation, generation + 1}
        BY <1>1 DEF CatalogStep, LoadPlugins, LoadFails, ConfigurePlugin,
           ConfigureBundled, UseIsolated, UseBundled, UseBundledFails,
           Republished
    <2>3. QED
        BY <2>1, <2>2
<1>2. ASSUME NEW t \in Threads, NEW p \in SUBSET Plugins, Invoke(t, p)
      PROVE  Goal
    BY <1>2 DEF Invoke
<1>3. ASSUME NEW t \in Threads, NEW p \in Plugins, Resolve(t, p) PROVE Goal
    BY <1>3 DEF Resolve
<1>4. ASSUME NEW t \in Threads, NEW c \in Catalogs, Discover(t, c) PROVE Goal
    BY <1>4 DEF Discover
<1>5. ASSUME NEW t \in Threads,
             ConstructTensor(t) \/ InvokeRegistered(t) \/ InvokeStale(t)
      PROVE  Goal
    BY <1>5 DEF ConstructTensor, InvokeRegistered, InvokeStale
<1>6. ASSUME NEW t \in Threads,
             CallBegins(t) \/ CallRefused(t) \/ CallReturns(t)
      PROVE  Goal
    BY <1>6 DEF CallBegins, CallRefused, CallReturns
<1>7. ASSUME NEW t \in Threads, DiscoverFails(t) \/ Snapshot(t) PROVE Goal
    BY <1>7 DEF DiscoverFails, Snapshot
<1>8. ASSUME NEW t \in Threads, StartWorkers(t) PROVE Goal
    <2>1. work[t].configurations \in Snapshots
        BY WorkFields
    <2>2. Len(backend') = Len(backend) + 1
        BY <1>8, <2>1, Started DEF StartWorkers
    <2>3. QED
        BY <1>8, <2>2 DEF StartWorkers
<1>9. ASSUME NEW t \in Threads, Unpublishable(t) PROVE Goal
    BY <1>9, UnpublishableMarks DEF Unpublishable, Marks
<1>10. ASSUME NEW t \in Threads, Swap(t) PROVE Goal
    BY <1>10 DEF Swap
<1>11. ASSUME NEW t \in Threads, Retire(t) PROVE Goal
    BY <1>11, RetireMarks DEF Retire, Marks
<1>12. ASSUME NEW t \in Threads, Retired(t) PROVE Goal
    BY <1>12, RetiredMarks DEF Retired, Marks
<1>13. ASSUME NEW t \in Threads, Close(t) \/ CloseJoins(t) \/ CloseJoined(t)
       PROVE  Goal
    BY <1>13 DEF Close, CloseJoins, CloseJoined
<1>14. ASSUME NEW t \in Threads, WaitInterrupted(t) \/ Drained(t) PROVE Goal
    BY <1>14 DEF WaitInterrupted, Drained
<1>15. ASSUME NEW t \in Threads, CloseBackends(t) PROVE Goal
    BY <1>15, CloseMarks DEF CloseBackends, Marks
<1>16. ASSUME NEW t \in Threads, Reset(t) PROVE Goal
    BY <1>16 DEF Reset
<1>17. CASE UNCHANGED vars
    BY <1>17 DEF vars
<1>18. ASSUME NEW t \in Threads, NEW b \in graphs, Backward(t, b) PROVE Goal
    BY <1>18 DEF Backward
<1>19. ASSUME NEW t \in Threads, BackwardReturns(t) PROVE Goal
    BY <1>19 DEF BackwardReturns
<1>20. ASSUME NEW t \in Threads, RetireInterrupted(t) PROVE Goal
    BY <1>20, RetireInterruptedMarks DEF RetireInterrupted, Marks
<1>21. ASSUME NEW t \in Threads, Stopped(t) \/ StopInterrupted(t) PROVE Goal
    BY <1>21, StopMarks DEF Stopped, StopInterrupted, Marks
<1>22. QED
    BY StepCases, <1>1, <1>2, <1>3, <1>4, <1>5, <1>6, <1>7, <1>8, <1>9, <1>10,
       <1>11, <1>12, <1>13, <1>14, <1>15, <1>16, <1>17, <1>18, <1>19, <1>20,
       <1>21, Zenon

(* A call or a resolved operation after a step was there before it, or is  *)
(* accepted or resolved in it.                                             *)
NewCall(u) ==
    /\ pc'[u] = "call" /\ selected # "none"
    /\ work'[u].backend = Selected /\ work'[u].generation = generation
    /\ UNCHANGED <<generation, isolated, backend>>

NewOperation(u) ==
    /\ pc'[u] = "bound" /\ work'[u].generation = generation
    /\ work'[u].plugin \in Visible(selected, manifests, published, isolated)
    /\ work'[u].metadata = Metadata(work'[u].plugin)
    /\ UNCHANGED <<catalogVars, backend, bundledVars>>

LEMMA CallsOrigin ==
    ASSUME RuntimeTypes, [Next]_vars, NEW u \in Threads,
           pc'[u] \in {"call", "bound"}
    PROVE  \/ pc'[u] = pc[u] /\ work'[u] = work[u]
           \/ NewCall(u)
           \/ NewOperation(u)
<1> DEFINE Goal == \/ pc'[u] = pc[u] /\ work'[u] = work[u]
                   \/ NewCall(u)
                   \/ NewOperation(u)
<1> USE DEF RuntimeTypes, Go
<1>1. CASE CatalogStep
    BY <1>1, CatalogTypes DEF threadVars
<1>2. ASSUME NEW t \in Threads, NEW s, s \notin {"call", "bound"},
             pc' = [pc EXCEPT ![t] = s],
             \A v \in Threads \ {t} : work'[v] = work[v]
      PROVE  Goal
    BY <1>2
<1>3. ASSUME NEW t \in Threads,
             pc' = [pc EXCEPT ![t] = "call"], selected # "none",
             work' = [work EXCEPT ![t] = [Nothing EXCEPT !.backend = Selected,
                                             !.generation = generation]],
             UNCHANGED <<generation, isolated, backend>>
      PROVE  Goal
    <2> DEFINE b == Selected
               w == [Nothing EXCEPT !.backend = b, !.generation = generation]
    <2>1. b \in Int
        BY DEF Selected, InProcess
    <2>2. work' = [work EXCEPT ![t] = w]
        BY <1>3
    <2> HIDE DEF b
    <2>3. w.backend = b /\ w.generation = generation
        BY <2>1, CallGiven, Zenon
    <2> HIDE DEF w
    <2>4. CASE u = t
        BY <1>3, <2>2, <2>3, <2>4 DEF NewCall, b
    <2>5. CASE u # t
        BY <1>3, <2>2, <2>5
    <2>6. QED
        BY <2>4, <2>5
<1>4. ASSUME NEW t \in Threads, NEW p \in SUBSET Plugins, Invoke(t, p)
      PROVE  Goal
    <2>1. /\ selected # "none" /\ pc' = [pc EXCEPT ![t] = "call"]
          /\ work' = [work EXCEPT ![t] = [Nothing EXCEPT !.backend = Selected,
                                             !.generation = generation]]
          /\ UNCHANGED <<generation, isolated, backend>>
        BY <1>4, Zenon DEF Invoke, Accept
    <2>2. QED
        BY <1>3, <2>1, Zenon
<1>5. ASSUME NEW t \in Threads, ConstructTensor(t) PROVE Goal
    <2>1. /\ selected # "none" /\ pc' = [pc EXCEPT ![t] = "call"]
          /\ work' = [work EXCEPT ![t] = [Nothing EXCEPT !.backend = Selected,
                                             !.generation = generation]]
          /\ UNCHANGED <<catalogVars, backend>>
        BY <1>5, Zenon DEF ConstructTensor, Accept
    <2>2. UNCHANGED <<generation, isolated, backend>>
        BY <2>1 DEF catalogVars
    <2>3. QED
        BY <1>3, <2>1, <2>2, Zenon
<1>6. ASSUME NEW t \in Threads, InvokeRegistered(t) PROVE Goal
    <2>1. /\ selected # "none" /\ pc' = [pc EXCEPT ![t] = "call"]
          /\ work' = [work EXCEPT ![t] = [Nothing EXCEPT !.backend = Selected,
                                             !.generation = generation]]
          /\ UNCHANGED <<generation, isolated, backend>>
        BY <1>6, Zenon DEF InvokeRegistered
    <2>2. QED
        BY <1>3, <2>1, Zenon
<1>7. ASSUME NEW t \in Threads, NEW p \in Plugins, Resolve(t, p) PROVE Goal
    <2> DEFINE m == Metadata(p)
               w == [Nothing EXCEPT !.generation = generation, !.plugin = p,
                                    !.metadata = m]
    <2>1. m \in Int
        BY TableIsFunction DEF Metadata
    <2>2. /\ work' = [work EXCEPT ![t] = w] /\ pc' = [pc EXCEPT ![t] = "bound"]
          /\ p \in Visible(selected, manifests, published, isolated)
          /\ UNCHANGED <<catalogVars, backend, bundledVars>>
        BY <1>7 DEF Resolve
    <2> HIDE DEF m
    <2>3. w.generation = generation /\ w.plugin = p /\ w.metadata = m
        <3>1. p \in Int /\ generation \in Nat
            BY RuntimeAssumption
        <3>2. w = [backend |-> Nobody, generation |-> generation,
                   catalog |-> <<>>, configurations |-> <<>>, plugin |-> p,
                   metadata |-> m]
            BY OperationRecord, Zenon
        <3>3. QED
            BY <3>2
    <2> HIDE DEF w
    <2>4. CASE u = t
        <3>1. work'[u] = w /\ pc'[u] = "bound"
            BY <2>2, <2>4
        <3>2. QED
            BY <2>2, <2>3, <3>1, Zenon DEF NewOperation, m
    <2>5. CASE u # t
        BY <2>2, <2>5
    <2>6. QED
        BY <2>4, <2>5
<1>8. ASSUME NEW t \in Threads, NEW c \in Catalogs, Discover(t, c) PROVE Goal
    BY <1>2, <1>8 DEF Discover, Accept
<1>9. ASSUME NEW t \in Threads, InvokeStale(t) \/ CallBegins(t) PROVE Goal
    BY <1>2, <1>9 DEF InvokeStale, CallBegins
<1>10. ASSUME NEW t \in Threads,
              CallRefused(t) \/ CallReturns(t) \/ DiscoverFails(t)
       PROVE  Goal
    BY <1>2, <1>10 DEF CallRefused, CallReturns, DiscoverFails, Finish
<1>11. ASSUME NEW t \in Threads, Snapshot(t) \/ StartWorkers(t) PROVE Goal
    BY <1>2, <1>11 DEF Snapshot, StartWorkers
<1>12. ASSUME NEW t \in Threads, Unpublishable(t) \/ Retired(t) PROVE Goal
    BY <1>2, <1>12 DEF Unpublishable, Retired, Finish
<1>13. ASSUME NEW t \in Threads, Swap(t) \/ Retire(t) PROVE Goal
    BY <1>2, <1>13 DEF Swap, Retire
<1>14. ASSUME NEW t \in Threads, Close(t) \/ CloseJoins(t) \/ CloseJoined(t)
       PROVE  Goal
    BY <1>2, <1>14 DEF Close, CloseJoins, CloseJoined
<1>15. ASSUME NEW t \in Threads, WaitInterrupted(t) \/ Drained(t) PROVE Goal
    BY <1>2, <1>15 DEF WaitInterrupted, Drained
<1>16. ASSUME NEW t \in Threads, CloseBackends(t) \/ Reset(t) PROVE Goal
    BY <1>2, <1>16 DEF CloseBackends, Reset
<1>17. CASE UNCHANGED vars
    BY <1>17 DEF vars, threadVars
<1>18. ASSUME NEW t \in Threads, NEW b \in graphs, Backward(t, b) PROVE Goal
    BY <1>2, <1>18 DEF Backward
<1>19. ASSUME NEW t \in Threads, BackwardReturns(t) \/ RetireInterrupted(t)
       PROVE  Goal
    BY <1>2, <1>19 DEF BackwardReturns, RetireInterrupted, Finish
<1>20. ASSUME NEW t \in Threads, Stopped(t) \/ StopInterrupted(t) PROVE Goal
    BY <1>2, <1>20 DEF Stopped, StopInterrupted
<1>21. QED
    BY StepCases, <1>1, <1>4, <1>5, <1>6, <1>7, <1>8, <1>9, <1>10,
       <1>11, <1>12, <1>13, <1>14, <1>15, <1>16, <1>17, <1>18, <1>19, <1>20,
       Zenon

(* A call of the current generation goes to the backend of the table.      *)
LEMMA CallsPreserved ==
    ASSUME RuntimeTypes, BackendsHeld, CallsCurrent, [Next]_vars
    PROVE  CallsCurrent'
<1>1. /\ generation' \in {generation, generation + 1}
      /\ generation' = generation => isolated' = isolated
      /\ Len(backend') \in {Len(backend), Len(backend) + 1}
      /\ generation \in Nat /\ Len(backend) \in Nat
    BY GenerationAdvances DEF RuntimeTypes
<1>2. ASSUME NEW u \in Threads, pc'[u] \in {"call", "bound"}
      PROVE  /\ work'[u].generation <= generation'
             /\ pc'[u] = "call" /\ work'[u].backend # InProcess =>
                  /\ work'[u].backend \in 1..Len(backend')
                  /\ work'[u].generation = generation'
                       => work'[u].backend = isolated'
    <2>1. CASE pc'[u] = pc[u] /\ work'[u] = work[u]
        <3>1. work[u].generation \in Nat
            BY WorkFields DEF RuntimeTypes
        <3>2. QED
            BY <1>1, <1>2, <2>1, <3>1 DEF CallsCurrent
    <2>2. CASE NewCall(u)
        <3>1. Selected # InProcess => Selected = isolated /\ isolated # Nobody
            BY <2>2
            DEF NewCall, Selected, BackendsHeld, SelectedStarted, RuntimeTypes
        <3>2. isolated # Nobody => isolated \in 1..Len(backend)
            BY DEF RuntimeTypes, Nobody
        <3>3. /\ work'[u].backend = Selected
              /\ work'[u].generation = generation
              /\ generation' = generation /\ isolated' = isolated
              /\ Len(backend') = Len(backend)
            BY <2>2 DEF NewCall
        <3> HIDE DEF Selected
        <3>4. QED
            BY <1>1, <3>1, <3>2, <3>3
    <2>3. CASE NewOperation(u)
        BY <1>1, <2>3 DEF NewOperation, catalogVars
    <2>4. QED
        BY <1>2, <2>1, <2>2, <2>3, CallsOrigin
<1>3. QED
    BY <1>2 DEF CallsCurrent

-----------------------------------------------------------------------------
Published == Visible(selected, manifests, published, isolated)

(* What is published depends on the catalog and on the selected backend.   *)
LEMMA PublishedKept ==
    ASSUME RuntimeTypes, BackendsHeld,
           UNCHANGED <<selected, manifests, isolated>>,
           selected # "bundled" \/ UNCHANGED published,
           \A i \in 1..Len(backend) : backend'[i].runs = backend[i].runs
    PROVE  Published' = Published
<1>1. CASE selected = "isolated"
    <2>1. isolated \in 1..Len(backend)
        BY <1>1 DEF BackendsHeld, SelectedStarted, RuntimeTypes, Nobody
    <2>2. backend'[isolated].runs = backend[isolated].runs
        BY <2>1
    <2>3. QED
        BY <1>1, <2>2 DEF Published, Visible
<1>2. CASE selected = "bundled"
    BY <1>2 DEF Published, Visible
<1>3. CASE selected = "none"
    BY <1>3 DEF Published, Visible
<1>4. QED
    BY <1>1, <1>2, <1>3 DEF RuntimeTypes

(* While the generation lasts and the runtime is open, the operations that *)
(* are published and their metadata stay.                                  *)
LEMMA NamesKept ==
    ASSUME RuntimeTypes, OneCloser, BackendsHeld, [Next]_vars,
           generation' = generation, state' = "open"
    PROVE  state = "open" /\ manifests' = manifests /\ Published' = Published
<1> DEFINE Goal == /\ state = "open" /\ manifests' = manifests
                   /\ Published' = Published
<1>0. generation + 1 # generation
    BY DEF RuntimeTypes
<1> USE DEF catalogVars, bundledVars
<1>1. CASE CatalogStep
    <2>1. UNCHANGED <<state, isolated, backend>>
        BY <1>1, CatalogTypes
    <2>2. ASSUME NEW c \in Catalogs, LoadPlugins(c) PROVE FALSE
        BY <1>0, <2>2 DEF LoadPlugins, NextGeneration
    <2>3. ASSUME NEW c \in Catalogs, LoadFails(c) PROVE Goal
        BY <2>1, <2>3, PublishedKept DEF LoadFails
    <2>4. ASSUME NEW p \in Plugins, NEW c \in Configs, ConfigurePlugin(p, c)
          PROVE  Goal
        BY <2>1, <2>4, PublishedKept DEF ConfigurePlugin
    <2>5. CASE ConfigureBundled
        BY <2>1, <2>5, PublishedKept DEF ConfigureBundled
    <2>6. CASE UseIsolated
        <3>1. /\ generation' = Republished("isolated", published)
              /\ selected' = "isolated" /\ UNCHANGED <<manifests, published>>
            BY <2>6 DEF UseIsolated
        <3>2. Visible("isolated", manifests, published, isolated) = Published
            BY <1>0, <3>1 DEF Republished, NextGeneration, Published
        <3>3. Published' = Visible("isolated", manifests, published, isolated)
            BY <2>1, <3>1 DEF Published, Visible
        <3>4. QED
            BY <2>1, <3>1, <3>2, <3>3
    <2>7. CASE UseBundled
        <3>1. /\ generation' = Republished("bundled", DOMAIN manifests)
              /\ selected' = "bundled" /\ UNCHANGED manifests
              /\ published' = DOMAIN manifests
            BY <2>7 DEF UseBundled
        <3>2. Visible("bundled", manifests, DOMAIN manifests, isolated)
                 = Published
            BY <1>0, <3>1 DEF Republished, NextGeneration, Published
        <3>3. Published'
                 = Visible("bundled", manifests, DOMAIN manifests, isolated)
            BY <2>1, <3>1 DEF Published, Visible
        <3>4. QED
            BY <2>1, <3>1, <3>2, <3>3
    <2>8. CASE UseBundledFails
        BY <2>1, <2>8, PublishedKept DEF UseBundledFails
    <2>9. QED
        BY <1>1, <2>2, <2>3, <2>4, <2>5, <2>6, <2>7, <2>8 DEF CatalogStep
<1>2. ASSUME UNCHANGED <<state, selected, manifests, isolated, published,
                         backend>>
      PROVE  Goal
    BY <1>2, PublishedKept
<1>3. ASSUME NEW t \in Threads, NEW p \in SUBSET Plugins, Invoke(t, p)
      PROVE  Goal
    BY <1>2, <1>3 DEF Invoke
<1>4. ASSUME NEW t \in Threads, NEW p \in Plugins, Resolve(t, p) PROVE Goal
    BY <1>2, <1>4 DEF Resolve
<1>5. ASSUME NEW t \in Threads, NEW c \in Catalogs, Discover(t, c) PROVE Goal
    BY <1>2, <1>5 DEF Discover, Accept
<1>6. ASSUME NEW t \in Threads,
             ConstructTensor(t) \/ InvokeRegistered(t) \/ InvokeStale(t)
      PROVE  Goal
    BY <1>2, <1>6 DEF ConstructTensor, Accept, InvokeRegistered, InvokeStale
<1>7. ASSUME NEW t \in Threads,
             CallBegins(t) \/ CallRefused(t) \/ CallReturns(t)
      PROVE  Goal
    BY <1>2, <1>7 DEF CallBegins, CallRefused, CallReturns
<1>8. ASSUME NEW t \in Threads, DiscoverFails(t) \/ Snapshot(t) PROVE Goal
    BY <1>2, <1>8 DEF DiscoverFails, Snapshot
<1>9. ASSUME NEW t \in Threads, StartWorkers(t) PROVE Goal
    <2>1. work[t].configurations \in Snapshots
        BY WorkFields DEF RuntimeTypes
    <2>2. \A i \in 1..Len(backend) : backend'[i] = backend[i]
        BY <1>9, <2>1, Started DEF StartWorkers, RuntimeTypes
    <2>3. QED
        BY <1>9, <2>2, PublishedKept DEF StartWorkers
<1>10. ASSUME NEW t \in Threads, Unpublishable(t) PROVE Goal
    BY <1>10, UnpublishableMarks, PublishedKept DEF Unpublishable, Marks
<1>11. ASSUME NEW t \in Threads, Swap(t) PROVE FALSE
    BY <1>0, <1>11 DEF Swap, NextGeneration
<1>12. ASSUME NEW t \in Threads, Retire(t) PROVE Goal
    BY <1>12, RetireMarks, PublishedKept DEF Retire, Marks
<1>13. ASSUME NEW t \in Threads, Retired(t) PROVE Goal
    <2>1. \A i \in 1..Len(backend) : backend'[i].runs = backend[i].runs
        BY <1>13, RetiredMarks DEF Marks
    <2>2. QED
        BY <1>13, <2>1, PublishedKept DEF Retired
<1>14. ASSUME NEW t \in Threads, Close(t) PROVE FALSE
    BY <1>14 DEF Close
<1>15. ASSUME NEW t \in Threads, CloseJoins(t) \/ CloseJoined(t) PROVE Goal
    BY <1>2, <1>15 DEF CloseJoins, CloseJoined
<1>16. ASSUME NEW t \in Threads, WaitInterrupted(t) \/ Drained(t) PROVE Goal
    BY <1>2, <1>16 DEF WaitInterrupted, Drained
<1>17. ASSUME NEW t \in Threads,
              CloseBackends(t) \/ Stopped(t) \/ StopInterrupted(t)
       PROVE  FALSE
    BY <1>17 DEF CloseBackends, Stopped, StopInterrupted, OneCloser, Closing
<1>18. ASSUME NEW t \in Threads, Reset(t) PROVE FALSE
    BY <1>0, <1>18 DEF Reset, NextGeneration
<1>19. CASE UNCHANGED vars
    BY <1>2, <1>19 DEF vars
<1>20. ASSUME NEW t \in Threads, NEW b \in graphs, Backward(t, b) PROVE Goal
    BY <1>2, <1>20 DEF Backward
<1>21. ASSUME NEW t \in Threads, BackwardReturns(t) PROVE Goal
    BY <1>2, <1>21 DEF BackwardReturns
<1>22. ASSUME NEW t \in Threads, RetireInterrupted(t) PROVE Goal
    BY <1>22, RetireInterruptedMarks, PublishedKept DEF RetireInterrupted, Marks
<1>23. QED
    BY StepCases, <1>1, <1>3, <1>4, <1>5, <1>6, <1>7, <1>8, <1>9, <1>10,
       <1>11, <1>12, <1>13, <1>14, <1>15, <1>16, <1>17, <1>18, <1>19, <1>20,
       <1>21, <1>22, Zenon

LEMMA NamesPreserved ==
    ASSUME RuntimeTypes, OneCloser, BackendsHeld, CallsCurrent,
           CurrentIsUnchanged, [Next]_vars
    PROVE  CurrentIsUnchanged'
<1> SUFFICES ASSUME NEW u \in Threads, pc'[u] = "bound",
                    work'[u].generation = generation', state' = "open"
             PROVE  /\ work'[u].plugin \in Published'
                    /\ work'[u].metadata = Metadata(work[u].plugin)'
    BY DEF CurrentIsUnchanged, Published
<1>1. CASE pc'[u] = pc[u] /\ work'[u] = work[u]
    <2>1. work[u].generation <= generation
        BY <1>1 DEF CallsCurrent
    <2>2. generation' = generation
        <3>1. work[u].generation \in Nat /\ generation \in Nat
            BY WorkFields DEF RuntimeTypes
        <3>2. generation' \in {generation, generation + 1}
            BY GenerationAdvances
        <3>3. QED
            BY <1>1, <2>1, <3>1, <3>2
    <2>3. /\ state = "open" /\ manifests' = manifests
          /\ Published' = Published
        BY <2>2, NamesKept
    <2>4. /\ work[u].plugin \in Published
          /\ work[u].metadata = Metadata(work[u].plugin)
        BY <1>1, <2>2, <2>3 DEF CurrentIsUnchanged, Published
    <2>5. QED
        BY <1>1, <2>3, <2>4 DEF Metadata
<1>2. CASE NewOperation(u)
    <2>1. UNCHANGED <<selected, manifests, isolated, published, backend>>
        BY <1>2 DEF NewOperation, catalogVars, bundledVars
    <2>2. Published' = Published
        BY <2>1, PublishedKept
    <2>3. /\ work'[u].plugin \in Published
          /\ work'[u].metadata = Metadata(work'[u].plugin)
        BY <1>2, Zenon DEF NewOperation, Published
    <2>4. QED
        BY <2>1, <2>2, <2>3 DEF Metadata
<1>3. CASE NewCall(u)
    BY <1>3 DEF NewCall
<1>4. QED
    BY <1>1, <1>2, <1>3, CallsOrigin

-----------------------------------------------------------------------------
(* The constructor of Runtime establishes the invariant ...                *)
LEMMA RuntimeStarts ==
    ASSUME Init
    PROVE  RuntimeInv
<1>1. RuntimeTypes
    <2>1. Init => backend = <<>> /\ isolated = 0
        BY DEF Init, Nobody
    <2>2. <<>> \in Seq(Backends) /\ Len(<<>>) = 0
        BY EmptySeq
    <2>3. QED
        BY <2>1, <2>2, EmptyTable, NothingTyped DEF Init, RuntimeTypes, Stages
<1>2. \A t \in Threads : pc[t] = "idle"
    BY DEF Init
<1>3. Carried /\ CallsCurrent /\ CurrentIsUnchanged
    BY <1>2 DEF Carried, CallsCurrent, CurrentIsUnchanged
<1>4. Working = {}
    BY <1>2 DEF Working, Calling, Discovering
<1>5. WorkCounted
    BY <1>4, FS_EmptySet DEF WorkCounted, Init
<1>6. OneCloser
    BY <1>2 DEF OneCloser, Closing
<1>7. BackendsHeld
    <2>1. Len(backend) = 0
        BY EmptySeq DEF Init
    <2>2. QED
        BY <1>2, <2>1 DEF Init, BackendsHeld, SelectedStarted, TableOpen,
           OwnersHold, OwnersApart, BackendsOwned, Owning
<1>8. QED
    BY <1>1, <1>3, <1>5, <1>6, <1>7 DEF RuntimeInv

(* ... and every operation of every thread keeps it.                       *)
THEOREM RuntimeInvariance == Spec => []RuntimeInv
<1>1. Init => RuntimeInv
    BY RuntimeStarts
<1>2. RuntimeInv /\ [Next]_vars => RuntimeInv'
    BY TypesPreserved, CountPreserved, HeldPreserved, CallsPreserved,
       NamesPreserved, Zenon DEF RuntimeInv
<1>3. QED
    BY <1>1, <1>2, PTL DEF Spec

(* Runtime.close closes the backends with nobody else at work: no call, no *)
(* discovery and no second closer runs from the end of its wait until the  *)
(* runtime is open again.                                                  *)
THEOREM CloseRunsAlone == Spec => []CloseExclusive
<1>1. RuntimeInv => CloseExclusive
    <2> SUFFICES ASSUME RuntimeInv, NEW t \in Threads,
                        pc[t] \in {"shut", "stop", "reset"}
                 PROVE  /\ state = "closing"
                        /\ \A u \in Threads \ {t} :
                             pc[u] \notin Calling \cup Discovering \cup Closing
        BY DEF CloseExclusive
    <2>1. pc[t] \in Closing
        BY DEF Closing
    <2>2. QED
        BY <2>1 DEF RuntimeInv, OneCloser, Working
<1>2. QED
    BY <1>1, RuntimeInvariance, PTL

(* Across rediscovery, failed publication and close an isolated backend is *)
(* lost only by an interrupt in the wait of its close: one that is open or *)
(* being closed is the one of Runtime._backends or that of a discovery     *)
(* that will publish or close it.                                          *)
THEOREM NoBackendLost == Spec => []BackendsOwned
<1>1. RuntimeInv => BackendsOwned
    BY DEF RuntimeInv, BackendsHeld
<1>2. QED
    BY <1>1, RuntimeInvariance, PTL

(* A call accepted in the current generation finds its backend open: only  *)
(* a rediscovery since _accept_work can have a call refused.               *)
THEOREM CurrentCallsAreServed == Spec => []CurrentCallServed
<1>1. RuntimeInv => CurrentCallServed
    <2> SUFFICES ASSUME RuntimeInv, NEW t \in Threads, pc[t] = "call",
                        work[t].backend # InProcess,
                        work[t].generation = generation
                 PROVE  backend[work[t].backend].status = "open"
        BY DEF CurrentCallServed
    <2>1. work[t].backend = isolated /\ isolated # Nobody
        BY DEF RuntimeInv, CallsCurrent, RuntimeTypes, Nobody
    <2>2. t \in Working
        BY DEF Working, Calling
    <2>3. \A u \in Threads : pc[u] \notin {"stop", "reset"}
        BY <2>2 DEF RuntimeInv, OneCloser
    <2>4. QED
        BY <2>1, <2>3 DEF RuntimeInv, BackendsHeld, TableOpen
<1>2. QED
    BY <1>1, RuntimeInvariance, PTL

(* The generation that invoke_registered compares stands for what was      *)
(* resolved: as long as it has not moved, the operation is still published *)
(* with the metadata it was bound to.                                      *)
THEOREM GenerationIsEnough == Spec => []CurrentIsUnchanged
<1>1. RuntimeInv => CurrentIsUnchanged
    BY DEF RuntimeInv
<1>2. QED
    BY <1>1, RuntimeInvariance, PTL

-----------------------------------------------------------------------------
(* What the calls and the owners know of their backends: a call and a      *)
(* gradient go to a backend that was started, none is sent to one that is  *)
(* not published yet, and the replaced one is closed in its two steps.     *)
Using == Calling \cup {"backward"}

CallsKnown ==
    /\ \A t \in Threads : pc[t] \in Using /\ work[t].backend # InProcess =>
         work[t].backend \in 1..Len(backend)
    /\ graphs \subseteq 1..Len(backend)

Unpublished ==
    \A t \in Threads : pc[t] = "swap" =>
      /\ work[t].backend \notin graphs
      /\ \A u \in Threads : pc[u] \in Using =>
           work[u].backend # work[t].backend

ClosedInOrder ==
    \A t \in Threads :
      /\ pc[t] = "retire" /\ work[t].backend # Nobody =>
           backend[work[t].backend].status = "open"
      /\ pc[t] = "retiring" => backend[work[t].backend].status = "closing"

GatesInv == CallsKnown /\ Unpublished /\ ClosedInOrder

(* A step that starts no call, leaves the backends alone, gives nobody a   *)
(* backend to publish or to close and records no gradient but of a call    *)
(* keeps that.                                                             *)
LEMMA GatesFrame ==
    ASSUME RuntimeTypes, GatesInv, NEW t \in Threads, NEW s,
           s \notin Owning,
           s \in Using => pc[t] \in Using /\ work'[t] = work[t],
           pc' = [pc EXCEPT ![t] = s],
           \A u \in Threads \ {t} : work'[u] = work[u],
           \A c \in graphs' : \/ c \in graphs
                             \/ /\ pc[t] \in Using
                                /\ c = work[t].backend /\ c # InProcess,
           UNCHANGED backend
    PROVE  GatesInv'
<1>1. \A u \in Threads : pc'[u] \in Using =>
         pc[u] \in Using /\ work'[u] = work[u]
    BY DEF RuntimeTypes
<1>2. \A u \in Threads : pc'[u] \in Owning =>
         pc'[u] = pc[u] /\ work'[u] = work[u]
    BY DEF RuntimeTypes
<1>3. CallsKnown'
    BY <1>1 DEF GatesInv, CallsKnown
<1>4. Unpublished'
    BY <1>1, <1>2 DEF GatesInv, Unpublished, Owning
<1>5. ClosedInOrder'
    BY <1>2 DEF GatesInv, ClosedInOrder, Owning
<1>6. QED
    BY <1>3, <1>4, <1>5 DEF GatesInv

(* The steps of a closer, when nobody is at work.                          *)
LEMMA GatesShut ==
    ASSUME RuntimeTypes, GatesInv, Working = {}, NEW t \in Threads,
           NEW s \in {"stop", "reset"}, pc' = [pc EXCEPT ![t] = s],
           Len(backend') = Len(backend), UNCHANGED <<work, graphs>>
    PROVE  GatesInv'
<1>1. \A u \in Threads : pc'[u] \notin Discovering
    BY DEF Working, Discovering, RuntimeTypes
<1>2. \A u \in Threads : pc'[u] \in Using => pc[u] \in Using
    BY DEF Using, Calling, RuntimeTypes
<1>3. CallsKnown'
    BY <1>2 DEF GatesInv, CallsKnown
<1>4. Unpublished' /\ ClosedInOrder'
    BY <1>1 DEF Unpublished, ClosedInOrder, Discovering
<1>5. QED
    BY <1>3, <1>4 DEF GatesInv

(* An accepted call goes to the selected backend, which is published.      *)
LEMMA GatesAccept ==
    ASSUME RuntimeTypes, BackendsHeld, GatesInv, NEW t \in Threads,
           pc' = [pc EXCEPT ![t] = "call"], selected # "none",
           work' = [work EXCEPT ![t] = [Nothing EXCEPT !.backend = Selected,
                                           !.generation = generation]],
           UNCHANGED <<backend, graphs>>
    PROVE  GatesInv'
<1> DEFINE b == Selected
           w == [Nothing EXCEPT !.backend = b, !.generation = generation]
<1>1. b \in Int /\ generation \in Nat /\ work' = [work EXCEPT ![t] = w]
    BY DEF Selected, InProcess, RuntimeTypes
<1> HIDE DEF b
<1>2. w.backend = b
    BY <1>1, CallGiven, Zenon
<1> HIDE DEF w
<1>3. work'[t].backend = Selected /\ pc'[t] = "call"
    BY <1>1, <1>2 DEF RuntimeTypes, b
<1>4. \A u \in Threads \ {t} : pc'[u] = pc[u] /\ work'[u] = work[u]
    BY DEF RuntimeTypes
<1>5. Selected = InProcess \/ (Selected = isolated /\ isolated # Nobody)
    BY DEF Selected, BackendsHeld, SelectedStarted, RuntimeTypes
<1>6. Selected # InProcess => Selected \in 1..Len(backend)
    BY <1>5 DEF RuntimeTypes, Nobody
<1>7. \A u \in Threads : pc[u] = "swap" =>
         /\ work[u].backend \in 1..Len(backend)
         /\ work[u].backend # isolated
    BY DEF BackendsHeld, OwnersHold, OwnersApart, Owning, Nobody, RuntimeTypes
<1>8. \A u \in Threads : pc[u] = "swap" => work[u].backend # Selected
    BY <1>5, <1>7 DEF InProcess, RuntimeTypes
<1> HIDE DEF Selected
<1>9. CallsKnown'
    BY <1>3, <1>4, <1>6 DEF GatesInv, CallsKnown
<1>10. Unpublished'
    BY <1>3, <1>4, <1>8 DEF GatesInv, Unpublished
<1>11. ClosedInOrder'
    BY <1>3, <1>4 DEF GatesInv, ClosedInOrder
<1>12. QED
    BY <1>9, <1>10, <1>11 DEF GatesInv

(* The owner of a backend moves its close on.                              *)
LEMMA GatesMark ==
    ASSUME RuntimeTypes, BackendsHeld, GatesInv, NEW t \in Threads,
           pc[t] \in Owning, work[t].backend # Nobody,
           NEW s \in {"idle", "retiring"},
           NEW v \in {"closing", "closed", "abandoned"}, UNCHANGED graphs,
           s = "retiring" => v = "closing" /\ work' = work,
           pc' = [pc EXCEPT ![t] = s],
           \A u \in Threads \ {t} : work'[u] = work[u],
           Marks(work[t].backend, v)
    PROVE  GatesInv'
<1>1. \A u \in Threads \ {t} : pc'[u] = pc[u] /\ work'[u] = work[u]
    BY DEF RuntimeTypes
<1>2. pc'[t] = s
    BY DEF RuntimeTypes
<1>3. \A u \in Threads \ {t} : pc[u] \in Owning =>
         work[u].backend # work[t].backend
    BY DEF BackendsHeld, OwnersApart
<1>4. CallsKnown'
    BY <1>1, <1>2 DEF GatesInv, CallsKnown, Marks, Using, Calling
<1>5. Unpublished'
    BY <1>1, <1>2 DEF GatesInv, Unpublished, Using, Calling
<1>6. ClosedInOrder'
    <2>1. ASSUME NEW u \in Threads \ {t}, pc[u] \in Owning,
                 work[u].backend # Nobody
          PROVE  backend'[work[u].backend].status
                   = backend[work[u].backend].status
        <3>1. work[u].backend \in 1..Len(backend)
            BY <2>1, OwnedBackend
        <3>2. QED
            BY <1>3, <2>1, <3>1 DEF Marks
    <2>2. \A u \in Threads : pc[u] = "retiring" => work[u].backend # Nobody
        BY DEF BackendsHeld, OwnersHold, Owning
    <2>3. s = "retiring" => backend'[work'[t].backend].status = "closing"
        BY DEF Marks
    <2>4. QED
        BY <1>1, <1>2, <2>1, <2>2, <2>3 DEF GatesInv, ClosedInOrder, Owning
<1>7. QED
    BY <1>4, <1>5, <1>6 DEF GatesInv

(* Every step keeps what the calls and the owners know.                    *)
LEMMA GatesPreserved ==
    ASSUME RuntimeTypes, OneCloser, BackendsHeld, GatesInv, [Next]_vars
    PROVE  GatesInv'
<1>1. CASE CatalogStep
    <2>1. UNCHANGED <<backend, graphs, pc, work>>
        BY <1>1, CatalogTypes DEF threadVars
    <2>2. QED
        BY <2>1 DEF GatesInv, CallsKnown, Unpublished, ClosedInOrder
<1>2. ASSUME NEW t \in Threads, NEW p \in SUBSET Plugins, Invoke(t, p)
      PROVE  GatesInv'
    <2>1. /\ selected # "none" /\ pc' = [pc EXCEPT ![t] = "call"]
          /\ work' = [work EXCEPT ![t] = [Nothing EXCEPT !.backend = Selected,
                                             !.generation = generation]]
          /\ UNCHANGED <<backend, graphs>>
        BY <1>2, Zenon DEF Invoke, Accept, Go
    <2>2. QED
        BY <2>1, GatesAccept, Zenon
<1>3. ASSUME NEW t \in Threads, ConstructTensor(t) PROVE GatesInv'
    <2>1. /\ selected # "none" /\ pc' = [pc EXCEPT ![t] = "call"]
          /\ work' = [work EXCEPT ![t] = [Nothing EXCEPT !.backend = Selected,
                                             !.generation = generation]]
          /\ UNCHANGED <<backend, graphs>>
        BY <1>3, Zenon DEF ConstructTensor, Accept, Go
    <2>2. QED
        BY <2>1, GatesAccept, Zenon
<1>4. ASSUME NEW t \in Threads, InvokeRegistered(t) PROVE GatesInv'
    <2>1. /\ selected # "none" /\ pc' = [pc EXCEPT ![t] = "call"]
          /\ work' = [work EXCEPT ![t] = [Nothing EXCEPT !.backend = Selected,
                                             !.generation = generation]]
          /\ UNCHANGED <<backend, graphs>>
        BY <1>4, Zenon DEF InvokeRegistered, Go
    <2>2. QED
        BY <2>1, GatesAccept, Zenon
<1>5. ASSUME NEW t \in Threads, NEW s, s \notin Owning \cup Using,
             pc' = [pc EXCEPT ![t] = s],
             \A u \in Threads \ {t} : work'[u] = work[u],
             UNCHANGED <<backend, graphs>>
      PROVE  GatesInv'
    BY <1>5, GatesFrame
<1>6. ASSUME NEW t \in Threads, NEW p \in Plugins, Resolve(t, p)
      PROVE  GatesInv'
    BY <1>5, <1>6 DEF Resolve, Go, Owning, Using, Calling, RuntimeTypes
<1>7. ASSUME NEW t \in Threads, NEW c \in Catalogs, Discover(t, c)
      PROVE  GatesInv'
    BY <1>5, <1>7
    DEF Discover, Accept, Go, Owning, Using, Calling, RuntimeTypes
<1>8. ASSUME NEW t \in Threads, CallBegins(t) PROVE GatesInv'
    BY <1>8, GatesFrame DEF CallBegins, Go, Owning, Using, Calling
<1>9. ASSUME NEW t \in Threads, CallRefused(t) \/ DiscoverFails(t)
      PROVE  GatesInv'
    BY <1>5, <1>9 DEF CallRefused, DiscoverFails, Finish, Go, Owning, Using,
       Calling, RuntimeTypes
<1>21. ASSUME NEW t \in Threads, CallReturns(t) PROVE GatesInv'
    <2>1. /\ pc[t] \in Using /\ pc' = [pc EXCEPT ![t] = "idle"]
          /\ \A u \in Threads \ {t} : work'[u] = work[u]
          /\ UNCHANGED backend
          /\ graphs' = graphs \cup ({work[t].backend} \ {InProcess})
        BY <1>21
        DEF CallReturns, Finish, Go, Using, Calling, RuntimeTypes
    <2>2. "idle" \notin Owning \cup Using
        BY DEF Owning, Using, Calling
    <2>3. QED
        BY <2>1, <2>2, GatesFrame
<1>10. ASSUME NEW t \in Threads, InvokeStale(t) \/ Snapshot(t)
       PROVE  GatesInv'
    BY <1>5, <1>10
    DEF InvokeStale, Snapshot, Go, Owning, Using, Calling, RuntimeTypes
<1>11. ASSUME NEW t \in Threads, Close(t) \/ CloseJoins(t) \/ CloseJoined(t)
       PROVE  GatesInv'
    BY <1>5, <1>11
    DEF Close, CloseJoins, CloseJoined, Go, Owning, Using, Calling, RuntimeTypes
<1>12. ASSUME NEW t \in Threads, WaitInterrupted(t) \/ Drained(t) \/ Reset(t)
       PROVE  GatesInv'
    BY <1>5, <1>12
    DEF WaitInterrupted, Drained, Reset, Go, Owning, Using, Calling, RuntimeTypes
<1>13. ASSUME NEW t \in Threads, StartWorkers(t) PROVE GatesInv'
    <2>1. /\ Len(backend') = Len(backend) + 1
          /\ \A i \in 1..Len(backend) : backend'[i] = backend[i]
          /\ Len(backend) \in Nat
        <3>1. work[t].configurations \in Snapshots
            BY WorkFields DEF RuntimeTypes
        <3>2. QED
            BY <1>13, <3>1, Started DEF StartWorkers, RuntimeTypes
    <2>2. /\ \A u \in Threads \ {t} : pc'[u] = pc[u] /\ work'[u] = work[u]
          /\ pc'[t] = "swap"
        BY <1>13 DEF StartWorkers, Go, RuntimeTypes
    <2>3. work'[t].backend = Len(backend) + 1
        <3>1. work'[t] = [work[t] EXCEPT !.backend = Len(backend')]
            BY <1>13 DEF StartWorkers, RuntimeTypes
        <3>2. [work[t] EXCEPT !.backend = Len(backend')].backend = Len(backend')
            BY <2>1, BackendGiven DEF RuntimeTypes
        <3>3. QED
            BY <2>1, <3>1, <3>2
    <2>4. CallsKnown'
        <3>1. graphs' = graphs
            BY <1>13 DEF StartWorkers
        <3>2. QED
            BY <2>1, <2>2, <3>1 DEF GatesInv, CallsKnown, Using, Calling
    <2>5. /\ \A u \in Threads \ {t} : pc'[u] \in Using =>
               work'[u].backend # work'[t].backend
          /\ graphs' = graphs /\ work'[t].backend \notin graphs
        BY <1>13, <2>1, <2>2, <2>3
        DEF GatesInv, CallsKnown, InProcess, StartWorkers
    <2>6. Unpublished'
        BY <2>2, <2>5 DEF GatesInv, Unpublished, Using, Calling
    <2>7. \A u \in Threads : pc[u] \in Owning /\ work[u].backend # Nobody =>
             backend'[work[u].backend] = backend[work[u].backend]
        BY <2>1, OwnedBackend
    <2>8. \A u \in Threads : pc[u] = "retiring" => work[u].backend # Nobody
        BY DEF BackendsHeld, OwnersHold, Owning
    <2>9. ClosedInOrder'
        BY <2>2, <2>7, <2>8 DEF GatesInv, ClosedInOrder, Owning
    <2>10. QED
        BY <2>4, <2>6, <2>9 DEF GatesInv
<1>14. ASSUME NEW t \in Threads, Unpublishable(t) PROVE GatesInv'
    <2>1. Marks(work[t].backend, "closed") /\ work[t].backend # Nobody
        BY <1>14, UnpublishableMarks
        DEF Unpublishable, BackendsHeld, OwnersHold, Owning
    <2>2. QED
        BY <1>14, <2>1, GatesMark
        DEF Unpublishable, Finish, Go, Owning, RuntimeTypes
<1>15. ASSUME NEW t \in Threads, Retire(t) PROVE GatesInv'
    <2>1. Marks(work[t].backend, "closing")
        BY <1>15, RetireMarks
    <2>2. QED
        BY <1>15, <2>1, GatesMark DEF Retire, Go, Owning
<1>16. ASSUME NEW t \in Threads, Retired(t) PROVE GatesInv'
    <2>1. /\ pc' = [pc EXCEPT ![t] = "idle"]
          /\ \A u \in Threads \ {t} : work'[u] = work[u]
          /\ UNCHANGED graphs
        BY <1>16 DEF Retired, Finish, Go, RuntimeTypes
    <2>2. CASE pc[t] = "retiring" /\ work[t].backend # Nobody
                 /\ Marks(work[t].backend, "closed")
        BY <2>1, <2>2, GatesMark DEF Owning
    <2>3. CASE UNCHANGED backend
        BY <1>5, <2>1, <2>3 DEF Owning, Using, Calling
    <2>4. QED
        BY <1>16, <2>2, <2>3, RetiredMarks
<1>17. ASSUME NEW t \in Threads, Swap(t) PROVE GatesInv'
    <2>1. /\ pc[t] = "swap" /\ pc' = [pc EXCEPT ![t] = "retire"]
          /\ UNCHANGED <<backend, graphs>>
          /\ work' = [work EXCEPT ![t] = [Nothing EXCEPT !.backend = isolated]]
        BY <1>17 DEF Swap, Go, Replaced
    <2>2. work'[t].backend = isolated /\ pc'[t] = "retire"
        BY <2>1, NothingTyped, BackendGiven DEF RuntimeTypes
    <2>3. \A u \in Threads \ {t} : pc'[u] = pc[u] /\ work'[u] = work[u]
        BY <2>1 DEF RuntimeTypes
    <2>4. \A u \in Threads : pc[u] \notin {"stop", "reset"}
        BY <2>1 DEF OneCloser, Working, Discovering
    <2>5. isolated # Nobody => backend[isolated].status = "open"
        BY <2>4 DEF BackendsHeld, TableOpen
    <2>6. CallsKnown' /\ Unpublished'
        BY <2>1, <2>2, <2>3
        DEF GatesInv, CallsKnown, Unpublished, Using, Calling
    <2>7. ClosedInOrder'
        BY <2>1, <2>2, <2>3, <2>5 DEF GatesInv, ClosedInOrder
    <2>8. QED
        BY <2>6, <2>7 DEF GatesInv
<1>18. ASSUME NEW t \in Threads, CloseBackends(t) PROVE GatesInv'
    <2>1. Working = {} /\ UNCHANGED <<work, graphs>>
        BY <1>18 DEF CloseBackends, OneCloser
    <2>2. /\ Len(backend') = Len(backend)
          /\ \E s \in {"stop", "reset"} : pc' = [pc EXCEPT ![t] = s]
        BY <1>18, CloseMarks DEF Marks
    <2>3. QED
        BY <2>1, <2>2, GatesShut
<1>22. ASSUME NEW t \in Threads, Stopped(t) \/ StopInterrupted(t)
       PROVE  GatesInv'
    <2>1. /\ Working = {} /\ UNCHANGED <<work, graphs>>
          /\ pc' = [pc EXCEPT ![t] = "reset"]
        BY <1>22 DEF Stopped, StopInterrupted, Go, OneCloser
    <2>2. Len(backend') = Len(backend)
        BY <1>22, StopMarks DEF Marks
    <2>3. QED
        BY <2>1, <2>2, GatesShut
<1>23. ASSUME NEW t \in Threads, RetireInterrupted(t) PROVE GatesInv'
    <2>1. work[t].backend # Nobody /\ Marks(work[t].backend, "abandoned")
        BY <1>23, RetireInterruptedMarks
    <2>2. QED
        BY <1>23, <2>1, GatesMark
        DEF RetireInterrupted, Finish, Go, Owning, RuntimeTypes
<1>24. ASSUME NEW t \in Threads, BackwardReturns(t) PROVE GatesInv'
    BY <1>5, <1>24
    DEF BackwardReturns, Go, Owning, Using, Calling, RuntimeTypes
<1>25. ASSUME NEW t \in Threads, NEW b \in graphs, Backward(t, b)
       PROVE  GatesInv'
    <2>1. /\ pc' = [pc EXCEPT ![t] = "backward"]
          /\ work' = [work EXCEPT ![t] = [Nothing EXCEPT !.backend = b]]
          /\ UNCHANGED <<backend, graphs>>
        BY <1>25 DEF Backward, Go
    <2>2. work'[t].backend = b /\ pc'[t] = "backward"
        BY <2>1, NothingTyped, BackendGiven DEF RuntimeTypes
    <2>3. \A u \in Threads \ {t} : pc'[u] = pc[u] /\ work'[u] = work[u]
        BY <2>1 DEF RuntimeTypes
    <2>4. CallsKnown'
        BY <2>1, <2>2, <2>3 DEF GatesInv, CallsKnown
    <2>5. Unpublished'
        BY <2>1, <2>2, <2>3 DEF GatesInv, Unpublished
    <2>6. ClosedInOrder'
        BY <2>1, <2>2, <2>3 DEF GatesInv, ClosedInOrder
    <2>7. QED
        BY <2>4, <2>5, <2>6 DEF GatesInv
<1>19. CASE UNCHANGED vars
    BY <1>19
    DEF vars, threadVars, GatesInv, CallsKnown, Unpublished, ClosedInOrder
<1>20. QED
    BY StepCases, <1>1, <1>2, <1>3, <1>4, <1>6, <1>7, <1>8, <1>9, <1>10,
       <1>11, <1>12, <1>13, <1>14, <1>15, <1>16, <1>17, <1>18, <1>19, <1>21,
       <1>22, <1>23, <1>24, <1>25, Zenon

-----------------------------------------------------------------------------
(* What a step is for the gate of one backend.                             *)
GateMoves(b) == Gate(b)!GateNext \/ UNCHANGED Gate(b)!gateVars

(* A step that leaves the status of a backend and who runs on it alone is  *)
(* none of its gate.                                                       *)
LEMMA GateKept ==
    ASSUME NEW b, GateOf(b)' = GateOf(b), Running(b)' = Running(b)
    PROVE  GateMoves(b)
BY DEF GateMoves, Gate!gateVars

LEMMA GateStays ==
    ASSUME NEW b, UNCHANGED backend
    PROVE  GateOf(b)' = GateOf(b)
BY DEF GateOf

(* Only the begin and the return of a call change who runs.                *)
Inside == {"run", "backward"}

LEMMA RunningKept ==
    ASSUME RuntimeTypes, NEW t \in Threads, NEW s, s \notin Inside,
           pc[t] \notin Inside,
           pc' = [pc EXCEPT ![t] = s],
           \A u \in Threads \ {t} : work'[u] = work[u],
           NEW b
    PROVE  Running(b)' = Running(b)
<1>1. \A u \in Threads : (pc'[u] \in Inside /\ work'[u].backend = b)
                           <=> (pc[u] \in Inside /\ work[u].backend = b)
    BY DEF RuntimeTypes
<1>2. QED
    BY <1>1 DEF Running, Inside

(* An abandoned close is one that was begun.                               *)
Shown(v) == IF v = "abandoned" THEN "closing" ELSE v

(* A backend is marked: the gates of the others do not move.               *)
LEMMA MarkedGate ==
    ASSUME RuntimeTypes, NEW c, NEW v, Marks(c, v), NEW b
    PROVE  /\ b # c => GateOf(b)' = GateOf(b)
           /\ b = c => /\ GateOf(b) = Shown(backend[c].status)
                       /\ GateOf(b)' = Shown(v)
<1>1. DOMAIN backend = 1..Len(backend) /\ DOMAIN backend' = 1..Len(backend)
    BY DEF Marks, RuntimeTypes
<1>2. QED
    BY <1>1 DEF Marks, GateOf, Shown

(* The close of a backend, when nobody runs on it: at once or after it was *)
(* begun.                                                                  *)
LEMMA GateCloses ==
    ASSUME RuntimeTypes, NEW c, Marks(c, "closed"),
           backend[c].status \in {"open", "closing"}, Running(c) = {},
           NEW b, Running(b)' = Running(b)
    PROVE  GateMoves(b)
<1>1. CASE b = c
    <2>1. GateOf(b) # "closed" /\ GateOf(b)' = "closed" /\ Running(b) = {}
        BY <1>1, MarkedGate DEF Shown
    <2>2. Gate(b)!CloseEnds
        BY <2>1 DEF Gate!CloseEnds
    <2>3. QED
        BY <2>2 DEF GateMoves, Gate!GateNext
<1>2. CASE b # c
    BY <1>2, MarkedGate, GateKept
<1>3. QED
    BY <1>1, <1>2

(* The begin of a close.                                                   *)
LEMMA GateShuts ==
    ASSUME RuntimeTypes, NEW c, Marks(c, "closing"),
           backend[c].status = "open", NEW b, Running(b)' = Running(b)
    PROVE  GateMoves(b)
<1>1. CASE b = c
    <2>1. GateOf(b) = "open" /\ GateOf(b)' = "closing"
        BY <1>1, MarkedGate DEF Shown
    <2>2. Gate(b)!CloseBegins
        BY <2>1 DEF Gate!CloseBegins
    <2>3. QED
        BY <2>2 DEF GateMoves, Gate!GateNext
<1>2. CASE b # c
    BY <1>2, MarkedGate, GateKept
<1>3. QED
    BY <1>1, <1>2

(* An interrupt in the wait of a close leaves it begun.                    *)
LEMMA GateGivenUp ==
    ASSUME RuntimeTypes, NEW c, Marks(c, "abandoned"),
           backend[c].status = "closing", NEW b, Running(b)' = Running(b)
    PROVE  GateMoves(b)
<1>1. GateOf(b)' = GateOf(b)
    BY MarkedGate DEF Shown
<1>2. QED
    BY <1>1, GateKept

(* A thread enters the backend it was sent to, or leaves it.               *)
LEMMA GateEntered ==
    ASSUME RuntimeTypes, NEW t \in Threads, NEW c \in 1..Len(backend),
           backend[c].status = "open", UNCHANGED backend,
           pc[t] \notin Inside, pc'[t] \in Inside, work'[t].backend = c,
           \A u \in Threads \ {t} : pc'[u] = pc[u] /\ work'[u] = work[u],
           NEW b
    PROVE  GateMoves(b)
<1>1. GateOf(b)' = GateOf(b)
    BY GateStays
<1>2. CASE b = c
    <2>1. GateOf(b) = "open"
        BY <1>2 DEF GateOf, RuntimeTypes
    <2>2. Running(b)' = Running(b) \cup {t} /\ t \notin Running(b)
        BY <1>2 DEF Running, Inside
    <2>3. Gate(b)!Enter(t)
        BY <1>1, <2>1, <2>2 DEF Gate!Enter
    <2>4. QED
        BY <2>3 DEF GateMoves, Gate!GateNext
<1>3. CASE b # c
    <2>1. Running(b)' = Running(b)
        BY <1>3 DEF Running, Inside
    <2>2. QED
        BY <1>1, <2>1, GateKept
<1>4. QED
    BY <1>2, <1>3

LEMMA GateLeft ==
    ASSUME RuntimeTypes, NEW t \in Threads, UNCHANGED backend,
           pc[t] \in Inside, pc'[t] \notin Inside,
           \A u \in Threads \ {t} : pc'[u] = pc[u] /\ work'[u] = work[u],
           NEW b
    PROVE  GateMoves(b)
<1>1. GateOf(b)' = GateOf(b)
    BY GateStays
<1>2. CASE work[t].backend = b
    <2>1. Running(b)' = Running(b) \ {t} /\ t \in Running(b)
        BY <1>2 DEF Running, Inside
    <2>2. Gate(b)!Exit(t)
        BY <1>1, <2>1 DEF Gate!Exit
    <2>3. QED
        BY <2>2 DEF GateMoves, Gate!GateNext
<1>3. CASE work[t].backend # b
    <2>1. Running(b)' = Running(b)
        BY <1>3 DEF Running, Inside
    <2>2. QED
        BY <1>1, <2>1, GateKept
<1>4. QED
    BY <1>2, <1>3

(* Every step of the runtime is a step of the gate of every backend, or    *)
(* none.                                                                   *)
LEMMA GateSteps ==
    ASSUME RuntimeTypes, OneCloser, BackendsHeld, GatesInv, [Next]_vars,
           NEW b \in Nat \ {0}
    PROVE  GateMoves(b)
<1>1. CASE CatalogStep
    <2>1. UNCHANGED <<backend, pc, work>>
        BY <1>1, CatalogTypes DEF threadVars
    <2>2. QED
        BY <2>1, GateKept, GateStays DEF Running
<1>2. ASSUME NEW t \in Threads, NEW s, s \notin Inside, pc[t] \notin Inside,
             pc' = [pc EXCEPT ![t] = s],
             \A u \in Threads \ {t} : work'[u] = work[u],
             UNCHANGED backend
      PROVE  GateMoves(b)
    BY <1>2, RunningKept, GateStays, GateKept
<1> USE DEF Inside
<1>3. ASSUME NEW t \in Threads, NEW p \in SUBSET Plugins, Invoke(t, p)
      PROVE  GateMoves(b)
    BY <1>2, <1>3 DEF Invoke, Accept, Go, RuntimeTypes
<1>4. ASSUME NEW t \in Threads, NEW p \in Plugins, Resolve(t, p)
      PROVE  GateMoves(b)
    BY <1>2, <1>4 DEF Resolve, Go, RuntimeTypes
<1>5. ASSUME NEW t \in Threads, NEW c \in Catalogs, Discover(t, c)
      PROVE  GateMoves(b)
    BY <1>2, <1>5 DEF Discover, Accept, Go, RuntimeTypes
<1>6. ASSUME NEW t \in Threads,
             ConstructTensor(t) \/ InvokeRegistered(t) \/ InvokeStale(t)
      PROVE  GateMoves(b)
    BY <1>2, <1>6
    DEF ConstructTensor, InvokeRegistered, InvokeStale, Accept, Go, RuntimeTypes
<1>7. ASSUME NEW t \in Threads, CallRefused(t) \/ DiscoverFails(t)
      PROVE  GateMoves(b)
    BY <1>2, <1>7 DEF CallRefused, DiscoverFails, Finish, Go, RuntimeTypes
<1>8. ASSUME NEW t \in Threads, Snapshot(t) \/ Swap(t) PROVE GateMoves(b)
    BY <1>2, <1>8 DEF Snapshot, Swap, Go, RuntimeTypes
<1>9. ASSUME NEW t \in Threads, Close(t) \/ CloseJoins(t) \/ CloseJoined(t)
      PROVE  GateMoves(b)
    BY <1>2, <1>9 DEF Close, CloseJoins, CloseJoined, Go, RuntimeTypes
<1>10. ASSUME NEW t \in Threads, WaitInterrupted(t) \/ Drained(t) \/ Reset(t)
       PROVE  GateMoves(b)
    BY <1>2, <1>10 DEF WaitInterrupted, Drained, Reset, Go, RuntimeTypes
<1>11. ASSUME NEW t \in Threads, CallBegins(t) PROVE GateMoves(b)
    <2>1. /\ pc[t] = "call" /\ pc'[t] = "run" /\ work' = work
          /\ UNCHANGED backend
          /\ \A u \in Threads \ {t} : pc'[u] = pc[u]
        BY <1>11 DEF CallBegins, Go, RuntimeTypes
    <2>2. CASE work[t].backend = InProcess
        <3>1. Running(b)' = Running(b)
            BY <2>1, <2>2 DEF Running, InProcess
        <3>2. QED
            BY <2>1, <3>1, GateStays, GateKept
    <2>3. CASE work[t].backend # InProcess
        <3> DEFINE c == work[t].backend
        <3>1. c \in 1..Len(backend)
            BY <2>1, <2>3 DEF GatesInv, CallsKnown, Using, Calling
        <3>2. backend[c].status = "open" /\ work'[t].backend = c
            BY <1>11, <2>1, <2>3 DEF CallBegins
        <3> HIDE DEF c
        <3>3. QED
            BY <2>1, <3>1, <3>2, GateEntered
    <2>4. QED
        BY <2>2, <2>3
<1>12. ASSUME NEW t \in Threads, CallReturns(t) PROVE GateMoves(b)
    BY <1>12, GateLeft DEF CallReturns, Finish, Go, RuntimeTypes
<1>20. ASSUME NEW t \in Threads, BackwardReturns(t) PROVE GateMoves(b)
    BY <1>20, GateLeft DEF BackwardReturns, Go, RuntimeTypes
<1>21. ASSUME NEW t \in Threads, NEW c \in graphs, Backward(t, c)
       PROVE  GateMoves(b)
    <2>1. /\ pc[t] = "idle" /\ pc'[t] = "backward" /\ UNCHANGED backend
          /\ \A u \in Threads \ {t} : pc'[u] = pc[u] /\ work'[u] = work[u]
          /\ backend[c].status = "open"
        BY <1>21 DEF Backward, Go, RuntimeTypes
    <2>2. work'[t] = [Nothing EXCEPT !.backend = c]
        BY <1>21 DEF Backward, RuntimeTypes
    <2>3. work'[t].backend = c
        BY <2>2, NothingTyped, BackendGiven DEF RuntimeTypes
    <2>4. c \in 1..Len(backend)
        BY DEF GatesInv, CallsKnown
    <2>5. QED
        BY <2>1, <2>3, <2>4, GateEntered
<1>13. ASSUME NEW t \in Threads, StartWorkers(t) PROVE GateMoves(b)
    <2>1. /\ backend' \in Seq(Backends) /\ Len(backend') = Len(backend) + 1
          /\ \A i \in 1..Len(backend) : backend'[i] = backend[i]
          /\ backend'[Len(backend) + 1].status = "open"
        <3>1. work[t].configurations \in Snapshots
            BY WorkFields DEF RuntimeTypes
        <3>2. QED
            BY <1>13, <3>1, Started DEF StartWorkers, RuntimeTypes
    <2>2. /\ DOMAIN backend = 1..Len(backend)
          /\ DOMAIN backend' = 1..(Len(backend) + 1)
          /\ Len(backend) \in Nat
        BY <2>1 DEF RuntimeTypes
    <2>3. GateOf(b)' = GateOf(b)
        BY <2>1, <2>2 DEF GateOf
    <2>4. Running(b)' = Running(b)
        BY <1>13, RunningKept DEF StartWorkers, Go, RuntimeTypes
    <2>5. QED
        BY <2>3, <2>4, GateKept
<1>14. ASSUME NEW t \in Threads, Unpublishable(t) PROVE GateMoves(b)
    <2> DEFINE c == work[t].backend
    <2>1. Marks(c, "closed") /\ pc[t] = "swap"
        BY <1>14, UnpublishableMarks DEF Unpublishable
    <2>2. backend[c].status = "open"
        BY <2>1 DEF BackendsHeld, OwnersHold, Owning
    <2>3. Running(c) = {}
        BY <2>1 DEF GatesInv, Unpublished, Running, Using, Calling
    <2>4. Running(b)' = Running(b)
        BY <1>14, RunningKept DEF Unpublishable, Finish, Go, RuntimeTypes
    <2> HIDE DEF c
    <2>5. QED
        BY <2>1, <2>2, <2>3, <2>4, GateCloses
<1>15. ASSUME NEW t \in Threads, Retire(t) PROVE GateMoves(b)
    <2> DEFINE c == work[t].backend
    <2>1. Marks(c, "closing") /\ backend[c].status = "open"
        BY <1>15, RetireMarks DEF Retire, GatesInv, ClosedInOrder
    <2>2. Running(b)' = Running(b)
        BY <1>15, RunningKept DEF Retire, Go, RuntimeTypes
    <2> HIDE DEF c
    <2>3. QED
        BY <2>1, <2>2, GateShuts
<1>16. ASSUME NEW t \in Threads, Retired(t) PROVE GateMoves(b)
    <2> DEFINE c == work[t].backend
    <2>1. pc[t] \notin Inside /\ pc' = [pc EXCEPT ![t] = "idle"]
            /\ \A u \in Threads \ {t} : work'[u] = work[u]
        BY <1>16 DEF Retired, Finish, Go, RuntimeTypes
    <2>2. Running(b)' = Running(b)
        BY <2>1, RunningKept
    <2>3. CASE UNCHANGED backend
        BY <2>2, <2>3, GateStays, GateKept
    <2>4. CASE pc[t] = "retiring" /\ Marks(c, "closed")
        <3>1. backend[c].status = "closing" /\ Running(c) = {}
            BY <1>16, <2>4 DEF Retired, GatesInv, ClosedInOrder
        <3> HIDE DEF c
        <3>2. QED
            BY <2>2, <2>4, <3>1, GateCloses
    <2>5. QED
        BY <1>16, <2>3, <2>4, RetiredMarks
<1>22. ASSUME NEW t \in Threads, RetireInterrupted(t) PROVE GateMoves(b)
    <2> DEFINE c == work[t].backend
    <2>1. Marks(c, "abandoned") /\ backend[c].status = "closing"
        BY <1>22, RetireInterruptedMarks
        DEF RetireInterrupted, GatesInv, ClosedInOrder
    <2>2. Running(b)' = Running(b)
        BY <1>22, RunningKept DEF RetireInterrupted, Finish, Go, RuntimeTypes
    <2> HIDE DEF c
    <2>3. QED
        BY <2>1, <2>2, GateGivenUp
<1>17. ASSUME NEW t \in Threads, CloseBackends(t) PROVE GateMoves(b)
    <2>1. pc[t] = "shut" /\ work' = work
        BY <1>17 DEF CloseBackends, Go
    <2>2. CASE UNCHANGED backend /\ pc' = [pc EXCEPT ![t] = "reset"]
        BY <1>2, <2>1, <2>2
    <2>3. CASE /\ isolated # Nobody /\ Marks(isolated, "closing")
               /\ pc' = [pc EXCEPT ![t] = "stop"]
        <3>1. \A u \in Threads : pc[u] \notin {"stop", "reset"}
            BY <2>1 DEF OneCloser, Closing
        <3>2. backend[isolated].status = "open"
            BY <2>3, <3>1 DEF BackendsHeld, TableOpen
        <3>3. Running(b)' = Running(b)
            BY <2>1, <2>3, RunningKept
        <3>4. QED
            BY <2>3, <3>2, <3>3, GateShuts
    <2>4. QED
        BY <1>17, <2>2, <2>3, CloseMarks
<1>23. ASSUME NEW t \in Threads, Stopped(t) \/ StopInterrupted(t)
       PROVE  GateMoves(b)
    <2>1. /\ pc[t] = "stop" /\ pc' = [pc EXCEPT ![t] = "reset"] /\ work' = work
        BY <1>23 DEF Stopped, StopInterrupted, Go
    <2>2. backend[isolated].status = "closing"
        BY <2>1 DEF BackendsHeld, TableOpen
    <2>3. Running(b)' = Running(b)
        BY <2>1, RunningKept
    <2>4. CASE Stopped(t)
        <3>1. Marks(isolated, "closed") /\ Running(isolated) = {}
            BY <2>4, StopMarks DEF Stopped
        <3>2. QED
            BY <2>2, <2>3, <3>1, GateCloses
    <2>5. CASE StopInterrupted(t)
        BY <2>2, <2>3, <2>5, StopMarks, GateGivenUp
    <2>6. QED
        BY <1>23, <2>4, <2>5
<1>18. CASE UNCHANGED vars
    <2>1. UNCHANGED <<backend, pc, work>>
        BY <1>18 DEF vars, threadVars
    <2>2. QED
        BY <2>1, GateKept, GateStays DEF Running
<1>19. QED
    BY StepCases, <1>1, <1>3, <1>4, <1>5, <1>6, <1>7, <1>8, <1>9, <1>10,
       <1>11, <1>12, <1>13, <1>14, <1>15, <1>16, <1>17, <1>18, <1>20, <1>21,
       <1>22, <1>23, Zenon

(* Every isolated backend is to the runtime the gate that IsolatedBackend  *)
(* is shown to be: a call, forward or backward, is let in by an open       *)
(* backend and by no other, the close of one that was used ends only when  *)
(* nobody is inside, counted by the runtime or not, and the close of one   *)
(* that was never published, taken for one step, finds nobody.             *)
THEOREM RuntimeUsesGates == Spec => BackendsAreGates
<1>1. Init => GatesInv
    BY DEF Init, GatesInv, CallsKnown, Unpublished, ClosedInOrder, Using,
       Calling
<1>2. RuntimeInv /\ GatesInv /\ [Next]_vars => GatesInv'
    BY GatesPreserved, Zenon DEF RuntimeInv
<1>3. Spec => []GatesInv
    BY <1>1, <1>2, RuntimeInvariance, PTL DEF Spec
<1>4. Init => \A b \in 1..MaxBackends : Gate(b)!GateInit
    <2> SUFFICES ASSUME Init, NEW b \in 1..MaxBackends PROVE Gate(b)!GateInit
        OBVIOUS
    <2>1. DOMAIN backend = {}
        BY EmptyTable DEF Init
    <2>2. GateOf(b) = "open"
        BY <2>1 DEF GateOf
    <2>3. Running(b) = {}
        BY DEF Init, Running
    <2>4. QED
        BY <2>2, <2>3 DEF Gate!GateInit
<1>5. RuntimeInv /\ GatesInv /\ [Next]_vars =>
         \A b \in 1..MaxBackends :
             Gate(b)!GateNext \/ UNCHANGED Gate(b)!gateVars
    <2> SUFFICES ASSUME RuntimeInv, GatesInv, [Next]_vars,
                        NEW b \in 1..MaxBackends
                 PROVE  GateMoves(b)
        BY DEF GateMoves
    <2>1. b \in Nat \ {0}
        BY RuntimeAssumption
    <2>2. QED
        BY <2>1, GateSteps DEF RuntimeInv
<1>6. QED
    BY <1>3, <1>4, <1>5, RuntimeInvariance, PTL DEF Spec, BackendsAreGates
=============================================================================
