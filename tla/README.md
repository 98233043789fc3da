# TLA+ verification of wmfs

wmfs runs plugin operations on Torch tensors in worker processes.  The host
and a worker share memory buffers (memfds), exchange commands and completions
over two single-producer single-consumer rings, and exchange file descriptors
and lifecycle messages over sockets.  This directory models the system in TLA+,
from the rings to the public `Runtime`, checks it with TLC on small instances,
and proves the safety properties of its concurrent core with TLAPS for every
instance.

`PROJECT.json` lists the components, the runs, the source lines every
definition stands for, the hazards, the findings and the theorems.

## 1. Inventory

| component | source | state | operations | module |
|---|---|---|---|---|
| runtime | `runtime.py`, `backends/bundled.py` | registry, catalog generation, configurations, backends, accepted work, open/closing | load, configure, discover, select, resolve, invoke, construct, close | `RuntimeLifecycle` |
| isolated backend | `backends/isolated.py` | table of sessions, creations under way, calls in flight | invoke, create, evict, construct, close | `IsolatedBackend` |
| startup | `worker_process.py`, `wmfs_plugin/worker.py` | sockets, rings, log descriptors, process, hooks, the cancellation in flight | start, fail, time out, cancel, shut down | `SessionStartup` |
| dispatcher | `src/native_session.cpp`, `worker_process.py`, `worker.py` | pending submissions, first ring error, calls in flight, close flags | submit, complete, fail, close | `SessionDispatch` |
| rings | `src/ring.cpp`, `transport/ring.py`, `wmfs_plugin/ring.py` | two counters, closed flag, slots, two eventfds | push, pop, close; encode and decode of records | `SpscRing`, `RingRecords` |
| access leases | `memory/buffers.py` | reader counts, writer flags, FIFO of waiters | reserve, release, close, interrupted wait | `AccessLeases` |
| buffer pool | `memory/buffers.py` | free lists, cached bytes, queue of released storages, recipients and generation of a region | allocate, finalizer, collect (retire, reset, cache), close | `BufferPool` |
| arena | `memory/buffers.py` | sorted free list of one region | allocate, release, close | `Arena` |
| mappings | `src/native_session.cpp`, `worker_process.py`, `fd_transport.py` | the host's table of what a worker maps, the worker's own table | map, retire, abort, finish | `BufferSessions` |
| views | `memory/buffers.py`, `fd_transport.py` | none | describe a tensor, check a view against its mapping | `TensorViews` |
| calls | `invocation.py`, `output_metadata.py`, `protocol/metadata.py`, `autograd.py`, and their counterparts in `wmfs_plugin` | none | validate metadata, bind arguments, plan outputs, reserve leases, check again in the worker, backward call | `Invocations` |
| catalog | `plugins.py`, `registry.py`, `configuration.py`, `protocol/metadata.py` | none (the registry is the runtime's) | resolve names, fingerprints, identity of a worker, configuration and schema, operation declarations | `Manifests` |
| control protocol | `protocol/control.py`, `wmfs_plugin/control.py`, `fd_transport.py` | none | encode and decode of frames, strict send and receive with descriptors, batches in the worker | `ControlFrames` |
| logging | `logging.py`, `wmfs_plugin/logging.py`, `log_codec.py` | bounded queue, drop count, socket, sink | log, drop, send, collect, close; encode and decode of records | `LogChannel`, `LogCodec` |
| generator, kernels, benchmark | see `PROJECT.json` | none at run time | – | not modelled |

How they interact.  A thread calls `Runtime.invoke`, which accepts the work
below its condition, picks the selected backend and releases the lock.  The
`IsolatedBackend` acquires the `WorkerSession` of the plugin or creates one,
whose thread runs the startup: sockets, rings, the worker process, and a
handshake over the bootstrap socket in which the worker proves its identity,
runs the plugin's hooks and answers.  A call is bound to the metadata of its
operation, reserves the access leases of all tensors at once, maps their
buffers in the worker (a batch of file descriptors and its acknowledgement),
and submits a command to the native dispatcher.  The dispatcher pushes it on
the command ring, the worker's ring thread executes it and pushes a completion,
and the dispatcher's completion thread hands it to the caller.  Storages die in
finalizers at any time; a collection asks every session that maps a released
buffer to retire it before it is reset and reused.  A transport failure
invalidates the session: its caller closes it, the backend evicts it, and a
later call creates another.  A rediscovery starts a new isolated backend
outside the lock, publishes it and closes the old one behind the calls it still
serves.  The backward pass of an earlier result goes to the isolated backend of
its forward call directly; the runtime does not count it, the backend does.
Beside all this a worker's log records go through a bounded queue, a
sender thread and a nonblocking socket to the collector in the host.

What is hard here: two ends of a ring in two processes and two languages;
leases granted by other threads; finalizers and collections racing close;
answers that come after their deadline; workers that die or stall in any state;
sessions replaced while slow callers still hold the old one; a startup whose
steps fail, are cancelled or time out with half of their resources acquired;
configurations and catalogs replaced between two critical sections; full queues
whose losses must be counted; interrupts (`KeyboardInterrupt`) in any wait; and
two implementations of every codec and of every check of a call.  The list with
source lines is `hazards` in `PROJECT.json`.

What makes each part correct:

* rings: a bounded FIFO that loses no wakeup, and records that read back as
  written on the other side;
* leases: they exclude, never drift, and are fair;
* pool and arena: they keep their limits and lose or hand out twice nothing;
* mappings: memory and leases outlive the kernels that use them; a view stays
  inside its mapping;
* dispatcher: no caller is forgotten or given another's outcome, and every call
  and close ends;
* startup: what a session that was handed out acquired is given back, a failed
  startup leaves no worker behind, and hooks come in pairs;
* isolated backend: one session per plugin, and a close that leaves nothing
  behind but workers it had to give up;
* runtime: close is alone, no backend is lost but by an interrupt, a call is
  served by the backend it selected, a resolved operation is refused as soon as
  it is stale;
* calls and catalog: what the host plans is what the worker accepts; what the
  host believes about a plugin is what its worker declares;
* logging: the plugin never blocks, and a record is counted when it is lost
  between the plugin and the collector's socket.

## 2. Modules

Concurrent components, one specification each:

`BoundedFifo` is the abstract specification of a ring: put, take, shut.

`SpscRing` is the ring at the grain of its memory accesses.  `ppc` and `cpc`
are the positions of the producer in `try_push`/`push` and of the consumer in
`try_pop`/`pop`; one action is one load, copy, release or eventfd operation.
`ProducerEnds` and `ConsumerEnds` say which code an end may run, the C++ or the
Python one, and the first state fixes it in `native`: they differ in when they
drain the eventfd, look at the closed flag and signal space.  Loading both
counters is one step, because each end writes one of them itself.  `sent` and
`received` are history.

`AccessLeases` is `reserve_access` and its helpers.  The queue of waiters is a
set with, for each waiter, the waiters ahead of it.  `_grant_access_waiters` is
`Grants`, a characterization of the set one scan grants; `Interrupt` is an
exception in the wait.

`BufferPool` is the pooled mode of `BufferManager`.  A region is at one of the
`Places`: none, active, released, draining, cached, shut.  A collection runs
step by step (`Drain`, one `RetireDone`/`RetireFailed` per recipient, then
`Quarantine`, `Discard`, `Reset`, `Store` per region), because it gives up
`_lock` between them; allocation, finalizers and close come in between.

`Arena` is the arena mode: the free list is the sequence the code keeps.

`BufferSessions` extends `BufferPool` with sessions: invocations with their
leases, the host's table `mirror`, the worker's table `table`, the command
queue and the kernel a worker runs.  The mutex of a native session is held
over a batch and its acknowledgement, so that map and retire are one step with
two outcomes.  `Overruns` says whether a request may outlive its deadline while
the worker still runs.  A caller whose request has failed is `closing`: its
frames hold its tensors until the session is closed (`Pinned`, `CloseReturns`).
The table rule is that of the Python worker, the stricter of the two.  An invocation is used once, for the invocation id that is
never reused.

`SessionStartup` is a session from `WorkerSession.__init__` to the last
descriptor.  `conn` is the position of the coroutine `_worker_connection`,
`held` what it owns, `ctor` the constructor that waits with a deadline,
`cancel` the cancellation on its way: posted by the constructor, raised at the
coroutine's next await, which may lie inside the cleanup.  `declared` are the
hooks the plugin has, both, one of them or none.  What the `finally` clause does
not close stays in `held`; of that, `Forgotten` is what the garbage collector
closes, the rest stays open.  The worker reads the
request, checks the identity, runs the hooks, answers, and may crash or hang
between any two of these.  Resources are acquired in groups that fail as one.

`SessionDispatch` is a started session: callers in `WorkerSession.invoke` and
`close`, `submit_ring`, `fail_ring`, the completion thread, the session thread
that shuts the worker down, and the worker's two threads.  The rings are FIFOs
with a closed flag, as `SpscRing` shows them to be.  Popping and matching a
completion is one step, for only the completion thread pops.  The Python
worker's push, unlike the native one, does not look at the closed flag before it
publishes.  `WokenPush` is a push that space has woken; the fairness treats it
apart, because that wakeup may be lost (`RingNativeSpace`).  `faults`, fixed
by the first state, lets the worker stall, die or lose its sockets and lets
deadlines pass; `PythonWorker` selects which rings its shutdown closes.

`IsolatedBackend` is the table of sessions.  A session is live, broken, closed,
or `left`: closed by a close whose join gave up, with its worker still running.
That its constructor, its calls and its close end is what `SessionStartup` and
`SessionDispatch` check.  The condition variable is
`asleep`; every `notify_all` empties it.

`BackendGate` is the abstract specification of such a backend, as the runtime
above it sees it: threads enter while it is open, none after a close has begun,
the close ends when everybody has left, and no worker runs after it but those
that were given up before (`lingering`).

`RuntimeLifecycle` is `Runtime` together with the bundled backend.  What the
code does below `_condition` is one action; discoveries, calls and the closing
of backends are several, with everybody else in between.  An isolated backend is
a status and the threads that run on it, used as a `BackendGate`; its close is
begun, waits for these threads, and ends or is interrupted, which abandons it.
`graphs` are the backends that autograd graphs refer to, on which a backward
call may begin at any time.  Provider hooks may raise, which rolls back an
initialization and leaves a shutdown partial.

`LogChannel` is the queue with its drop count, the sender, the nonblocking
socket and the collector, which skips what it cannot read or emit (`Refused`).  A
logger that was made with `bind` shares the queue and has a counter of its own.
`sink` selects among the loggers: `AsyncLogger` with
a socket or a file, `InProcessLogger` with Python logging or a file.

Pure parts, as operators; a computation that fails yields a record whose `ok`
is `FALSE`:

`WireText` is UTF-8 text with characters of one and of two bytes, so that a cut
in the middle of one exists.  `RingRecords`, `ControlFrames` and `LogCodec` are
the encoders and decoders of the three wire formats, with the declared counts,
lengths and reserved words kept beside the fields.  `TensorViews` describes a
tensor and checks a view.  `Invocations` is the path of a call: `validate` of
the metadata, binding, output plans, reusable outputs, leases, and the worker's
own checks of what it receives, each side with the Torch default dtype of its
process.  `Manifests` is registry, fingerprints,
identity check, the host's and the worker's translation of a declaration, and
the configuration.  A digest is the set of fields it covers.

Composition.  `BufferSessions` composes pool and sessions, and implements
`BufferPool`.  `SpscRing` refines `BoundedFifo`, which is why `SessionDispatch`
may take its two rings for sequences with a closed flag; `IsolatedBackend` uses
sessions as `SessionDispatch` shows them.  `IsolatedBackend` refines
`BackendGate` (`BackendIsGate`), and `RuntimeLifecycle` uses each of its isolated
backends as one and in no other way (`BackendsAreGates`).  `MCPrimitives` puts
ring and leases side by side in one run, `MCComponents` the other parts that
share no state: `moving` and `part` say which of them a behaviour is about, and
`Try` evaluates a pure part on one input.  `MCBufferSessions`,
`MCSessionDispatch` and `MCRuntime` give symmetry sets and constants.

A definition with a fault after an underscore, like `Recounted_RecordOnly`, is
a wrong variant of the definition that follows it, used by nothing; replacing
the definition by it must break a property.

## 3. Runs

| run | shows |
|---|---|
| `Primitives` | the ring, for the four pairings of native and Python ends: implements `BoundedFifo` (nothing overwritten, lost, doubled or reordered), never takes its own counters for corrupted, no lost wakeup for data, a close ends every wait; the leases: exclusion, no forgotten waiter, no overtaking, no starvation |
| `RingNativeSpace` (violation) | between two native ends a wakeup for space can be lost |
| `BufferSessions` | both mapping tables agree and never refer to recycled memory, also after late or lost acknowledgements; a kernel keeps its memory as long as its session is open, also when its caller has given it up |
| `BufferSessionsMemory` (violation) | once the session is closed, a kernel that has outlived its deadline loses it |
| `Dispatch` | no caller forgotten, no outcome overwritten, no false alarm, orderly shutdown |
| `DispatchLive` | every call and close ends; every call of a healthy session is answered, with callers queued behind a blocked push and full rings in both directions |
| `IsolatedBackend` | implements `BackendGate` (nobody gets in once a close has begun, and a close that has ended leaves nobody inside and no worker but those given up), one session per plugin, nobody sleeps for ever, a late eviction spares the replacement, reported failures are evicted, with interrupts in every wait and closes that give up |
| `Runtime` | close meets neither accepted calls nor discoveries, an isolated backend is lost only by an interrupt in its close, a current call is served, a resolved operation that is not refused is unchanged, backends are used as `BackendGate`s also by backward calls, closers return |
| `RuntimeReload` (violation) | `load_plugins` forgets which plugins are initialized, and a configuration is accepted that the running provider never sees |
| `StartupAborted` (violation) | a startup that expires leaves its worker running |
| `ErrorTexts` (violation) | an error text that is cut inside a character cannot be read, and costs the session |
| `Components` | startup, log channel, arena and pool each on its own, and the pure parts on inputs around every limit (below) |

`Components` checks, part by part:

* startup: `NothingLeft` (a session that was handed out leaves no descriptor, no
  collector and no worker when its connection ends; a startup that failed after
  the launch leaves no worker, unless the wait for it was itself cancelled, and
  of its descriptors only those that the code does not close, see section 6),
  `HooksPaired` (a session handed to a caller has run the initialize hook its
  plugin declares, and a stop without error has run the shutdown hook of a
  plugin with both), `StartupsEnd` (constructor and connection end whatever the
  worker does);
* log: `LossesCounted` (a record that is neither waiting nor delivered is in
  one of the counts, or arrived and was refused by its reader; for every sink
  but the in-process file, see section 6), `QueueDrains` (what is queued leaves
  the queue, also after close);
* arena and pool: `Partitioned` (free blocks and storages partition the bytes),
  `FitsIfItCould` (no request fails that a run of free bytes could hold),
  `MemoryAccounted` (no region is stranded by a reset that fails within a
  batch, the cache keeps its limits and its byte count and is empty after
  close, the arena goes after its last storage);
* codecs: `MessagesReadBack` (what one side encodes the other decodes to the
  same message: a control frame with the descriptors it was sent with, a log
  record whose cut names still differ, marked if it was cut, a ring record whose
  integers fit and whose error texts are not cut inside a character; a damaged
  ring record is refused), `DescriptorsAccounted` (a descriptor that came with
  the one control message of a datagram is returned or closed; a batch closes
  each one it was handed, whichever entries the cache refuses, and closes twice
  only the one whose own entry raised);
* calls and catalog: `CallsAgree` (validated metadata never leads out of a
  list, the worker accepts what the runtime bound and planned as long as both
  processes have the same Torch default dtype, the leases cover
  what is touched, the backward call binds what the forward call bound; the
  host's own views are accepted, and a view the worker accepts touches only
  bytes of its mapping), `CatalogAgrees` (a short name leads to its only owner,
  a changed manifest or its worker is refused, both sides read operations and
  outputs alike, a configuration survives its encoding).

The violations are described under `findings`, each with the sentence of the
documentation it contradicts.

Bounds.  `Capacity` 2 with 4 records wraps the slots twice and lets the ring be
empty, partly full and full at every position; `MaxCounter` stands for
2^64 - 1.  Three threads and two allocations give a holder, a waiter and a third
that could overtake, with sets that overlap in part.  `BufferSessions` has one
region, two sessions and three invocations: the region is mapped by both,
retired by one of them only, recycled and mapped again.  The pool of
`Components` has two regions of two lengths and a cache for one buffer of two
bytes, so that both limits are met.  `Arena` has six aligned units and requests
of 1, 3 and 6 bytes, so that splitting, padding and merging on both sides
happen.  `Dispatch` has two callers and rings of one slot, so that one caller
blocks while the other waits; its calls plan their outputs first or not.  Those
of `DispatchLive` submit once: two callers where faults occur, three against a
healthy worker, one of whom has an answer in the full completion ring, one a
command in the full command ring and one holds `producer_mutex` or waits for it
(a fourth exceeds what TLC does in minutes).  Callers and threads are
interchangeable; liveness is checked of one of them (`Watched`) in
`DispatchLive` and of one of the three threads of `AccessLeases`.
`IsolatedBackend` has three threads (a slow caller, a fast one and a closer),
one plugin and two replacement sessions; the theorems hold for any number of
plugins.  `Runtime` has two threads, two plugins (the first with a configuration
schema), two catalogs that differ in plugins and schema, two discoveries and
three changes: a discovery can race a call, a close or another discovery, and a
catalog can go and come back; `RuntimeReload` adds a second configuration.
`SessionStartup` has no constants: one session in
every logging mode.  `LogChannel` has a queue and a socket of two, four records
and three levels around a threshold: the queue fills with low records, is
displaced by high ones and meets a full socket.  The limits of the wire formats
are scaled down (`RingRecords` counts to `Wide` instead of 2^64) and the inputs
lie on both sides of each.  `MaxRecords`, `MaxCalls`, `MaxGeneration`,
`MaxChanges`, `MaxBackends`, `Sessions` and `Invocations` only bound a
behaviour's length.  Where a run may stop at such a bound, or the component is
legitimately closed, deadlock checking is off.

Fairness.  A thread inside a push, a pop, a call or a close keeps running,
which the operating system gives it; nobody is obliged to begin anything.

* `SpscRing` also makes the consumer pop again, as its loops do.
* `AccessLeases` assumes that a lease held is released (`with` blocks around
  calls that `DispatchLive` shows to end).
* `SessionDispatch` assumes host threads and clocks.  Only in the behaviours
  without faults does it assume that the worker runs on, and that a push which
  is blocked on a full ring is woken by space; and there only for rings of one
  slot, whose consumer always finds them full and signals.  Otherwise a blocked
  push is trusted to end by its deadline, a failure or a close alone, because
  the wakeup may be lost (`RingNativeSpace`).
* `SessionStartup` assumes the coroutine and the constructor, whose every wait
  has a deadline in the code; of the worker it assumes nothing.
* `LogChannel` assumes sender and collector, both loops of threads of their own.
  The plugin's threads owe nothing.  The sender is a daemon: that a process may
  exit after the join of `close` has timed out, with records still queued, is
  outside of `QueueDrains`.
* `IsolatedBackend` assumes that constructors, calls and closes of sessions end
  (`StartupsEnd`, `CallsEnd`), `RuntimeLifecycle` that calls, starts and closes
  of backends do.  A caller of the backend may wait for ever behind creations of
  other threads that keep failing; the runs therefore claim that sleepers are
  notified, the draining close among them, not that every caller returns.
  Likewise `ClosersReturn` exempts a close whose own wait was interrupted.

## 4. Proofs

The proofs are checked by tlapm with Z3, Zenon and LS4, for every value of the
constants under the `ASSUME`s of the modules.  Each safety theorem rests on an
inductive invariant; the sentences below say what it adds to the property and
why the property alone is not inductive.

* `SpscRingProofs`.  `RingInv`: between load and publish the producer's view
  of a free slot stays true because only it advances `producer`; the slot it
  writes is outside the unread range; the consumer's copy is the oldest unread
  record.  From it: types, `UnreadIntact`, `DeliveredInOrder`, and the
  refinement of `BoundedFifo` by a step simulation.  `NoFalseCorruption`
  assumes `MaxRecords <= MaxCounter`: the code refuses a counter at its largest
  value (2^64 - 1) rather than wrap it.
* `AccessLeasesProofs`.  `LeaseInv`: counts and flags are those of the leases
  held (`StatesOf`), and leases held are compatible.  The scan is handled by
  one lemma: granting a set that `Grants` allows keeps both.  For
  `NobodyForgotten` the order of the queue matters: who is ahead of a waiter is
  a total order of the waiters, so that a waiter the scan left behind has a
  reason, and the reason can go only by a release, an interrupted wait or a
  close, each of which scans.  `NoBypass` is an action property of the scan.
* `BufferSessionsProofs`, first part, the pool alone.  `PoolInv`: the batch of
  a collection is disjoint from the cache, a region between reset and cache is
  `chosen`, and after the sweep no collection can store.  From it: the cache
  limits, that a closed pool stays empty, that nothing is stranded, and that
  the byte counter is the sum of the cached lengths (`BytesAccounted`): every
  step moves at most one region into or out of the cache, and changes the sum
  by its length.
* `BufferSessionsProofs`, second part, the pool with its sessions.
  `SessionsInv`: a mapping the host remembers is of the current generation and
  its session is a recipient of the region, which a collection therefore asks
  before it resets; a worker's table is within the host's or the session is
  broken; an invocation whose caller has not returned pins its regions, which
  are therefore active, and a session stays open as long as one of its callers
  has not closed it.  `SessionsImplementPool` (`SessionsSpec => Spec`) shows that what
  sessions do to the manager are steps of the pool, so that the theorems of the
  first part hold of the composition too.
* `SessionDispatchProofs`.  `DispatchInv`: each caller has its own submission
  (`OwnSubmission`), the completion in hand is not pending (`OneHand`), and the
  number of active calls is exact (`CallsCounted`).  Without the first, the
  outcome of one caller could be another's.  For `NoFalseAlarm`: every command
  and completion under way is awaited (`AllAwaited`), none twice
  (`AllDistinct`), and a submission that has not been pushed is nowhere else
  (`UnsentAlone`).  For `CleanCloseStopped`: one closer at a time (`OneCloser`),
  and a completion thread that was joined has ended (`EndsJoined`).
* `IsolatedBackendProofs`.  `BackendInv`: the counter counts the threads
  inside (`InflightCounted`), an entry of `_creating` has exactly one owner
  (`CreationsOwned`), a session that is not closed is in the table, with its
  creator or with the closer (`SessionsHeld`), a thread's session is what its
  position says (`HandsDiffer`), and past the drain everything is empty
  (`ClosingInOrder`).  The properties follow from different parts of it;
  `OneSession` speaks of sessions that are not closed, not of workers.
  `BackendImplementsGate` is a step simulation under the same invariant: the
  threads inside the gate are those the counter counts and the creators, the
  workers are the sessions that are not closed, and the lingering ones those
  that are `left`.  That a close ends with nobody inside needs
  `ClosingInOrder`, that it ends with no other worker `SessionsHeld`.
* `RuntimeLifecycleProofs`.  `RuntimeInv`: the work counter counts the threads
  inside, so that a closer that has waited is alone (`CloseExclusive`); an open
  backend has one owner, the table or a discovery (`OwnersHold`, `OwnersApart`),
  so that no failed or overtaken publication loses one; and the generation
  grows with every change of the catalog, so that an unchanged generation means
  an unchanged operation (`CurrentIsUnchanged`).  `RuntimeUsesGates` shows
  `BackendsAreGates` with three further facts (`GatesInv`): a call goes to a
  backend that was started, none was sent to one that is not published yet, and
  a replaced backend is open until its close begins and closing until it ends.
  Every close that somebody may be inside of, through a backward call too, is
  begun and waits.  The one close that the model takes for one step, that of a
  backend which cannot be published, is a step of the gate only because nobody
  can be inside then, which is what the proof establishes.
  Together with `BackendImplementsGate` it links the runtime to the sessions.
* `ComponentsProofs`.  Startup: `StartupInv` says for every position of the
  coroutine what it owns and what the cleanup has not closed, and what an answer
  under way says about the hooks.
  Log channel: besides the types, `LossesCounted` is inductive; each step moves
  a record to another place, or misplaces one and counts one (as `refused` where
  a reader skips it), and a count moves
  from the logger to the sender, the socket and the collector.  What packets
  announce is a sum over a queue, and the evicted record is found by a search,
  which the lemmas `AnnouncedTail` and `LowestIsThere` are about.  Arena:
  `ArenaOutlivesStorages` by itself; for the other two `ArenaInv` says that the
  free list is sorted with a gap between any two blocks (`FreeList`), that
  blocks and padded allocations lie on the alignment and are apart, and that
  together they cover the arena (`Layout`).  The sort of the code puts one block
  into a sorted list (`InsertionPlace`, `SortedOrders`), the loop that merges
  keeps the bytes of what it has read and leaves gaps (`JoinedKeeps`,
  `MergedKeeps`), and a collection repeats this for a queue.  A run of free
  bytes cannot cross a gap, hence lies in one block, hence `FitsIfItCould`.
  Descriptors: `DescriptorsAreClosed` is `DescriptorsAccounted` for batches of
  any length and any set of entries that raise, for datagrams with one control
  message (`Deliverable`); the loop over the entries keeps
  `Serving`, which says of every descriptor how often it has been closed and
  whether it was crossed out.  No scaled limit of the protocol is used.
  Control frames: `ControlFramesArrive` is the part of `MessagesReadBack` about
  the control protocol, for all texts, numbers, entries and descriptors: a frame
  its encoder accepts is sent with as many descriptors as it has roles or MAP
  entries, received with the same ones, and decoded to the message.  Of the
  limits it uses that a startup has no more roles than a datagram may carry
  descriptors, true of the code's values (16 and 240) and of the scaled ones.
  Views: `AcceptedViewsAreInside` and `DescribedViewsAreAccepted` are what `CallsAgree` checks of views, for every
  rank, shape and strides; the second assumes that an allocation starts at a
  multiple of the element size, which regions (offset 0) and the arena's
  alignment give.
* `SetSums`.  Sums over finite sets as the folds of the community modules
  compute them.  The induction theorems of the library take a predicate as a
  parameter and cannot be used by the provers; these lemmas argue by a smallest
  counterexample in a set of counterexamples instead (`SmallestSubset`,
  `LeastMember`), which needs no operator.

Model-checked only: all liveness, because fairness and `ENABLED` are beyond the
prover; and of the pure parts the read-back of ring and log records, the calls
other than the views, and the catalog.  `Invocations` and `Manifests` use
recursive operators, about which nothing can be proved here; what a ring or log
record yields for every text depends on where the text is cut, a fold over its
characters that would need an induction over data.
`MemoryAccounted` joins properties of pool and arena in a module that reaches
those recursive operators; what it joins is proved part by part (`PoolBounded`,
`ClosedPoolEmpty`, `BatchesEnd`, `BytesAreCounted`, `ArenaIsClosedLast`).

## 5. Abstractions

* A ring record in `SpscRing` is one value, a completion in `SessionDispatch` a
  status; their layout is `RingRecords`.  Error texts, statistics and
  profiling are left out.
* Free lists of the pool are sets: which cached region is reused is any of the
  right length.  A collection that finds nothing is not a step, except in close.
* A pop looks at the closed flag after its last look at the counters, so that a
  record published in between is left in the ring by a close; no property
  claims otherwise.  Nor do counters wrap (`docs/ring-protocol.md` says so): the
  code refuses the largest value, which no run reaches.
* Eventfds are flags: only readability matters to the waits.
* The Python worker gives its ring thread five seconds at shutdown and then
  exits under it; that is `WorkerDies`.  `ring_ping` and `ping` add nothing to
  the submissions modelled.
* `plugin_environment` uses a session like a call that returns at once.
* Read-only mappings of arenas are permanent and not in `BufferSessions`.
* Names of parameters, dtypes and enums are small numbers or strings; a schema
  has scalar properties, no arrays and no nested objects.
* In `RuntimeLifecycle` an operation stands for its plugin, and the fingerprint
  of the plugin's configuration schema stands for its metadata: the catalogs of
  the runs differ in it.

## 6. Observations

What the models show or the translation met, beside the findings.  A property
that would exclude one of them is stated with that exemption; the sentence of
the documentation that it disagrees with, where there is one, is named.

Runtime and backends

* A configuration accepted while a discovery runs is overwritten by the one the
  discovery had read (`runtime.py:265`).
* `load_plugins` below the isolated backend leaves the old workers serving the
  new catalog until the next discovery; `configure_bundled` after it can orphan
  initialized providers.
* An interrupt in the wait of `Runtime.close` leaves the state at closing
  (`Abandoned`), and later closes wait for it.
* An interrupt between the dispatch of a call and its completion leaves an
  invalidated session in the table until the next call reports it
  (`isolated.py:167`).
* An interrupt in the wait of a backend's `close` leaves the backend at closing,
  with its workers (`isolated.py:183`).  Below a rediscovery the runtime has
  already replaced it, below `Runtime.close` it is collected as an error and the
  backend forgotten (`runtime.py:306`, `runtime.py:576-582`): nobody can finish
  it.  `BackendsOwned` and `SleepersWake` except these.
* `WorkerSession.close` joins the session thread for the shutdown deadline, then
  marks the session closed and raises while the worker may still run
  (`worker_process.py:262-273`).  The error is dropped (`worker_process.py:712`,
  `isolated.py:264`) or collected (`isolated.py:189-192`): a replacement starts
  beside the old worker, although `docs/architecture-overview.md:127` speaks of
  one persistent worker per plugin, and a backend is closed with a worker
  running.  These are the sessions that are `left`.
* Backward calls (`autograd.py:101`) are not accepted work: `Runtime.close` waits
  for them in the backend, not in the runtime.
* Internal operations take part in the ambiguity of public short names.

Startup

* If the startup deadline expires before the task exists, the cancellation is
  lost and the coroutine runs on until its own deadlines.
* A failure before the first `try` leaves sockets to their garbage collection
  and raw descriptors open (`OpenFails`, `LaunchFails`); one error path closes a
  log descriptor twice.
* The cleanup of a connection (`worker_process.py:1046-1079`) does not close
  `fd_child` if the request was not sent, nor the descriptors that were detached
  or duplicated for a `Session` that was not made (1030-1040).
* The worker runs the shutdown hook only after an initialize hook
  (`worker.py:150-158`, 259), and a manifest may declare shutdown alone
  (`plugins.py:100-104`): such a plugin is stopped without an error and without
  its hook, although `docs/ring-protocol.md:202-203` says that `Runtime.close`
  invokes each enabled shutdown hook once.  `HooksPaired` leaves it out.
* The echo of a configuration shares the 64 KiB frame with the rest of the
  answer (`worker.py:160-189`, `docs/ring-protocol.md:194`).

Logging

* `bind` copies the counter of drops and shares the queue: what a bound logger
  drops is counted in the copy and never announced (`wmfs_plugin/logging.py:142`,
  `logging.py:387`), although `docs/ring-protocol.md:222-223` says that sinks
  report the count when delivery resumes.  `LossesCounted` counts it, and says
  nothing about announcing.
* The collector skips packets that are too long or cannot be decoded, and
  records that Python logging raises on, such as those with a field of a reserved
  name, without counting them (`logging.py:335`, 338, 310-315).
* The file sink of `InProcessLogger` loses the count of dropped records when a
  write fails; `AsyncLogger` may report a count twice.
* After the join of `close` has timed out, the descriptor is closed under a
  sender that may still use it.
* Field names that are cut may collide or become empty, and the reader refuses
  the record; the host's encoder computes the space for fields without the
  names and texts before them.

Codecs and calls

* `str(error)[:1024]` counts characters where the limit counts bytes.
* An int64 scalar beyond 64 bits wraps in the Python encoder
  (`transport/ring.py:297`); the native client refuses it and the session is
  invalidated.
* The promotion of an integer tensor with a float depends on the Torch default
  dtype.  Runtime and worker evaluate it each in its own process
  (`output_metadata.py:152`, `wmfs_plugin/invocation.py:92`), and nothing
  compares the defaults: after `torch.set_default_dtype` in the runtime the
  worker refuses the outputs planned by promotion.
* A second ancillary message would leave its descriptors open (`control.py:495`);
  the kernel delivers none to these sockets.  A batch that fails in `add` after a
  close closes the descriptor again.
* A dtype variable that no input uses is accepted; read-write inputs that are
  not managed are copied and not written back; views of size zero are refused;
  the bundled backend takes an enum by name only; without a configuration,
  required fields are not asked for.
* The worker keeps the rule name `promote_tensor_scalar` where the runtime has
  `promoteTensorScalar`; both are taken for a promotion.

## 7. Not modelled

* The interface generator and its parser: a build-time transformation of text
  into text.  What it must establish, that manifest and worker agree, is checked
  in `Manifests` from its readers' side.
* The reference plugin's kernels and stubs, and the numerical part of autograd.
* The benchmark, which measures the system.
* `src/log.cpp` on its own: the same queue rules as the Python logger.
* `configure_memory` and `configure_deadlines`, which set values before a
  discovery; the readers of the older metadata format; JSON syntax, and arrays
  and nested objects in configurations.

## 8. Plan

Done, in this order: rings and their abstract FIFO, leases, pool, arena, pool
with sessions, dispatcher, isolated backend, the runtime, the startup, the log
channel, and the pure parts; then proofs of the safety properties of every
concurrent component, of the arena, of control frames and of the descriptors of
a datagram, and the refinements that link runtime and backend, and the rings to their FIFO.

Next, when the code moves there: the sessions that `IsolatedBackend` uses as a
refinement by `SessionStartup` followed by `SessionDispatch`; the read-back of
ring and log records.

The project stays at about a dozen runs and forty properties: the properties of
a new module replace shallower ones, and a run that a larger composition covers
is given up for it.
