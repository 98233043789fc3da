--------------------------- MODULE BufferSessions ---------------------------
(***************************************************************************)
(* The buffer pool together with the worker sessions that map its memory:  *)
(* invocations of WorkerSession (worker_process.py), the table of mappings *)
(* the host keeps for a worker (native_session.cpp), the table the worker  *)
(* keeps itself (fd_transport.py, reference_mapped_buffers.cpp), and the   *)
(* operation the worker runs on the mapped memory.                         *)
(*                                                                         *)
(* The mutex of a native session is held over a whole FD batch and its     *)
(* acknowledgement, so mapping, retiring and closing are single steps; an  *)
(* acknowledgement that is late or lost is a second outcome of the step.   *)
(* An invocation is used once, which stands for the invocation ids that    *)
(* are never reused.                                                       *)
(***************************************************************************)
EXTENDS BufferPool

CONSTANTS
    Invocations,
    NoInvocation,
    Overruns        \* may a request outlive its deadline

ASSUME SessionAssumption ==
    /\ NoInvocation \notin Invocations
    /\ Overruns \in BOOLEAN

VARIABLES
    stage,      \* where an invocation is, see below
    on,         \* its session
    handles,    \* the buffers its command names, at their generation
    valid,      \* not _invalidated
    open,       \* the native session is not closed
    mirror,     \* Session::Impl::mappings
    alive,      \* the worker process runs
    table,      \* MappedBufferCache in the worker
    queued,     \* invocations whose command is in the command ring
    serving     \* the invocation the worker executes

sessionVars == <<stage, on, handles, valid, open, mirror, alive, table,
                 queued, serving>>

vars == <<poolVars, sessionVars>>

-----------------------------------------------------------------------------
(* Stages of an invocation: new, mapping, mapped, submitted, then          *)
(* completed or refused by the worker, or aborting; closing if it failed   *)
(* and its session is invalid, which it then closes; and over.             *)

\* The invocation is inside `with reserve_invocation_access(...)`.
Holding(i) == stage[i] \notin {"new", "closing", "over"}

\* Its frames, or those of the error it will raise, refer to its tensors.
Pinned(i) == stage[i] \notin {"new", "over"}

\* Where a call goes that fails on a session with this validity.
Failed(ok) == IF ok THEN "over" ELSE "closing"

RegionsOf(hs) == {h.region : h \in hs}

SameKey(a, b) == a.region = b.region /\ a.gen = b.gen

\* The entries of a table that are keyed like one of hs.
Keyed(entries, hs) == {e \in entries : \E h \in hs : SameKey(e, h)}

\* What finish_invocation and its host counterpart drop.
WritableBy(entries, i) == {e \in entries : e.writable /\ e.by = i}

SessionInit ==
    /\ stage = [i \in Invocations |-> "new"]
    /\ on \in [Invocations -> Sessions]
    /\ handles = [i \in Invocations |-> {}]
    /\ valid = [s \in Sessions |-> TRUE]
    /\ open = [s \in Sessions |-> TRUE]
    /\ mirror = [s \in Sessions |-> {}]
    /\ alive = [s \in Sessions |-> TRUE]
    /\ table = [s \in Sessions |-> {}]
    /\ queued = [s \in Sessions |-> {}]
    /\ serving = [s \in Sessions |-> NoInvocation]

-----------------------------------------------------------------------------
(* Fault: the lease does not keep the tensors of its invocation.           *)
Release_Unpinned(r) == StorageReleased(r) /\ UNCHANGED sessionVars

(* The buffer manager while sessions are about.  The last alias of a       *)
(* storage cannot go while an invocation holds the tensor.                 *)
Release(r) ==
    /\ \A i \in Invocations : Pinned(i) => r \notin RegionsOf(handles[i])
    /\ StorageReleased(r)
    /\ UNCHANGED sessionVars

PoolStep ==
    /\ AllocateStep \/ CollectStep \/ CloseStep
    /\ UNCHANGED sessionVars

\* The mappings a retire_buffers call finds in the host's table.
ToRetire(s) ==
    {e \in mirror[s] : e.region \in BatchOf(s) /\ e.gen = generation[e.region]}

\* Session::retire_buffers for a batch of the collection.  The table of a
\* closed session is empty, so that nothing is sent on its behalf.
RetireNothing(s) ==
    /\ ToRetire(s) = {}
    /\ RetireDone(s)
    /\ UNCHANGED sessionVars

RetireAcked(s) ==
    /\ ToRetire(s) # {}
    /\ alive[s]
    /\ \A t \in table[s], e \in ToRetire(s) :
         t.region = e.region => t.gen = e.gen
    /\ RetireDone(s)
    /\ mirror' = [mirror EXCEPT ![s] = @ \ ToRetire(s)]
    /\ table' = [table EXCEPT ![s] = @ \ Keyed(@, ToRetire(s))]
    /\ UNCHANGED <<stage, on, handles, valid, open, alive, queued, serving>>

\* No acknowledgement: the batch may or may not have reached the worker.
RetireLost(s) ==
    /\ ToRetire(s) # {}
    /\ Overruns \/ ~alive[s]
    /\ RetireFailed(s)
    /\ table' \in {table,
                   [table EXCEPT ![s] = @ \ Keyed(@, ToRetire(s))]}
    /\ UNCHANGED <<stage, on, handles, valid, open, mirror, alive, queued,
                   serving>>

-----------------------------------------------------------------------------
(* An invocation.  It begins when its session takes calls and its leases   *)
(* are granted: other invocations may share a buffer only to read it.      *)
Taken(r, writable) ==
    \E j \in Invocations : \E h \in handles[j] :
        /\ Holding(j)
        /\ h.region = r
        /\ h.writable \/ writable

Begin(i) ==
    /\ stage[i] = "new"
    /\ valid[on[i]] /\ open[on[i]]
    /\ ~closed
    /\ \E reads, writes \in SUBSET At("active") :
         /\ reads \cup writes # {}
         /\ reads \cap writes = {}
         /\ \A r \in reads : ~Taken(r, FALSE)
         /\ \A r \in writes : ~Taken(r, TRUE)
         /\ handles' = [handles EXCEPT ![i] =
              {[region |-> r, gen |-> generation[r],
                writable |-> r \in writes] : r \in reads \cup writes}]
    /\ stage' = [stage EXCEPT ![i] = "mapping"]
    /\ UNCHANGED <<on, valid, open, mirror, alive, table, queued, serving>>
    /\ UNCHANGED poolVars

\* Session::map_buffers: a buffer is sent if it is not mapped, or mapped
\* read-only and now to be written; then the old mapping is retired in the
\* same batch.
Needed(i) ==
    {h \in handles[i] : \A e \in mirror[on[i]] :
        SameKey(e, h) => h.writable /\ ~e.writable}

Sent(i) ==
    {[region |-> h.region, gen |-> h.gen, writable |-> h.writable, by |-> i] :
        h \in Needed(i)}

Superseded(i) == Keyed(mirror[on[i]], Needed(i))

Remap(entries, i) == (entries \ Keyed(entries, Superseded(i))) \cup Sent(i)

\* The worker refuses to map a buffer it still maps.
Conflict(i) ==
    \E t \in table[on[i]] \ Keyed(table[on[i]], Superseded(i)) :
        t.region \in RegionsOf(Needed(i))

MapAcked(i) ==
    LET s == on[i]
    IN  /\ stage[i] = "mapping"
        /\ Needed(i) # {} => alive[s] /\ ~Conflict(i)
        /\ mirror' = [mirror EXCEPT ![s] = Remap(@, i)]
        /\ table' = [table EXCEPT ![s] = Remap(@, i)]
        /\ Register(s, RegionsOf(Needed(i)))
        /\ stage' = [stage EXCEPT ![i] = "mapped"]
        /\ UNCHANGED <<on, handles, valid, open, alive, queued, serving>>

\* A worker that refuses a batch forgets all its mappings; one that answers
\* late may have carried it out or not.
TablesAfterFailure(i) ==
    LET known == table[on[i]]
    IN  CASE ~alive[on[i]] -> {known}
          [] alive[on[i]] /\ Conflict(i) -> {{}}
          [] OTHER -> IF Overruns THEN {known, Remap(known, i)} ELSE {}

\* Refused, late or lost: the host has entered the mappings in its table
\* before it sent them, registers no recipient and gives the session up.
\* A batch that precedes the planning of the outputs is not even aborted.
MapFailed(i) ==
    LET s == on[i]
    IN  /\ stage[i] = "mapping"
        /\ Needed(i) # {}
        /\ mirror' = [mirror EXCEPT ![s] = Remap(@, i)]
        /\ \E after \in TablesAfterFailure(i) :
             table' = [table EXCEPT ![s] = after]
        /\ valid' = [valid EXCEPT ![s] = FALSE]
        /\ \E to \in {"aborting", "closing"} :
             stage' = [stage EXCEPT ![i] = to]
        /\ UNCHANGED <<on, handles, open, alive, queued, serving>>
        /\ UNCHANGED poolVars

Dispatch(i) ==
    /\ stage[i] = "mapped"
    /\ stage' = [stage EXCEPT ![i] = "submitted"]
    /\ queued' = [queued EXCEPT ![on[i]] = @ \cup {i}]
    /\ UNCHANGED <<on, handles, valid, open, mirror, alive, table, serving>>
    /\ UNCHANGED poolVars

\* Planning or allocating the outputs failed before anything was dispatched.
PlanFails(i) ==
    /\ stage[i] = "mapped"
    /\ stage' = [stage EXCEPT ![i] = "aborting"]
    /\ UNCHANGED <<on, handles, valid, open, mirror, alive, table, queued,
                   serving>>
    /\ UNCHANGED poolVars

\* abort_invocation: the writable mappings of the invocation are retired.
AbortAcked(i) ==
    LET s == on[i]
        expired == WritableBy(mirror[s], i)
    IN  /\ stage[i] = "aborting"
        /\ expired # {} => alive[s]
        /\ mirror' = [mirror EXCEPT ![s] = @ \ expired]
        /\ table' = [table EXCEPT ![s] = @ \ Keyed(@, expired)]
        /\ stage' = [stage EXCEPT ![i] = Failed(valid[s])]
        /\ UNCHANGED <<on, handles, valid, open, alive, queued, serving>>
        /\ UNCHANGED poolVars

AbortLost(i) ==
    LET s == on[i]
        expired == WritableBy(mirror[s], i)
    IN  /\ stage[i] = "aborting"
        /\ expired # {}
        /\ Overruns \/ ~alive[s]
        /\ table' \in {table, [table EXCEPT ![s] = @ \ Keyed(@, expired)]}
        /\ stage' = [stage EXCEPT ![i] = Failed(valid[s])]
        /\ UNCHANGED <<on, handles, valid, open, mirror, alive, queued,
                       serving>>
        /\ UNCHANGED poolVars

-----------------------------------------------------------------------------
(* The worker takes one command at a time from the ring.  The host may     *)
(* have given the command up by then: the worker cannot tell.              *)
Usable(s, h, i) ==
    \E t \in table[s] :
        /\ SameKey(t, h)
        /\ h.writable => t.writable /\ t.by = i

WorkerStarts(s, i) ==
    /\ alive[s]
    /\ serving[s] = NoInvocation
    /\ i \in queued[s]
    /\ \A h \in handles[i] : Usable(s, h, i)
    /\ queued' = [queued EXCEPT ![s] = @ \ {i}]
    /\ serving' = [serving EXCEPT ![s] = i]
    /\ UNCHANGED <<stage, on, handles, valid, open, mirror, alive, table>>
    /\ UNCHANGED poolVars

\* A view cannot be made of a buffer that is not mapped as the command says.
WorkerRefuses(s, i) ==
    /\ alive[s]
    /\ serving[s] = NoInvocation
    /\ i \in queued[s]
    /\ \E h \in handles[i] : ~Usable(s, h, i)
    /\ queued' = [queued EXCEPT ![s] = @ \ {i}]
    /\ table' = [table EXCEPT ![s] = @ \ WritableBy(@, i)]
    /\ stage' = [stage EXCEPT ![i] = IF @ = "submitted" THEN "refused" ELSE @]
    /\ UNCHANGED <<on, handles, valid, open, mirror, alive, serving>>
    /\ UNCHANGED poolVars

\* Fault: the worker keeps the writable mappings of an invocation.
WorkerEnds_KeepsMappings(s) ==
    /\ serving[s] # NoInvocation
    /\ serving' = [serving EXCEPT ![s] = NoInvocation]
    /\ stage' = [stage EXCEPT ![serving[s]] =
                    IF @ = "submitted" THEN "completed" ELSE @]
    /\ UNCHANGED <<on, handles, valid, open, mirror, alive, table, queued>>
    /\ UNCHANGED poolVars

\* The operation ended, well or in an error of its own; its writable mappings
\* go before the completion is pushed.
WorkerEnds(s) ==
    LET i == serving[s]
    IN  /\ i # NoInvocation
        /\ serving' = [serving EXCEPT ![s] = NoInvocation]
        /\ table' = [table EXCEPT ![s] = @ \ WritableBy(@, i)]
        /\ stage' = [stage EXCEPT ![i] =
                        IF @ = "submitted" THEN "completed" ELSE @]
        /\ UNCHANGED <<on, handles, valid, open, mirror, alive, queued>>
        /\ UNCHANGED poolVars

WorkerDies(s) ==
    /\ alive[s]
    /\ alive' = [alive EXCEPT ![s] = FALSE]
    /\ table' = [table EXCEPT ![s] = {}]
    /\ queued' = [queued EXCEPT ![s] = {}]
    /\ serving' = [serving EXCEPT ![s] = NoInvocation]
    /\ UNCHANGED <<stage, on, handles, valid, open, mirror>>
    /\ UNCHANGED poolVars

-----------------------------------------------------------------------------
(* The host has its completion: it drops the writable mappings in turn.    *)
(* The operation gave a result or raised an error of its own ...           *)
HostCompletes(i) ==
    LET s == on[i]
    IN  /\ stage[i] = "completed"
        /\ mirror' = [mirror EXCEPT ![s] = @ \ WritableBy(@, i)]
        /\ \E to \in {"over", Failed(valid[s])} :
             stage' = [stage EXCEPT ![i] = to]
        /\ UNCHANGED <<on, handles, valid, open, alive, table, queued, serving>>
        /\ UNCHANGED poolVars

\* ... or the worker refused the command, which invalidates the session.
HostRefused(i) ==
    LET s == on[i]
    IN  /\ stage[i] = "refused"
        /\ mirror' = [mirror EXCEPT ![s] = @ \ WritableBy(@, i)]
        /\ valid' = [valid EXCEPT ![s] = FALSE]
        /\ stage' = [stage EXCEPT ![i] = "closing"]
        /\ UNCHANGED <<on, handles, open, alive, table, queued, serving>>
        /\ UNCHANGED poolVars

\* The deadline of the request expired: the session is invalidated, and the
\* invocation leaves its lease before it closes the session.
DeadlineExpires(i) ==
    /\ stage[i] = "submitted"
    /\ Overruns \/ ~alive[on[i]]
    /\ valid' = [valid EXCEPT ![on[i]] = FALSE]
    /\ stage' = [stage EXCEPT ![i] = "closing"]
    /\ UNCHANGED <<on, handles, open, mirror, alive, table, queued, serving>>
    /\ UNCHANGED poolVars

\* WorkerSession.close() waits for the calls in flight, then closes the native
\* session.  The worker acknowledges the shutdown when its ring thread has
\* ended; after the deadline the host goes on without it.  The process itself
\* is waited for, or killed, later: WorkerDies.
CloseSession(s) ==
    /\ open[s]
    /\ \A i \in Invocations : on[i] = s => ~Holding(i)
    /\ \/ /\ alive[s] => serving[s] = NoInvocation
          /\ queued' = [queued EXCEPT ![s] = {}]
       \/ Overruns /\ UNCHANGED queued
    /\ open' = [open EXCEPT ![s] = FALSE]
    /\ mirror' = [mirror EXCEPT ![s] = {}]
    /\ UNCHANGED <<stage, on, handles, valid, alive, table, serving>>
    /\ UNCHANGED poolVars

\* The close() of a failed call returns, and its error goes to the caller.  A
\* close() that gives the session thread up returns no earlier than this: the
\* native close holds the mutex that a collection needs.
CloseReturns(i) ==
    /\ stage[i] = "closing"
    /\ ~open[on[i]]
    /\ stage' = [stage EXCEPT ![i] = "over"]
    /\ UNCHANGED <<on, handles, valid, open, mirror, alive, table, queued,
                   serving>>
    /\ UNCHANGED poolVars

-----------------------------------------------------------------------------
InvocationStep(i) ==
    \/ Begin(i)
    \/ MapAcked(i) \/ MapFailed(i)
    \/ Dispatch(i) \/ PlanFails(i)
    \/ AbortAcked(i) \/ AbortLost(i)
    \/ HostCompletes(i) \/ HostRefused(i)
    \/ DeadlineExpires(i) \/ CloseReturns(i)

SessionStep(s) ==
    \/ RetireNothing(s) \/ RetireAcked(s) \/ RetireLost(s)
    \/ \E i \in Invocations : WorkerStarts(s, i) \/ WorkerRefuses(s, i)
    \/ WorkerEnds(s) \/ WorkerDies(s)
    \/ CloseSession(s)

SessionsInit == Init /\ SessionInit

SessionsNext ==
    \/ PoolStep
    \/ \E r \in Regions : Release(r)
    \/ \E i \in Invocations : InvocationStep(i)
    \/ \E s \in Sessions : SessionStep(s)

SessionsSpec == SessionsInit /\ [][SessionsNext]_vars

-----------------------------------------------------------------------------
Usual(s) == valid[s] /\ open[s]

(* A session that takes calls never remembers a mapping of memory that the *)
(* pool has reset or put back in its cache: the collection asks every      *)
(* session that maps a region, and quarantines it when one does not        *)
(* answer.                                                                 *)
MirrorCurrent ==
    \A s \in Sessions : Usual(s) =>
        \A e \in mirror[s] : /\ e.gen = generation[e.region]
                              /\ place[e.region] \in
                                   {"active", "released", "draining", "shut"}

(* The worker of such a session maps nothing that the host has forgotten,  *)
(* so that a map request is never refused as a remap: the worker drops     *)
(* the writable mappings of an invocation before the host does.            *)
TableWithinMirror ==
    \A s \in Sessions : Usual(s) => table[s] \subseteq mirror[s]

(* "A buffer returns to the pool only after ... all worker mappings have   *)
(* acknowledged retirement" (README.md): an operation that is running in a *)
(* worker still owns the memory it was given, at its generation.           *)
MemoryOutlivesKernel ==
    \A s \in Sessions : serving[s] # NoInvocation =>
        \A h \in handles[serving[s]] : generation[h.region] = h.gen

(* As long as the session is open, that is so: neither the release of the  *)
(* last alias nor a collection, nor one that failed half way in another    *)
(* session, takes the memory from under an operation, also not from one    *)
(* whose caller has given it up and is closing the session.                *)
OpenKeepsMemory ==
    \A s \in Sessions :
        open[s] /\ serving[s] # NoInvocation
        => \A h \in handles[serving[s]] : generation[h.region] = h.gen
=============================================================================
