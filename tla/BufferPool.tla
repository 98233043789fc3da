----------------------------- MODULE BufferPool -----------------------------
(***************************************************************************)
(* The pooled mode of wmfs.memory.buffers.BufferManager: memfd regions     *)
(* that are handed out by exact size, released by the finalizer of a Torch *)
(* storage, and brought back by a collection that drains the release       *)
(* queue, asks every recipient to retire its mappings, resets the memory   *)
(* and caches the region within the limits of the pool.                    *)
(*                                                                         *)
(* The manager has two locks.  _collection_lock admits one collection at a *)
(* time; _lock guards the tables.  A step of this module is what the code  *)
(* does between taking and dropping _lock, or one call to a recipient made *)
(* outside it, so that allocations, finalizers and close() run between the *)
(* steps of a collection exactly where the code lets them.                 *)
(*                                                                         *)
(* A region hosts one allocation per generation, so an allocation is named *)
(* by its region.  The free lists are sets: which of two cached regions of *)
(* one size is popped does not matter here.                                *)
(***************************************************************************)
EXTENDS Integers, FiniteSets, FiniteSetsExt

CONSTANTS
    Regions,         \* every memfd the manager ever creates
    Sessions,        \* the worker sessions that may map a region
    Lengths,         \* the byte lengths that are requested
    MaxGeneration,   \* stands for 0xFFFFFFFF
    MaxCachedBuffers,
    MaxCachedBytes,
    NoRegion

ASSUME PoolAssumption ==
    /\ IsFiniteSet(Regions)
    /\ Lengths \subseteq Nat \ {0}
    /\ MaxGeneration \in Nat \ {0}
    /\ MaxCachedBuffers \in Nat
    /\ MaxCachedBytes \in Nat
    /\ NoRegion \notin Regions

VARIABLES
    place,        \* where a region is, see Places
    length,       \* _MemoryRegion.byte_length, 0 before it exists
    generation,   \* _MemoryRegion.generation
    recipients,   \* _MemoryRegion.recipients
    cachedBytes,  \* _cached_bytes
    closing,      \* how far BufferManager.close() has come
    collector,    \* who holds _collection_lock
    phase,        \* where that collection is
    unasked,      \* recipients of the batch not yet asked to retire
    failed,       \* failed_regions
    chosen        \* the region between its reset and the cache

poolVars == <<place, length, generation, recipients, cachedBytes, closing,
              collector, phase, unasked, failed, chosen>>

-----------------------------------------------------------------------------
(* none: not created; active: in _active with a live storage; released: in *)
(* _active, its id in _released; draining: in the batch of a collection;   *)
(* cached: in _free; shut: closed for good.                                *)
Places == {"none", "active", "released", "draining", "cached", "shut"}

At(p) == {r \in Regions : place[r] = p}

\* close() sets _closed first of all.
closed == closing # "open"

MoveAll(from, to) == [r \in Regions |-> IF r \in from THEN to ELSE place[r]]

Init ==
    /\ place = [r \in Regions |-> "none"]
    /\ length = [r \in Regions |-> 0]
    /\ generation = [r \in Regions |-> 0]
    /\ recipients = [r \in Regions |-> {}]
    /\ cachedBytes = 0
    /\ closing = "open"
    /\ collector = "none"
    /\ phase = "idle"
    /\ unasked = {}
    /\ failed = {}
    /\ chosen = NoRegion

-----------------------------------------------------------------------------
(* BufferManager.empty() collects first (Drain and the steps after it) and *)
(* then takes _lock to allocate.  A cached region of the exact length is   *)
(* used before a new memfd is made.                                        *)
AllocateCached(n) ==
    /\ ~closed
    /\ \E r \in At("cached") :
         /\ length[r] = n
         /\ place' = [place EXCEPT ![r] = "active"]
         /\ cachedBytes' = cachedBytes - n
    /\ UNCHANGED <<length, generation, recipients, closing, collector, phase,
                   unasked, failed, chosen>>

AllocateNew(n) ==
    /\ ~closed
    /\ \A r \in At("cached") : length[r] # n
    /\ \E r \in At("none") :
         /\ place' = [place EXCEPT ![r] = "active"]
         /\ length' = [length EXCEPT ![r] = n]
         /\ generation' = [generation EXCEPT ![r] = 1]
    /\ UNCHANGED <<recipients, cachedBytes, closing, collector, phase,
                   unasked, failed, chosen>>

\* The last alias of the storage is gone: the finalizer queues the
\* allocation, without any lock.
StorageReleased(r) ==
    /\ place[r] = "active"
    /\ place' = [place EXCEPT ![r] = "released"]
    /\ UNCHANGED <<length, generation, recipients, cachedBytes, closing,
                   collector, phase, unasked, failed, chosen>>

\* A session has mapped the regions for an invocation, which holds the
\* tensors: SharedBuffer.register_recipient on each of them.
Register(s, mapped) ==
    /\ mapped \subseteq At("active")
    /\ recipients' = [r \in Regions |->
          IF r \in mapped THEN recipients[r] \cup {s} ELSE recipients[r]]
    /\ UNCHANGED <<place, length, generation, cachedBytes, closing, collector,
                   phase, unasked, failed, chosen>>

-----------------------------------------------------------------------------
(* _collect by a caller of collect(), stats() or empty(), or by close().   *)
(* One that finds the queue empty changes nothing but its counters, and is *)
(* a step only for close(), which goes on after it.                        *)
Drain(who) ==
    /\ collector = "none"
    /\ IF who = "closer" THEN closing = "flagged" ELSE At("released") # {}
    /\ collector' = who
    /\ phase' = "retire"
    /\ place' = MoveAll(At("released"), "draining")
    /\ unasked' = UNION {recipients[r] : r \in At("released")}
    /\ UNCHANGED <<length, generation, recipients, cachedBytes, closing,
                   failed, chosen>>

\* The buffers one recipient is asked to retire, in one call.
BatchOf(s) == {r \in At("draining") : s \in recipients[r]}

\* recipient.retire_buffers() returned.
RetireDone(s) ==
    /\ phase = "retire"
    /\ s \in unasked
    /\ unasked' = unasked \ {s}
    /\ UNCHANGED <<place, length, generation, recipients, cachedBytes,
                   closing, collector, phase, failed, chosen>>

\* Fault: a recipient that does not answer is taken to have retired.
RetireFailed_Ignored(s) == RetireDone(s)

\* recipient.retire_buffers() raised: none of its buffers may be reused.
RetireFailed(s) ==
    /\ phase = "retire"
    /\ s \in unasked
    /\ unasked' = unasked \ {s}
    /\ failed' = failed \cup BatchOf(s)
    /\ UNCHANGED <<place, length, generation, recipients, cachedBytes,
                   closing, collector, phase, chosen>>

AllAsked ==
    /\ phase = "retire"
    /\ unasked = {}
    /\ phase' = "reset"
    /\ UNCHANGED <<place, length, generation, recipients, cachedBytes,
                   closing, collector, unasked, failed, chosen>>

Quarantine(r) ==
    /\ phase = "reset"
    /\ place[r] = "draining"
    /\ r \in failed
    /\ place' = [place EXCEPT ![r] = "shut"]
    /\ UNCHANGED <<length, generation, recipients, cachedBytes, closing,
                   collector, phase, unasked, failed, chosen>>

\* A closed manager, or a region whose generations are used up.
Discard(r) ==
    /\ phase = "reset"
    /\ place[r] = "draining"
    /\ r \notin failed
    /\ closed \/ generation[r] = MaxGeneration
    /\ place' = [place EXCEPT ![r] = "shut"]
    /\ UNCHANGED <<length, generation, recipients, cachedBytes, closing,
                   collector, phase, unasked, failed, chosen>>

\* _MemoryRegion.reset(), outside _lock: close() may come before the region
\* reaches the cache.
Reset(r) ==
    /\ phase = "reset"
    /\ place[r] = "draining"
    /\ r \notin failed
    /\ ~closed
    /\ generation[r] < MaxGeneration
    /\ generation' = [generation EXCEPT ![r] = @ + 1]
    /\ recipients' = [recipients EXCEPT ![r] = {}]
    /\ chosen' = r
    /\ phase' = "store"
    /\ UNCHANGED <<place, length, cachedBytes, closing, collector, unasked,
                   failed>>

\* Fault: a reset that raises leaves the rest of the batch behind.
ResetFails_KeepsBatch(r) ==
    /\ phase = "reset"
    /\ place[r] = "draining"
    /\ r \notin failed
    /\ ~closed
    /\ generation[r] < MaxGeneration
    /\ place' = [place EXCEPT ![r] = "shut"]
    /\ phase' = "idle"
    /\ collector' = "none"
    /\ failed' = {}
    /\ UNCHANGED <<length, generation, recipients, cachedBytes, closing,
                   unasked, chosen>>

\* reset() raised: the region is closed, the exception leaves the collection
\* and the regions left in the batch go with it.
ResetFails(r) ==
    /\ phase = "reset"
    /\ place[r] = "draining"
    /\ r \notin failed
    /\ ~closed
    /\ generation[r] < MaxGeneration
    /\ place' = MoveAll(At("draining"), "shut")
    /\ phase' = "idle"
    /\ collector' = "none"
    /\ failed' = {}
    /\ UNCHANGED <<length, generation, recipients, cachedBytes, closing,
                   unasked, chosen>>

\* What keeps a freshly reset region out of the cache.
CacheRefuses(r) ==
    \/ closed
    \/ Cardinality(At("cached")) >= MaxCachedBuffers
    \/ cachedBytes + length[r] > MaxCachedBytes

\* The second half of _reset_or_release_region, under _lock again.
Store ==
    /\ phase = "store"
    /\ phase' = "reset"
    /\ chosen' = NoRegion
    /\ IF CacheRefuses(chosen)
       THEN /\ place' = [place EXCEPT ![chosen] = "shut"]
            /\ UNCHANGED cachedBytes
       ELSE /\ place' = [place EXCEPT ![chosen] = "cached"]
            /\ cachedBytes' = cachedBytes + length[chosen]
    /\ UNCHANGED <<length, generation, recipients, closing, collector,
                   unasked, failed>>

CollectDone ==
    /\ phase = "reset"
    /\ At("draining") = {}
    /\ phase' = "idle"
    /\ collector' = "none"
    /\ failed' = {}
    /\ closing' = IF collector = "closer" THEN "collected" ELSE closing
    /\ UNCHANGED <<place, length, generation, recipients, cachedBytes,
                   unasked, chosen>>

-----------------------------------------------------------------------------
(* BufferManager.close(): the flag, a collection, then the free lists.     *)
CloseFlag ==
    /\ closing = "open"
    /\ closing' = "flagged"
    /\ UNCHANGED <<place, length, generation, recipients, cachedBytes,
                   collector, phase, unasked, failed, chosen>>

CloseFree ==
    /\ closing = "collected"
    /\ closing' = "swept"
    /\ place' = MoveAll(At("cached"), "shut")
    /\ cachedBytes' = 0
    /\ UNCHANGED <<length, generation, recipients, collector, phase, unasked,
                   failed, chosen>>

-----------------------------------------------------------------------------
CollectStep ==
    \/ \E who \in {"caller", "closer"} : Drain(who)
    \/ AllAsked
    \/ \E r \in Regions : Quarantine(r) \/ Discard(r) \/ Reset(r)
                              \/ ResetFails(r)
    \/ Store
    \/ CollectDone

RetireStep == \E s \in Sessions : RetireDone(s) \/ RetireFailed(s)

CloseStep == CloseFlag \/ CloseFree

AllocateStep == \E n \in Lengths : AllocateCached(n) \/ AllocateNew(n)

Next ==
    \/ AllocateStep
    \/ \E r \in Regions : StorageReleased(r)
    \/ \E s \in Sessions, mapped \in SUBSET Regions : Register(s, mapped)
    \/ CollectStep
    \/ RetireStep
    \/ CloseStep

Spec == Init /\ [][Next]_poolVars

-----------------------------------------------------------------------------
(* Every variable has the type of the attribute it stands for, and the     *)
(* steps of a collection only ever hold regions that are in its batch:     *)
(* the region between reset() and the cache is one of them.                *)
TypeOK ==
    /\ place \in [Regions -> Places]
    /\ length \in [Regions -> Lengths \cup {0}]
    /\ generation \in [Regions -> 0 .. MaxGeneration]
    /\ recipients \in [Regions -> SUBSET Sessions]
    /\ cachedBytes \in Int
    /\ closing \in {"open", "flagged", "collected", "swept"}
    /\ collector \in {"none", "caller", "closer"}
    /\ phase \in {"idle", "retire", "reset", "store"}
    /\ unasked \subseteq Sessions
    /\ failed \subseteq Regions
    /\ phase = "store" => chosen \in At("draining")
    /\ phase # "store" => chosen = NoRegion

(* The pool never keeps more idle memfds or idle bytes than its limits     *)
(* allow, although the limits are tested by the collection and the cache   *)
(* is emptied by allocations and by close() in between.                    *)
CacheWithinLimits ==
    /\ Cardinality(At("cached")) <= MaxCachedBuffers
    /\ cachedBytes <= MaxCachedBytes

(* _cached_bytes is the sum of the lengths of the cached regions: it is    *)
(* kept by hand in three methods and is what the limit is tested against.  *)
BytesAccounted ==
    cachedBytes = MapThenSumSet(LAMBDA r : length[r], At("cached"))

(* Once close() has swept the free lists nothing is cached again, whatever *)
(* collections, finalizers and allocations still do: each of them tests    *)
(* the flag that close() set before its own collection, and one that had   *)
(* passed the test earlier is waited for.                                  *)
SweptStaysEmpty == closing = "swept" => At("cached") = {}

(* A region waiting for its reset is in the batch of the one collection    *)
(* that is running: no region is stranded when that collection ends.       *)
NothingStranded == collector = "none" => phase = "idle" /\ At("draining") = {}

(* A collection is somewhere exactly while its lock is held, and close()   *)
(* runs its own only between the flag and the sweep.                       *)
CollectorInv ==
    /\ collector = "none" <=> phase = "idle"
    /\ collector = "closer" => closing = "flagged"

PoolInv ==
    /\ TypeOK
    /\ CollectorInv
    /\ CacheWithinLimits
    /\ SweptStaysEmpty
    /\ NothingStranded
=============================================================================
