------------------------ MODULE BufferSessionsProofs ------------------------
(***************************************************************************)
(* Proofs about the buffer pool together with the worker sessions, for any *)
(* number of regions, sessions and invocations: the composition behaves as *)
(* the pool alone does, a session that takes calls maps no recycled memory,*)
(* its worker maps nothing the host has forgotten, and an operation keeps  *)
(* its memory as long as its session is open.                              *)
(*                                                                         *)
(* The argument: the memory of an invocation stays in use until its call   *)
(* has returned (HandlesCurrent), which it does not while an open session  *)
(* has its command (CommandsAwaited), and every mapping a usable session   *)
(* remembers is of the current generation, known to the region as a        *)
(* recipient, and in the hands of the collection that drains its region    *)
(* (EntryGood).                                                            *)
(*                                                                         *)
(* They rest on the pool alone, for any number of regions and lengths: it  *)
(* stays within its limits, is empty once closed, strands no region and    *)
(* counts its idle bytes right.                                            *)
(***************************************************************************)
EXTENDS BufferSessions, SetSums

-----------------------------------------------------------------------------
(* The pool alone.                                                         *)

(***************************************************************************)
(* The cache is a finite set, so that its limit is a count.                *)
(***************************************************************************)
LEMMA CacheFinite ==
    ASSUME TypeOK
    PROVE  /\ IsFiniteSet(At("cached"))
           /\ Cardinality(At("cached")) \in Nat
<1>1. At("cached") \subseteq Regions
  BY DEF At
<1> QED
  BY <1>1, PoolAssumption, FS_Subset, FS_CardinalityType

(***************************************************************************)
(* What a step does to the places of the regions keeps the cache within    *)
(* its count when no region enters it.                                     *)
(***************************************************************************)
LEMMA CacheShrinks ==
    ASSUME TypeOK, CacheWithinLimits, At("cached")' \subseteq At("cached")
    PROVE  Cardinality(At("cached"))' <= MaxCachedBuffers
<1>1. /\ Cardinality(At("cached")') <= Cardinality(At("cached"))
      /\ Cardinality(At("cached")') \in Nat
  BY CacheFinite, FS_Subset, FS_CardinalityType
<1> QED
  BY <1>1, CacheFinite, PoolAssumption DEF CacheWithinLimits

(***************************************************************************)
(* A new manager has nothing in its pool.                                  *)
(***************************************************************************)
LEMMA PoolInitially == Init => PoolInv
<1> SUFFICES ASSUME Init PROVE PoolInv
  OBVIOUS
<1>1. TypeOK
  BY PoolAssumption DEF Init, TypeOK, Places, At
<1>2. At("cached") = {} /\ At("draining") = {}
  BY DEF Init, At
<1>3. Cardinality(At("cached")) = 0
  BY <1>2, FS_EmptySet
<1> QED
  BY <1>1, <1>2, <1>3, PoolAssumption
  DEF Init, PoolInv, CollectorInv, CacheWithinLimits, SweptStaysEmpty,
      NothingStranded

(***************************************************************************)
(* Allocating from the pool, from a new memfd, and releasing a storage.    *)
(***************************************************************************)
LEMMA AllocateKeepsPool ==
    ASSUME PoolInv, AllocateStep \/ \E r \in Regions : StorageReleased(r)
    PROVE  PoolInv'
<1> USE DEF PoolInv
<1>1. ASSUME NEW n \in Lengths, AllocateCached(n) PROVE PoolInv'
  <2> PICK r \in At("cached") : /\ length[r] = n
                                /\ place' = [place EXCEPT ![r] = "active"]
                                /\ cachedBytes' = cachedBytes - n
    BY <1>1 DEF AllocateCached
  <2>1. TypeOK'
    BY <1>1, PoolAssumption DEF AllocateCached, TypeOK, Places, At
  <2>2. At("cached")' \subseteq At("cached") /\ At("draining")' = At("draining")
    BY DEF At, TypeOK
  <2>3. cachedBytes' <= MaxCachedBytes
    BY PoolAssumption DEF TypeOK, CacheWithinLimits
  <2> QED
    BY <1>1, <2>1, <2>2, <2>3, CacheShrinks
    DEF AllocateCached, CollectorInv, CacheWithinLimits, SweptStaysEmpty,
        NothingStranded
<1>2. ASSUME NEW n \in Lengths, AllocateNew(n) PROVE PoolInv'
  <2> PICK r \in At("none") :
              /\ place' = [place EXCEPT ![r] = "active"]
              /\ length' = [length EXCEPT ![r] = n]
              /\ generation' = [generation EXCEPT ![r] = 1]
    BY <1>2 DEF AllocateNew
  <2>1. TypeOK'
    BY <1>2, PoolAssumption DEF AllocateNew, TypeOK, Places, At
  <2>2. At("cached")' = At("cached") /\ At("draining")' = At("draining")
    BY DEF At, TypeOK
  <2> QED
    BY <1>2, <2>1, <2>2, CacheShrinks
    DEF AllocateNew, CollectorInv, CacheWithinLimits, SweptStaysEmpty,
        NothingStranded
<1>3. ASSUME NEW r \in Regions, StorageReleased(r) PROVE PoolInv'
  <2>1. TypeOK'
    BY <1>3 DEF StorageReleased, TypeOK, Places, At
  <2>2. At("cached")' = At("cached") /\ At("draining")' = At("draining")
    BY <1>3 DEF StorageReleased, At, TypeOK
  <2> QED
    BY <1>3, <2>1, <2>2, CacheShrinks
    DEF StorageReleased, CollectorInv, CacheWithinLimits, SweptStaysEmpty,
        NothingStranded
<1> QED
  BY <1>1, <1>2, <1>3 DEF AllocateStep

(***************************************************************************)
(* The steps of a collection that take regions out of the batch, and the   *)
(* ones that only talk to recipients.                                      *)
(***************************************************************************)
LEMMA CollectKeepsPool ==
    ASSUME PoolInv, CollectStep, ~Store
    PROVE  PoolInv'
<1> USE DEF PoolInv
<1>1. ASSUME NEW who \in {"caller", "closer"}, Drain(who) PROVE PoolInv'
  <2>1. TypeOK'
    BY <1>1 DEF Drain, MoveAll, TypeOK, Places, At, CollectorInv
  <2>2. At("cached")' = At("cached")
    BY <1>1 DEF Drain, MoveAll, At, TypeOK
  <2> QED
    BY <1>1, <2>1, <2>2, CacheShrinks
    DEF Drain, CollectorInv, CacheWithinLimits, SweptStaysEmpty,
        NothingStranded
<1>2. ASSUME AllAsked PROVE PoolInv'
  BY <1>2 DEF AllAsked, TypeOK, At, CollectorInv, CacheWithinLimits,
              SweptStaysEmpty, NothingStranded
<1>3. ASSUME NEW r \in Regions, Quarantine(r) \/ Discard(r) PROVE PoolInv'
  <2>1. TypeOK'
    BY <1>3 DEF Quarantine, Discard, TypeOK, Places, At
  <2>2. At("cached")' = At("cached")
    BY <1>3 DEF Quarantine, Discard, At, TypeOK
  <2> QED
    BY <1>3, <2>1, <2>2, CacheShrinks
    DEF Quarantine, Discard, CollectorInv, CacheWithinLimits,
        SweptStaysEmpty, NothingStranded
<1>4. ASSUME NEW r \in Regions, Reset(r) PROVE PoolInv'
  <2>1. generation'[r] = generation[r] + 1 /\ generation'[r] <= MaxGeneration
    BY <1>4, PoolAssumption DEF Reset, TypeOK
  <2>2. generation' \in [Regions -> 0 .. MaxGeneration]
    BY <1>4, <2>1, PoolAssumption DEF Reset, TypeOK
  <2>3. recipients' \in [Regions -> SUBSET Sessions]
    BY <1>4 DEF Reset, TypeOK
  <2>4. TypeOK'
    BY <1>4, <2>2, <2>3 DEF Reset, TypeOK, At
  <2> QED
    BY <1>4, <2>4 DEF Reset, At, CollectorInv, CacheWithinLimits,
                      SweptStaysEmpty, NothingStranded
<1>5. ASSUME NEW r \in Regions, ResetFails(r) PROVE PoolInv'
  <2>1. TypeOK'
    BY <1>5 DEF ResetFails, MoveAll, TypeOK, Places, At
  <2>2. At("cached")' = At("cached") /\ At("draining")' = {}
    BY <1>5 DEF ResetFails, MoveAll, At, TypeOK
  <2> QED
    BY <1>5, <2>1, <2>2, CacheShrinks
    DEF ResetFails, CollectorInv, CacheWithinLimits, SweptStaysEmpty,
        NothingStranded
<1>6. ASSUME CollectDone PROVE PoolInv'
  BY <1>6 DEF CollectDone, TypeOK, At, CollectorInv, CacheWithinLimits,
              SweptStaysEmpty, NothingStranded
<1> QED
  BY <1>1, <1>2, <1>3, <1>4, <1>5, <1>6 DEF CollectStep

(***************************************************************************)
(* The one step that lets a region into the cache tests the limits and     *)
(* _closed under the same lock.                                            *)
(***************************************************************************)
LEMMA StoreKeepsPool ==
    ASSUME PoolInv, Store
    PROVE  PoolInv'
<1> USE DEF PoolInv
<1>0. chosen \in Regions /\ place[chosen] = "draining" /\ collector # "none"
  BY DEF Store, TypeOK, At, CollectorInv
<1>1. CASE CacheRefuses(chosen)
  <2>1. TypeOK'
    BY <1>0, <1>1 DEF Store, TypeOK, Places, At
  <2>2. At("cached")' = At("cached")
    BY <1>0, <1>1 DEF Store, At, TypeOK
  <2> QED
    BY <1>0, <1>1, <2>1, <2>2, CacheShrinks
    DEF Store, CollectorInv, CacheWithinLimits, SweptStaysEmpty,
        NothingStranded
<1>2. CASE ~CacheRefuses(chosen)
  <2>0. length[chosen] \in Nat
    <3>1. length[chosen] \in Lengths \cup {0}
      BY <1>0 DEF TypeOK
    <3>2. \A n \in Lengths : n \in Nat
      BY PoolAssumption
    <3>3. CASE length[chosen] \in Lengths
      BY <3>2, <3>3
    <3>4. CASE length[chosen] = 0
      BY <3>4
    <3> QED
      BY <3>1, <3>3, <3>4
  <2>1. TypeOK'
    <3>1. cachedBytes' \in Int
      <4>1. cachedBytes' = cachedBytes + length[chosen]
        BY <1>2 DEF Store
      <4> QED
        BY <2>0, <4>1 DEF TypeOK
    <3>2. place' \in [Regions -> Places]
      BY <1>0, <1>2 DEF Store, TypeOK, Places
    <3> QED
      BY <3>1, <3>2 DEF Store, TypeOK, At
  <2>2. At("cached")' = At("cached") \cup {chosen} /\ chosen \notin At("cached")
    BY <1>0, <1>2 DEF Store, At, TypeOK
  <2>3. Cardinality(At("cached")') = Cardinality(At("cached")) + 1
    BY <2>2, CacheFinite, FS_AddElement
  <2>4. Cardinality(At("cached")) < MaxCachedBuffers
    BY <1>2, CacheFinite, PoolAssumption DEF CacheRefuses
  <2>5. cachedBytes' <= MaxCachedBytes
    BY <1>2, <2>0, PoolAssumption DEF Store, CacheRefuses, TypeOK
  <2>6. CacheWithinLimits'
    BY <2>3, <2>4, <2>5, CacheFinite, PoolAssumption DEF CacheWithinLimits
  <2>7. closing' = "open"
    BY <1>2 DEF Store, CacheRefuses, closed
  <2> QED
    BY <1>0, <2>1, <2>6, <2>7
    DEF Store, CollectorInv, SweptStaysEmpty, NothingStranded
<1> QED
  BY <1>1, <1>2

(***************************************************************************)
(* close(), the recipients' answers and new recipients.                    *)
(***************************************************************************)
LEMMA OthersKeepPool ==
    ASSUME PoolInv,
           \/ CloseStep
           \/ RetireStep
           \/ \E s \in Sessions, mapped \in SUBSET Regions :
                Register(s, mapped)
    PROVE  PoolInv'
<1> USE DEF PoolInv
<1>1. ASSUME CloseFlag PROVE PoolInv'
  BY <1>1 DEF CloseFlag, TypeOK, At, CollectorInv, CacheWithinLimits,
              SweptStaysEmpty, NothingStranded
<1>2. ASSUME CloseFree PROVE PoolInv'
  <2>1. TypeOK'
    BY <1>2 DEF CloseFree, MoveAll, TypeOK, Places, At
  <2>2. At("cached")' = {} /\ At("draining")' = At("draining")
    BY <1>2 DEF CloseFree, MoveAll, At, TypeOK
  <2> QED
    BY <1>2, <2>1, <2>2, CacheShrinks, PoolAssumption
    DEF CloseFree, CollectorInv, CacheWithinLimits, SweptStaysEmpty,
        NothingStranded
<1>3. ASSUME NEW s \in Sessions, RetireDone(s) \/ RetireFailed(s)
      PROVE  PoolInv'
  <2>1. TypeOK'
    BY <1>3 DEF RetireDone, RetireFailed, BatchOf, TypeOK, At
  <2> QED
    BY <1>3, <2>1
    DEF RetireDone, RetireFailed, At, CollectorInv, CacheWithinLimits,
        SweptStaysEmpty, NothingStranded
<1>4. ASSUME NEW s \in Sessions, NEW mapped \in SUBSET Regions,
             Register(s, mapped)
      PROVE  PoolInv'
  <2>1. TypeOK'
    BY <1>4 DEF Register, TypeOK, At
  <2> QED
    BY <1>4, <2>1 DEF Register, At, CollectorInv, CacheWithinLimits,
                      SweptStaysEmpty, NothingStranded
<1> QED
  BY <1>1, <1>2, <1>3, <1>4 DEF CloseStep, RetireStep

(***************************************************************************)
(* Every step keeps the invariant of the pool.                             *)
(***************************************************************************)
LEMMA NextKeepsPool ==
    ASSUME PoolInv, [Next]_poolVars
    PROVE  PoolInv'
<1>1. CASE Next
  BY <1>1, AllocateKeepsPool, CollectKeepsPool, StoreKeepsPool,
     OthersKeepPool DEF Next
<1>2. CASE UNCHANGED poolVars
  BY <1>2 DEF poolVars, PoolInv, TypeOK, CollectorInv, CacheWithinLimits,
              SweptStaysEmpty, NothingStranded, At
<1> QED
  BY <1>1, <1>2

(* _cached_bytes against the sum of the lengths of the idle regions.       *)
LEMMA AccountedIsSum ==
    /\ BytesAccounted <=> cachedBytes = SumOver(At("cached"), length)
    /\ BytesAccounted' <=> cachedBytes' = SumOver(At("cached")', length')
<1>1. BytesAccounted <=> cachedBytes = SumOver(At("cached"), length)
  BY DEF BytesAccounted, MapThenSumSet, MapThenFoldSet, SumOver, Sums,
         SumStep, Picked
<1>2. BytesAccounted' <=> cachedBytes' = SumOver(At("cached")', length')
  BY DEF BytesAccounted, MapThenSumSet, MapThenFoldSet, SumOver, Sums,
         SumStep, Picked
<1> QED
  BY <1>1, <1>2

(* A region has a number of bytes.                                         *)
LEMMA LengthsNatural == ASSUME TypeOK PROVE \A r \in Regions : length[r] \in Nat
<1> SUFFICES ASSUME NEW r \in Regions PROVE length[r] \in Nat
  OBVIOUS
<1>1. length[r] \in Lengths \/ length[r] = 0
  BY DEF TypeOK
<1>2. \A n \in Lengths : n \in Nat
  BY PoolAssumption
<1> QED
  BY <1>1, <1>2

(* Every step that moves a region in or out of the cache counts its bytes. *)
LEMMA BytesPreserved ==
    ASSUME TypeOK, BytesAccounted, [Next]_poolVars
    PROVE  BytesAccounted'
<1> DEFINE cached == At("cached")
<1>0. /\ IsFiniteSet(cached) /\ cached \subseteq Regions
      /\ \A r \in cached : length[r] \in Nat
      /\ cachedBytes = SumOver(cached, length)
  BY CacheFinite, LengthsNatural, AccountedIsSum DEF At
<1>1. ASSUME NEW n \in Lengths, AllocateCached(n) PROVE BytesAccounted'
  <2> PICK r \in cached : /\ length[r] = n
                          /\ place' = [place EXCEPT ![r] = "active"]
                          /\ cachedBytes' = cachedBytes - n
    BY <1>1 DEF AllocateCached
  <2>1. At("cached")' = cached \ {r} /\ length' = length
    BY <1>1 DEF AllocateCached, At, TypeOK
  <2> HIDE DEF cached
  <2>2. SumOver(cached, length) = length[r] + SumOver(cached \ {r}, length)
    BY <1>0, SumRemove
  <2>3. SumOver(cached \ {r}, length) \in Nat /\ length[r] \in Nat
    BY <1>0, FS_RemoveElement, SumTyped
  <2>4. cachedBytes' = SumOver(cached \ {r}, length)
    BY <1>0, <2>2, <2>3
  <2> QED
    BY <2>1, <2>4, AccountedIsSum
<1>2. CASE /\ At("cached")' = cached
           /\ \A r \in cached : length'[r] = length[r]
           /\ cachedBytes' = cachedBytes
  <2> HIDE DEF cached
  <2>1. SumOver(cached, length') = SumOver(cached, length)
    BY <1>0, <1>2, SumSame
  <2> QED
    BY <1>0, <1>2, <2>1, AccountedIsSum
<1>3. ASSUME NEW n \in Lengths, AllocateNew(n) PROVE BytesAccounted'
  <2> PICK r \in At("none") : /\ place' = [place EXCEPT ![r] = "active"]
                              /\ length' = [length EXCEPT ![r] = n]
    BY <1>3 DEF AllocateNew
  <2>1. /\ At("cached")' = cached
        /\ \A x \in cached : length'[x] = length[x]
        /\ cachedBytes' = cachedBytes
    BY <1>3 DEF AllocateNew, At, TypeOK
  <2> QED
    BY <1>2, <2>1
<1>4. ASSUME NEW r \in Regions,
             StorageReleased(r) \/ Quarantine(r) \/ Discard(r)
      PROVE  BytesAccounted'
  <2>1. At("cached")' = cached /\ UNCHANGED <<length, cachedBytes>>
    BY <1>4 DEF StorageReleased, Quarantine, Discard, At, TypeOK
  <2> QED
    BY <1>2, <2>1
<1>5. CASE \/ \E who \in {"caller", "closer"} : Drain(who)
           \/ \E r \in Regions : ResetFails(r)
  <2>1. At("cached")' = cached /\ UNCHANGED <<length, cachedBytes>>
    BY <1>5 DEF Drain, ResetFails, MoveAll, At, TypeOK
  <2> QED
    BY <1>2, <2>1
<1>6. CASE UNCHANGED <<place, length, cachedBytes>>
  BY <1>2, <1>6 DEF At
<1>7. CASE Store
  <2>0. chosen \in Regions /\ place[chosen] = "draining"
    BY <1>7 DEF Store, TypeOK, At
  <2>1. CASE CacheRefuses(chosen)
    <3>1. At("cached")' = cached /\ UNCHANGED <<length, cachedBytes>>
      BY <1>7, <2>0, <2>1 DEF Store, At, TypeOK
    <3> QED
      BY <1>2, <3>1
  <2>2. CASE ~CacheRefuses(chosen)
    <3>1. /\ At("cached")' = cached \cup {chosen} /\ chosen \notin cached
          /\ cachedBytes' = cachedBytes + length[chosen]
          /\ length' = length
      BY <1>7, <2>0, <2>2 DEF Store, At, TypeOK
    <3>2. \A r \in cached \cup {chosen} : length[r] \in Nat
      BY <1>0, <2>0, LengthsNatural
    <3> HIDE DEF cached
    <3>3. SumOver(cached \cup {chosen}, length)
            = length[chosen] + SumOver(cached, length)
      BY <1>0, <3>1, <3>2, SumAdd
    <3>4. SumOver(cached, length) \in Nat /\ length[chosen] \in Nat
      BY <1>0, <3>2, SumTyped
    <3>5. cachedBytes' = SumOver(cached \cup {chosen}, length)
      BY <1>0, <3>1, <3>3, <3>4
    <3> QED
      BY <3>1, <3>5, AccountedIsSum
  <2> QED
    BY <2>1, <2>2
<1>8. CASE CloseFree
  <2>1. At("cached")' = {} /\ cachedBytes' = 0
    BY <1>8 DEF CloseFree, MoveAll, At, TypeOK
  <2> QED
    BY <2>1, SumEmpty, AccountedIsSum
<1>9. \/ \E n \in Lengths : AllocateCached(n) \/ AllocateNew(n)
      \/ \E r \in Regions :
           StorageReleased(r) \/ Quarantine(r) \/ Discard(r) \/ ResetFails(r)
      \/ \E who \in {"caller", "closer"} : Drain(who)
      \/ Store
      \/ CloseFree
      \/ UNCHANGED <<place, length, cachedBytes>>
  BY DEF Next, AllocateStep, CollectStep, RetireStep, CloseStep, Register,
         AllAsked, Reset, CollectDone, RetireDone, RetireFailed, CloseFlag,
         poolVars
<1> QED
  BY <1>1, <1>3, <1>4, <1>5, <1>6, <1>7, <1>8, <1>9

(***************************************************************************)
(* The inductive invariant of the pool.                                    *)
(***************************************************************************)
THEOREM PoolInvariance == Spec => []PoolInv
<1>1. PoolInv /\ [Next]_poolVars => PoolInv'
  BY NextKeepsPool
<1> QED
  BY <1>1, PoolInitially, PTL DEF Spec

(***************************************************************************)
(* Every attribute keeps its type; in particular no generation passes the  *)
(* last one, where reset() would raise.                                    *)
(***************************************************************************)
THEOREM PoolTypes == Spec => []TypeOK
<1>1. PoolInv => TypeOK
  BY DEF PoolInv
<1> QED
  BY <1>1, PoolInvariance, PTL

(***************************************************************************)
(* _reset_or_release_region never lets the idle regions or their bytes     *)
(* exceed the limits of the manager, whatever runs between its two halves. *)
(***************************************************************************)
THEOREM PoolBounded == Spec => []CacheWithinLimits
<1>1. PoolInv => CacheWithinLimits
  BY DEF PoolInv
<1> QED
  BY <1>1, PoolInvariance, PTL

(***************************************************************************)
(* Nothing enters the free lists after BufferManager.close() swept them.   *)
(***************************************************************************)
THEOREM ClosedPoolEmpty == Spec => []SweptStaysEmpty
<1>1. PoolInv => SweptStaysEmpty
  BY DEF PoolInv
<1> QED
  BY <1>1, PoolInvariance, PTL

(***************************************************************************)
(* A collection leaves nothing behind: while no thread is in _collect, no  *)
(* region is in a batch, whichever step of the last one raised.            *)
(***************************************************************************)
THEOREM BatchesEnd == Spec => []NothingStranded
<1>1. PoolInv => NothingStranded
  BY DEF PoolInv
<1> QED
  BY <1>1, PoolInvariance, PTL

(***************************************************************************)
(* _cached_bytes is the sum of the lengths of the idle regions, although   *)
(* empty(), _reset_or_release_region and close() each keep it by hand.     *)
(***************************************************************************)
THEOREM BytesAreCounted == Spec => []BytesAccounted
<1>1. Init => BytesAccounted
  <2> SUFFICES ASSUME Init PROVE BytesAccounted
    OBVIOUS
  <2>1. At("cached") = {} /\ cachedBytes = 0
    BY DEF Init, At
  <2> QED
    BY <2>1, SumEmpty, AccountedIsSum
<1>2. TypeOK /\ BytesAccounted /\ [Next]_poolVars => BytesAccounted'
  BY BytesPreserved
<1> QED
  BY <1>1, <1>2, PoolTypes, PTL DEF Spec

-----------------------------------------------------------------------------
(* The pool with its sessions.                                             *)

Stages == {"new", "mapping", "mapped", "submitted", "completed", "refused",
           "aborting", "closing", "over"}

Handles == [region : Regions, gen : 0..MaxGeneration, writable : BOOLEAN]

Entries == [region : Regions, gen : 0..MaxGeneration, writable : BOOLEAN,
            by : Invocations]

SessionTypes ==
    /\ stage \in [Invocations -> Stages]
    /\ on \in [Invocations -> Sessions]
    /\ handles \in [Invocations -> SUBSET Handles]
    /\ valid \in [Sessions -> BOOLEAN] /\ open \in [Sessions -> BOOLEAN]
    /\ alive \in [Sessions -> BOOLEAN]
    /\ mirror \in [Sessions -> SUBSET Entries]
    /\ table \in [Sessions -> SUBSET Entries]
    /\ queued \in [Sessions -> SUBSET Invocations]
    /\ serving \in [Sessions -> Invocations \cup {NoInvocation}]

(* The memory of an invocation that has not returned is in use.            *)
HandlesCurrent ==
    \A i \in Invocations : Pinned(i) =>
        \A h \in handles[i] : /\ h.gen = generation[h.region]
                               /\ place[h.region] = "active"

(* What the pool knows of a mapping e that the session s remembers: it is  *)
(* current, s is a recipient, and a collection that drains its region has  *)
(* still to ask s or has not been answered.                                *)
EntryGood(s, e) ==
    /\ e.gen = generation[e.region]
    /\ place[e.region] \in {"active", "released", "draining", "shut"}
    /\ place[e.region] # "shut" => s \in recipients[e.region]
    /\ place[e.region] = "draining" =>
         e.region \in failed \/ (phase = "retire" /\ s \in unasked)

MirrorsGood ==
    \A s \in Sessions : Usual(s) => \A e \in mirror[s] : EntryGood(s, e)

(* Only a region whose recipients have all answered is reset.              *)
ChosenAnswered == phase = "store" => chosen \notin failed

(* A command is in the ring, or at the worker, of its own session.         *)
CommandsHome ==
    \A s \in Sessions :
        /\ \A i \in queued[s] : on[i] = s
        /\ serving[s] # NoInvocation => on[serving[s]] = s

(* The worker has dropped the writable mappings of a finished invocation.  *)
FinishedUnmapped ==
    \A i \in Invocations :
        stage[i] \in {"completed", "refused"} => WritableBy(table[on[i]], i) = {}

(* A session is not closed under a call, and has the commands of calls     *)
(* that wait, or that wait for its close.                                  *)
CommandsAwaited ==
    /\ \A i \in Invocations : Holding(i) => open[on[i]]
    /\ \A s \in Sessions : open[s] =>
         /\ serving[s] # NoInvocation => serving[s] \notin queued[s]
         /\ \A i \in Invocations :
              i \in queued[s] \/ i = serving[s]
              => stage[i] \in {"submitted", "closing"}

SessionsInv ==
    /\ PoolInv
    /\ SessionTypes
    /\ HandlesCurrent
    /\ MirrorsGood
    /\ ChosenAnswered
    /\ CommandsHome
    /\ CommandsAwaited
    /\ FinishedUnmapped
    /\ TableWithinMirror

-----------------------------------------------------------------------------
(* Every step is one of these.                                             *)
LEMMA SessionCases ==
    ASSUME [SessionsNext]_vars
    PROVE  \/ PoolStep
           \/ \E r \in Regions : Release(r)
           \/ \E i \in Invocations :
                \/ Begin(i) \/ MapAcked(i) \/ MapFailed(i) \/ Dispatch(i)
                \/ PlanFails(i) \/ AbortAcked(i) \/ AbortLost(i)
                \/ HostCompletes(i) \/ HostRefused(i)
                \/ DeadlineExpires(i) \/ CloseReturns(i)
           \/ \E s \in Sessions :
                \/ RetireNothing(s) \/ RetireAcked(s) \/ RetireLost(s)
                \/ WorkerEnds(s) \/ WorkerDies(s) \/ CloseSession(s)
           \/ \E s \in Sessions, i \in Invocations :
                WorkerStarts(s, i) \/ WorkerRefuses(s, i)
           \/ UNCHANGED vars
BY Zenon DEF SessionsNext, InvocationStep, SessionStep

(* What a session does with its mappings is the pool's doing or none of    *)
(* its business.                                                           *)
LEMMA PoolSteps ==
    ASSUME SessionTypes, [SessionsNext]_vars
    PROVE  [Next]_poolVars
<1>1. CASE PoolStep
    BY <1>1 DEF PoolStep, Next
<1>2. ASSUME NEW r \in Regions, Release(r) PROVE [Next]_poolVars
    BY <1>2 DEF Release, Next
<1>3. ASSUME NEW i \in Invocations, MapAcked(i) PROVE [Next]_poolVars
    <2>1. Register(on[i], RegionsOf(Needed(i))) /\ on[i] \in Sessions
        BY <1>3 DEF MapAcked, SessionTypes
    <2>2. RegionsOf(Needed(i)) \in SUBSET Regions
        BY <2>1 DEF Register, At
    <2>3. QED
        BY <2>1, <2>2 DEF Next
<1>4. ASSUME NEW i \in Invocations,
             \/ Begin(i) \/ MapFailed(i) \/ Dispatch(i) \/ PlanFails(i)
             \/ AbortAcked(i) \/ AbortLost(i) \/ HostCompletes(i)
             \/ HostRefused(i) \/ DeadlineExpires(i) \/ CloseReturns(i)
      PROVE  [Next]_poolVars
    BY <1>4, Zenon
    DEF Begin, MapFailed, Dispatch, PlanFails, AbortAcked, AbortLost,
        HostCompletes, HostRefused, DeadlineExpires, CloseReturns
<1>5. ASSUME NEW s \in Sessions,
             RetireNothing(s) \/ RetireAcked(s) \/ RetireLost(s)
      PROVE  [Next]_poolVars
    BY <1>5, Zenon
    DEF RetireNothing, RetireAcked, RetireLost, Next, RetireStep
<1>6. ASSUME NEW s \in Sessions, WorkerEnds(s) \/ WorkerDies(s) \/ CloseSession(s)
      PROVE  [Next]_poolVars
    BY <1>6, Zenon DEF WorkerEnds, WorkerDies, CloseSession
<1>7. ASSUME NEW s \in Sessions, NEW i \in Invocations,
             WorkerStarts(s, i) \/ WorkerRefuses(s, i)
      PROVE  [Next]_poolVars
    BY <1>7, Zenon DEF WorkerStarts, WorkerRefuses
<1>8. CASE UNCHANGED vars
    BY <1>8 DEF vars
<1>9. QED
    BY SessionCases, <1>1, <1>2, <1>3, <1>4, <1>5, <1>6, <1>7, <1>8, Zenon

-----------------------------------------------------------------------------
(* The records that the tables are made of.                                *)
LEMMA HandleRecord ==
    ASSUME NEW r \in Regions, NEW g \in 0..MaxGeneration, NEW w \in BOOLEAN
    PROVE  LET h == [region |-> r, gen |-> g, writable |-> w]
           IN  h \in Handles /\ h.region = r /\ h.gen = g
BY DEF Handles

LEMMA SentRecords ==
    ASSUME SessionTypes, NEW i \in Invocations
    PROVE  /\ Sent(i) \subseteq Entries
           /\ \A e \in Sent(i) :
                e.by = i /\ \E h \in Needed(i) : e.region = h.region /\ e.gen = h.gen
<1>1. Needed(i) \subseteq Handles
    BY DEF Needed, SessionTypes
<1>2. ASSUME NEW h \in Handles
      PROVE  LET e == [region |-> h.region, gen |-> h.gen,
                       writable |-> h.writable, by |-> i]
             IN  /\ e \in Entries /\ e.by = i
                 /\ e.region = h.region /\ e.gen = h.gen
    BY DEF Handles, Entries
<1>3. QED
    BY <1>1, <1>2 DEF Sent

LEMMA RemapTyped ==
    ASSUME SessionTypes, NEW i \in Invocations, NEW E \in SUBSET Entries
    PROVE  Remap(E, i) \in SUBSET Entries
BY SentRecords DEF Remap, Keyed

(* Types.                                                                  *)
LEMMA SessionTypesKept ==
    ASSUME PoolInv, SessionTypes, [SessionsNext]_vars
    PROVE  SessionTypes'
<1> USE DEF SessionTypes, Stages, sessionVars
<1>1. CASE PoolStep
    BY <1>1 DEF PoolStep
<1>2. ASSUME NEW r \in Regions, Release(r) PROVE SessionTypes'
    BY <1>2 DEF Release
<1>3. ASSUME NEW i \in Invocations, Begin(i) PROVE SessionTypes'
    <2>1. PICK reads \in SUBSET At("active"), writes \in SUBSET At("active") :
             handles' = [handles EXCEPT ![i] =
               {[region |-> r, gen |-> generation[r],
                 writable |-> r \in writes] : r \in reads \cup writes}]
        BY <1>3 DEF Begin
    <2>2. \A r \in reads \cup writes :
             /\ r \in Regions /\ generation[r] \in 0..MaxGeneration
             /\ (r \in writes) \in BOOLEAN
        BY DEF At, PoolInv, TypeOK
    <2>3. \A r \in reads \cup writes :
             [region |-> r, gen |-> generation[r],
              writable |-> r \in writes] \in Handles
        BY <2>2, HandleRecord
    <2>4. handles' \in [Invocations -> SUBSET Handles]
        BY <2>1, <2>3
    <2>5. QED
        BY <1>3, <2>4 DEF Begin
<1>4. ASSUME NEW i \in Invocations, MapAcked(i) PROVE SessionTypes'
    <2>1. /\ mirror' = [mirror EXCEPT ![on[i]] = Remap(mirror[on[i]], i)]
          /\ table' = [table EXCEPT ![on[i]] = Remap(table[on[i]], i)]
        BY <1>4 DEF MapAcked
    <2>2. /\ Remap(mirror[on[i]], i) \in SUBSET Entries
          /\ Remap(table[on[i]], i) \in SUBSET Entries
        BY RemapTyped
    <2>3. QED
        BY <1>4, <2>1, <2>2 DEF MapAcked
<1>5. ASSUME NEW i \in Invocations, MapFailed(i) PROVE SessionTypes'
    <2>1. PICK after \in TablesAfterFailure(i) :
             table' = [table EXCEPT ![on[i]] = after]
        BY <1>5 DEF MapFailed
    <2>2. /\ Remap(mirror[on[i]], i) \in SUBSET Entries
          /\ Remap(table[on[i]], i) \in SUBSET Entries
        BY RemapTyped
    <2>3. after \in SUBSET Entries
        BY <2>2 DEF TablesAfterFailure
    <2>4. mirror' = [mirror EXCEPT ![on[i]] = Remap(mirror[on[i]], i)]
        BY <1>5 DEF MapFailed
    <2>5. stage' \in [Invocations -> Stages]
        BY <1>5 DEF MapFailed
    <2>6. handles' \in [Invocations -> SUBSET Handles]
        BY <1>5 DEF MapFailed
    <2>7. QED
        BY <1>5, <2>1, <2>2, <2>3, <2>4, <2>5, <2>6 DEF MapFailed
<1>6. ASSUME NEW i \in Invocations, Dispatch(i) PROVE SessionTypes'
    BY <1>6 DEF Dispatch
<1>7. ASSUME NEW i \in Invocations, PlanFails(i) PROVE SessionTypes'
    BY <1>7 DEF PlanFails
<1>8. ASSUME NEW i \in Invocations, AbortAcked(i) PROVE SessionTypes'
    BY <1>8 DEF AbortAcked, Failed
<1>9. ASSUME NEW i \in Invocations, AbortLost(i) PROVE SessionTypes'
    BY <1>9 DEF AbortLost, Failed
<1>10. ASSUME NEW i \in Invocations, HostCompletes(i) \/ HostRefused(i)
       PROVE  SessionTypes'
    <2>1. CASE HostCompletes(i)
        BY <2>1 DEF HostCompletes, Failed
    <2>2. CASE HostRefused(i)
        BY <2>2 DEF HostRefused
    <2>3. QED
        BY <1>10, <2>1, <2>2
<1>11. ASSUME NEW i \in Invocations, DeadlineExpires(i) \/ CloseReturns(i)
       PROVE  SessionTypes'
    BY <1>11 DEF DeadlineExpires, CloseReturns
<1>12. ASSUME NEW s \in Sessions, RetireNothing(s) PROVE SessionTypes'
    BY <1>12 DEF RetireNothing
<1>13. ASSUME NEW s \in Sessions, RetireAcked(s) PROVE SessionTypes'
    BY <1>13 DEF RetireAcked
<1>14. ASSUME NEW s \in Sessions, RetireLost(s) PROVE SessionTypes'
    BY <1>14 DEF RetireLost
<1>15. ASSUME NEW s \in Sessions, WorkerEnds(s) PROVE SessionTypes'
    <2>1. serving[s] \in Invocations
        BY <1>15 DEF WorkerEnds
    <2>2. stage' \in [Invocations -> Stages]
        BY <1>15, <2>1 DEF WorkerEnds
    <2>3. QED
        BY <1>15, <2>2 DEF WorkerEnds
<1>16. ASSUME NEW s \in Sessions, WorkerDies(s) PROVE SessionTypes'
    BY <1>16 DEF WorkerDies
<1>17. ASSUME NEW s \in Sessions, CloseSession(s) PROVE SessionTypes'
    BY <1>17 DEF CloseSession
<1>18. ASSUME NEW s \in Sessions, NEW i \in Invocations, WorkerStarts(s, i)
       PROVE  SessionTypes'
    BY <1>18 DEF WorkerStarts
<1>19. ASSUME NEW s \in Sessions, NEW i \in Invocations, WorkerRefuses(s, i)
       PROVE  SessionTypes'
    BY <1>19 DEF WorkerRefuses
<1>20. CASE UNCHANGED vars
    BY <1>20 DEF vars
<1>21. QED
    <2> HIDE DEF SessionTypes
    <2>1. QED
        BY SessionCases, <1>1, <1>2, <1>3, <1>4, <1>5, <1>6, <1>7, <1>8, <1>9,
           <1>10, <1>11, <1>12, <1>13, <1>14, <1>15, <1>16, <1>17, <1>18,
           <1>19, <1>20, Zenon

-----------------------------------------------------------------------------
(* The pool takes no memory that is in use: only its own storage does.     *)
LEMMA ActiveStays ==
    ASSUME PoolInv, AllocateStep \/ CollectStep \/ CloseStep,
           NEW r \in Regions, place[r] = "active"
    PROVE  place'[r] = "active" /\ generation'[r] = generation[r]
<1> USE DEF PoolInv, TypeOK, At
<1>1. ASSUME NEW n \in Lengths, AllocateCached(n) \/ AllocateNew(n)
      PROVE  place'[r] = "active" /\ generation'[r] = generation[r]
    BY <1>1 DEF AllocateCached, AllocateNew
<1>2. ASSUME NEW who \in {"caller", "closer"}, Drain(who)
      PROVE  place'[r] = "active" /\ generation'[r] = generation[r]
    BY <1>2 DEF Drain, MoveAll
<1>3. ASSUME AllAsked \/ CollectDone \/ CloseFlag
      PROVE  place'[r] = "active" /\ generation'[r] = generation[r]
    BY <1>3 DEF AllAsked, CollectDone, CloseFlag
<1>4. ASSUME NEW q \in Regions, Quarantine(q) \/ Discard(q) \/ Reset(q)
      PROVE  place'[r] = "active" /\ generation'[r] = generation[r]
    BY <1>4 DEF Quarantine, Discard, Reset
<1>5. ASSUME NEW q \in Regions, ResetFails(q)
      PROVE  place'[r] = "active" /\ generation'[r] = generation[r]
    BY <1>5 DEF ResetFails, MoveAll
<1>6. ASSUME Store
      PROVE  place'[r] = "active" /\ generation'[r] = generation[r]
    BY <1>6 DEF Store
<1>7. ASSUME CloseFree
      PROVE  place'[r] = "active" /\ generation'[r] = generation[r]
    BY <1>7 DEF CloseFree, MoveAll
<1>8. QED
    BY <1>1, <1>2, <1>3, <1>4, <1>5, <1>6, <1>7
    DEF AllocateStep, CollectStep, CloseStep

(* What the pool does to a mapping that a usable session remembers: an     *)
(* unanswered or unasked region is not reset.                              *)
LEMMA EntryStays ==
    ASSUME PoolInv, ChosenAnswered, NEW s \in Sessions, NEW e \in Entries,
           EntryGood(s, e),
           \/ AllocateStep \/ CollectStep \/ CloseStep
           \/ \E r \in Regions : StorageReleased(r)
    PROVE  EntryGood(s, e)'
<1>0. e.region \in Regions
    BY DEF Entries
<1> USE <1>0 DEF PoolInv, TypeOK, At, EntryGood
<1>1. ASSUME NEW n \in Lengths, AllocateCached(n) PROVE EntryGood(s, e)'
    BY <1>1 DEF AllocateCached
<1>2. ASSUME NEW n \in Lengths, AllocateNew(n) PROVE EntryGood(s, e)'
    BY <1>2 DEF AllocateNew
<1>3. ASSUME NEW who \in {"caller", "closer"}, Drain(who)
      PROVE  EntryGood(s, e)'
    BY <1>3 DEF Drain, MoveAll, NothingStranded
<1>4. ASSUME AllAsked PROVE EntryGood(s, e)'
    BY <1>4 DEF AllAsked
<1>5. ASSUME NEW q \in Regions, Quarantine(q) \/ Discard(q)
      PROVE  EntryGood(s, e)'
    BY <1>5 DEF Quarantine, Discard
<1>6. ASSUME NEW q \in Regions, Reset(q) PROVE EntryGood(s, e)'
    BY <1>6 DEF Reset
<1>7. ASSUME NEW q \in Regions, ResetFails(q) PROVE EntryGood(s, e)'
    BY <1>7 DEF ResetFails, MoveAll
<1>8. ASSUME Store PROVE EntryGood(s, e)'
    <2>1. e.region # chosen
        BY <1>8 DEF Store, ChosenAnswered
    <2>2. place'[e.region] = place[e.region]
        BY <1>8, <2>1 DEF Store
    <2>3. QED
        BY <1>8, <2>2 DEF Store
<1>9. ASSUME CollectDone PROVE EntryGood(s, e)'
    BY <1>9 DEF CollectDone
<1>10. ASSUME CloseFlag PROVE EntryGood(s, e)'
    BY <1>10 DEF CloseFlag
<1>11. ASSUME CloseFree PROVE EntryGood(s, e)'
    BY <1>11 DEF CloseFree, MoveAll
<1>12. ASSUME NEW r \in Regions, StorageReleased(r) PROVE EntryGood(s, e)'
    BY <1>12 DEF StorageReleased
<1>13. QED
    <2> HIDE DEF EntryGood
    <2>1. QED
        BY <1>1, <1>2, <1>3, <1>4, <1>5, <1>6, <1>7, <1>8, <1>9, <1>10, <1>11,
           <1>12 DEF AllocateStep, CollectStep, CloseStep

(* The collection resets only what has been answered.                      *)
LEMMA ChosenKept ==
    ASSUME PoolInv, ChosenAnswered, [Next]_poolVars
    PROVE  ChosenAnswered'
<1> USE DEF ChosenAnswered
<1>1. CASE AllocateStep
    BY <1>1 DEF AllocateStep, AllocateCached, AllocateNew
<1>2. ASSUME NEW r \in Regions, StorageReleased(r) PROVE ChosenAnswered'
    BY <1>2 DEF StorageReleased
<1>3. ASSUME NEW s \in Sessions, NEW mapped \in SUBSET Regions,
             Register(s, mapped)
      PROVE  ChosenAnswered'
    BY <1>3 DEF Register
<1>4. CASE CollectStep
    BY <1>4 DEF CollectStep, Drain, AllAsked, Quarantine, Discard, Reset,
       ResetFails, Store, CollectDone
<1>5. CASE RetireStep
    BY <1>5 DEF RetireStep, RetireDone, RetireFailed
<1>6. CASE CloseStep
    BY <1>6 DEF CloseStep, CloseFlag, CloseFree
<1>7. CASE UNCHANGED poolVars
    BY <1>7 DEF poolVars
<1>8. QED
    BY <1>1, <1>2, <1>3, <1>4, <1>5, <1>6, <1>7 DEF Next

-----------------------------------------------------------------------------
(* Memory under a lease stays where it is.                                 *)
LEMMA HandlesKept ==
    ASSUME PoolInv, SessionTypes, HandlesCurrent, [SessionsNext]_vars
    PROVE  HandlesCurrent'
<1>0. \A i \in Invocations : \A h \in handles[i] : h.region \in Regions
    BY DEF SessionTypes, Handles
<1>1. CASE PoolStep
    <2>1. ASSUME NEW i \in Invocations, Pinned(i), NEW h \in handles[i]
          PROVE  h.gen = generation'[h.region] /\ place'[h.region] = "active"
        BY <1>0, <1>1, <2>1, ActiveStays DEF PoolStep, HandlesCurrent
    <2>2. UNCHANGED <<stage, handles>>
        BY <1>1 DEF PoolStep, sessionVars
    <2>3. QED
        BY <2>1, <2>2 DEF HandlesCurrent, Pinned
<1>2. ASSUME NEW r \in Regions, Release(r) PROVE HandlesCurrent'
    <2>1. /\ UNCHANGED <<stage, handles, generation>>
          /\ place' = [place EXCEPT ![r] = "released"]
        BY <1>2 DEF Release, StorageReleased, sessionVars
    <2>2. \A i \in Invocations : Pinned(i) =>
             \A h \in handles[i] : h.region # r
        BY <1>2 DEF Release, RegionsOf
    <2>3. QED
        BY <2>1, <2>2 DEF HandlesCurrent, Pinned
<1>3. ASSUME NEW i \in Invocations, Begin(i) PROVE HandlesCurrent'
    <2>1. PICK reads \in SUBSET At("active"), writes \in SUBSET At("active") :
             handles' = [handles EXCEPT ![i] =
               {[region |-> r, gen |-> generation[r],
                 writable |-> r \in writes] : r \in reads \cup writes}]
        BY <1>3 DEF Begin
    <2>2. \A r \in reads \cup writes :
             /\ r \in Regions /\ generation[r] \in 0..MaxGeneration
             /\ (r \in writes) \in BOOLEAN /\ place[r] = "active"
        BY DEF At, PoolInv, TypeOK
    <2>3. \A h \in handles'[i] :
             h.gen = generation[h.region] /\ place[h.region] = "active"
        BY <2>1, <2>2, HandleRecord DEF SessionTypes
    <2>4. /\ UNCHANGED <<generation, place>>
          /\ stage' = [stage EXCEPT ![i] = "mapping"]
        BY <1>3 DEF Begin, poolVars
    <2>5. QED
        BY <2>1, <2>3, <2>4 DEF HandlesCurrent, Pinned, SessionTypes
<1>4. ASSUME UNCHANGED <<generation, place>>,
             \A i \in Invocations : Pinned(i)' =>
               Pinned(i) /\ handles'[i] \subseteq handles[i]
      PROVE  HandlesCurrent'
    BY <1>4 DEF HandlesCurrent
<1> USE DEF Pinned, SessionTypes, poolVars
<1>5. ASSUME NEW i \in Invocations, MapAcked(i) PROVE HandlesCurrent'
    BY <1>4, <1>5 DEF MapAcked, Register
<1>6. ASSUME NEW i \in Invocations, MapFailed(i) PROVE HandlesCurrent'
    BY <1>4, <1>6 DEF MapFailed
<1>7. ASSUME NEW i \in Invocations, Dispatch(i) \/ PlanFails(i)
      PROVE  HandlesCurrent'
    BY <1>4, <1>7 DEF Dispatch, PlanFails
<1>8. ASSUME NEW i \in Invocations, AbortAcked(i) \/ AbortLost(i)
      PROVE  HandlesCurrent'
    BY <1>4, <1>8 DEF AbortAcked, AbortLost
<1>9. ASSUME NEW i \in Invocations,
             \/ HostCompletes(i) \/ HostRefused(i)
             \/ DeadlineExpires(i) \/ CloseReturns(i)
      PROVE  HandlesCurrent'
    BY <1>4, <1>9
    DEF HostCompletes, HostRefused, DeadlineExpires, CloseReturns
<1>10. ASSUME NEW s \in Sessions, RetireNothing(s) PROVE HandlesCurrent'
    BY <1>4, <1>10 DEF RetireNothing, RetireDone, sessionVars
<1>11. ASSUME NEW s \in Sessions, RetireAcked(s) \/ RetireLost(s)
       PROVE  HandlesCurrent'
    BY <1>4, <1>11 DEF RetireAcked, RetireLost, RetireDone, RetireFailed
<1>12. ASSUME NEW s \in Sessions, WorkerEnds(s) PROVE HandlesCurrent'
    BY <1>4, <1>12 DEF WorkerEnds
<1>13. ASSUME NEW s \in Sessions, WorkerDies(s) \/ CloseSession(s)
       PROVE  HandlesCurrent'
    BY <1>4, <1>13 DEF WorkerDies, CloseSession
<1>14. ASSUME NEW s \in Sessions, NEW i \in Invocations,
              WorkerStarts(s, i) \/ WorkerRefuses(s, i)
       PROVE  HandlesCurrent'
    BY <1>4, <1>14 DEF WorkerStarts, WorkerRefuses
<1>15. CASE UNCHANGED vars
    BY <1>4, <1>15 DEF vars, sessionVars
<1>16. QED
    BY SessionCases, <1>1, <1>2, <1>3, <1>5, <1>6, <1>7, <1>8, <1>9, <1>10,
       <1>11, <1>12, <1>13, <1>14, <1>15, Zenon

-----------------------------------------------------------------------------
(* What a session remembers after it was asked to retire: nothing of the   *)
(* regions being drained, unless it did not answer.                        *)
LEMMA RetireKeeps ==
    ASSUME PoolInv, SessionTypes, MirrorsGood, NEW s \in Sessions,
           \/ RetireNothing(s) \/ RetireAcked(s) \/ RetireLost(s)
    PROVE  MirrorsGood'
<1>1. /\ UNCHANGED <<valid, open, place, generation, recipients, phase>>
      /\ phase = "retire" /\ unasked' = unasked \ {s}
      /\ failed \subseteq failed'
    BY DEF RetireNothing, RetireAcked, RetireLost, RetireDone, RetireFailed,
       sessionVars
<1>2. \A u \in Sessions : mirror'[u] \subseteq mirror[u]
    BY DEF RetireNothing, RetireAcked, RetireLost, sessionVars, SessionTypes
<1>3. ASSUME Usual(s), NEW e \in mirror'[s], place[e.region] = "draining"
      PROVE  e.region \in failed'
    <2>1. e \in mirror[s] /\ EntryGood(s, e) /\ e.region \in Regions
        BY <1>2, <1>3 DEF MirrorsGood, SessionTypes, Entries
    <2>2. e \in ToRetire(s) /\ e.region \in BatchOf(s)
        BY <1>3, <2>1 DEF ToRetire, BatchOf, At, EntryGood
    <2>3. CASE RetireLost(s)
        BY <2>2, <2>3 DEF RetireLost, RetireFailed
    <2>4. CASE RetireNothing(s)
        BY <2>2, <2>4 DEF RetireNothing
    <2>5. CASE RetireAcked(s)
        BY <1>3, <2>2, <2>5 DEF RetireAcked, SessionTypes
    <2>6. QED
        BY <2>3, <2>4, <2>5
<1>4. ASSUME NEW u \in Sessions, Usual(u)', NEW e \in mirror'[u]
      PROVE  EntryGood(u, e)'
    <2>1. Usual(u) /\ EntryGood(u, e)
        BY <1>1, <1>2, <1>4 DEF Usual, MirrorsGood
    <2>2. CASE u = s
        BY <1>1, <1>3, <1>4, <2>1, <2>2 DEF EntryGood
    <2>3. CASE u # s
        BY <1>1, <2>1, <2>3 DEF EntryGood
    <2>4. QED
        BY <2>2, <2>3
<1>5. QED
    BY <1>4 DEF MirrorsGood

(* A batch of mappings that the worker has acknowledged is of memory in    *)
(* use, and its regions know the session.                                  *)
LEMMA MapKeeps ==
    ASSUME PoolInv, SessionTypes, HandlesCurrent, MirrorsGood,
           NEW i \in Invocations, MapAcked(i)
    PROVE  MirrorsGood'
<1>0. PICK s \in Sessions : s = on[i]
    BY DEF SessionTypes
<1>1. /\ stage[i] = "mapping"
      /\ UNCHANGED <<valid, open, place, generation, phase, unasked, failed>>
      /\ mirror' = [mirror EXCEPT ![s] = Remap(mirror[s], i)]
      /\ recipients' = [r \in Regions |-> IF r \in RegionsOf(Needed(i))
                            THEN recipients[r] \cup {s} ELSE recipients[r]]
    BY <1>0 DEF MapAcked, Register, SessionTypes
<1>2. ASSUME NEW e \in Sent(i) PROVE EntryGood(s, e)'
    <2>1. PICK h \in Needed(i) : e.region = h.region /\ e.gen = h.gen
        BY SentRecords
    <2>2. h \in handles[i]
        BY <2>1 DEF Needed
    <2>3. h.gen = generation[h.region] /\ place[h.region] = "active"
        BY <1>1, <2>2 DEF HandlesCurrent, Pinned
    <2>4. h.region \in Regions /\ h.region \in RegionsOf(Needed(i))
        BY <2>1, <2>2 DEF SessionTypes, Handles, RegionsOf
    <2>5. s \in recipients'[h.region]
        BY <1>1, <2>4
    <2>6. QED
        BY <1>1, <2>1, <2>3, <2>5 DEF EntryGood
<1>3. ASSUME NEW u \in Sessions, Usual(u), NEW e \in mirror[u]
      PROVE  EntryGood(u, e)'
    <2>1. EntryGood(u, e) /\ e.region \in Regions
        BY <1>3 DEF MirrorsGood, SessionTypes, Entries
    <2>2. recipients[e.region] \subseteq recipients'[e.region]
        BY <1>1, <2>1
    <2>3. QED
        BY <1>1, <2>1, <2>2 DEF EntryGood
<1>4. ASSUME NEW u \in Sessions, Usual(u)', NEW e \in mirror'[u]
      PROVE  EntryGood(u, e)'
    <2>1. Usual(u)
        BY <1>1, <1>4 DEF Usual
    <2>2. e \in mirror[u] \/ (u = s /\ e \in Sent(i))
        BY <1>1, <1>4 DEF Remap, SessionTypes
    <2>3. QED
        BY <1>2, <1>3, <2>1, <2>2
<1>5. QED
    BY <1>4 DEF MirrorsGood

LEMMA MirrorsKept ==
    ASSUME PoolInv, SessionTypes, HandlesCurrent, MirrorsGood, ChosenAnswered,
           [SessionsNext]_vars
    PROVE  MirrorsGood'
<1>1. ASSUME PoolStep \/ \E r \in Regions : Release(r)
      PROVE  MirrorsGood'
    <2>1. UNCHANGED <<valid, open, mirror>>
        BY <1>1 DEF PoolStep, Release, sessionVars
    <2>2. \/ AllocateStep \/ CollectStep \/ CloseStep
          \/ \E r \in Regions : StorageReleased(r)
        BY <1>1 DEF PoolStep, Release
    <2>3. ASSUME NEW s \in Sessions, Usual(s), NEW e \in mirror[s]
          PROVE  EntryGood(s, e)'
        BY <2>2, <2>3, EntryStays DEF MirrorsGood, SessionTypes
    <2>4. QED
        BY <2>1, <2>3 DEF MirrorsGood, Usual
<1>2. ASSUME UNCHANGED poolVars,
             \A s \in Sessions : Usual(s)' =>
               Usual(s) /\ mirror'[s] \subseteq mirror[s]
      PROVE  MirrorsGood'
    <2>1. ASSUME NEW s \in Sessions, NEW e, EntryGood(s, e)
          PROVE  EntryGood(s, e)'
        BY <1>2, <2>1 DEF EntryGood, poolVars
    <2>2. QED
        BY <1>2, <2>1 DEF MirrorsGood
<1> USE DEF SessionTypes, Usual
<1>3. ASSUME NEW i \in Invocations, MapFailed(i) PROVE MirrorsGood'
    BY <1>2, <1>3 DEF MapFailed
<1>4. ASSUME NEW i \in Invocations, Begin(i) \/ Dispatch(i) \/ PlanFails(i)
      PROVE  MirrorsGood'
    BY <1>2, <1>4 DEF Begin, Dispatch, PlanFails
<1>5. ASSUME NEW i \in Invocations, AbortAcked(i) PROVE MirrorsGood'
    BY <1>2, <1>5 DEF AbortAcked
<1>6. ASSUME NEW i \in Invocations, AbortLost(i) PROVE MirrorsGood'
    BY <1>2, <1>6 DEF AbortLost
<1>7. ASSUME NEW i \in Invocations, HostCompletes(i) \/ HostRefused(i)
      PROVE  MirrorsGood'
    BY <1>2, <1>7 DEF HostCompletes, HostRefused
<1>8. ASSUME NEW i \in Invocations, DeadlineExpires(i) \/ CloseReturns(i)
      PROVE  MirrorsGood'
    BY <1>2, <1>8 DEF DeadlineExpires, CloseReturns
<1>9. ASSUME NEW s \in Sessions, WorkerEnds(s) \/ WorkerDies(s)
      PROVE  MirrorsGood'
    BY <1>2, <1>9 DEF WorkerEnds, WorkerDies
<1>10. ASSUME NEW s \in Sessions, CloseSession(s) PROVE MirrorsGood'
    BY <1>2, <1>10 DEF CloseSession
<1>11. ASSUME NEW s \in Sessions, NEW i \in Invocations,
              WorkerStarts(s, i) \/ WorkerRefuses(s, i)
       PROVE  MirrorsGood'
    BY <1>2, <1>11 DEF WorkerStarts, WorkerRefuses
<1>12. CASE UNCHANGED vars
    BY <1>2, <1>12 DEF vars, sessionVars
<1>13. QED
    BY SessionCases, MapKeeps, RetireKeeps, <1>1, <1>3, <1>4, <1>5, <1>6,
       <1>7, <1>8, <1>9, <1>10, <1>11, <1>12, Zenon

-----------------------------------------------------------------------------
(* Commands stay with their session, and a finished invocation has no      *)
(* writable mapping in its worker.                                         *)
LEMMA CommandsKept ==
    ASSUME SessionTypes, CommandsHome, [SessionsNext]_vars
    PROVE  CommandsHome' /\ UNCHANGED on
<1> DEFINE Goal == CommandsHome' /\ UNCHANGED on
<1>1. ASSUME UNCHANGED <<on, queued, serving>> PROVE Goal
    BY <1>1 DEF CommandsHome
<1> USE DEF sessionVars
<1>2. ASSUME PoolStep \/ \E r \in Regions : Release(r) PROVE Goal
    BY <1>1, <1>2 DEF PoolStep, Release
<1>3. ASSUME NEW i \in Invocations, Begin(i) \/ MapAcked(i) \/ MapFailed(i)
      PROVE  Goal
    BY <1>1, <1>3 DEF Begin, MapAcked, MapFailed
<1>4. ASSUME NEW i \in Invocations,
             PlanFails(i) \/ AbortAcked(i) \/ AbortLost(i)
      PROVE  Goal
    BY <1>1, <1>4 DEF PlanFails, AbortAcked, AbortLost
<1>5. ASSUME NEW i \in Invocations,
             \/ HostCompletes(i) \/ HostRefused(i)
             \/ DeadlineExpires(i) \/ CloseReturns(i)
      PROVE  Goal
    BY <1>1, <1>5
    DEF HostCompletes, HostRefused, DeadlineExpires, CloseReturns
<1>6. ASSUME NEW s \in Sessions,
             RetireNothing(s) \/ RetireAcked(s) \/ RetireLost(s)
      PROVE  Goal
    BY <1>1, <1>6 DEF RetireNothing, RetireAcked, RetireLost
<1>7. ASSUME NEW i \in Invocations, Dispatch(i) PROVE Goal
    BY <1>7 DEF Dispatch, CommandsHome, SessionTypes
<1>8. ASSUME NEW s \in Sessions, NEW i \in Invocations,
             WorkerStarts(s, i) \/ WorkerRefuses(s, i)
      PROVE  Goal
    BY <1>8 DEF WorkerStarts, WorkerRefuses, CommandsHome, SessionTypes
<1>9. ASSUME NEW s \in Sessions, WorkerEnds(s) \/ WorkerDies(s) PROVE Goal
    BY <1>9 DEF WorkerEnds, WorkerDies, CommandsHome, SessionTypes
<1>10. ASSUME NEW s \in Sessions, CloseSession(s) PROVE Goal
    BY <1>10 DEF CloseSession, CommandsHome, SessionTypes
<1>11. CASE UNCHANGED vars
    BY <1>1, <1>11 DEF vars
<1>12. QED
    BY SessionCases, <1>2, <1>3, <1>4, <1>5, <1>6, <1>7, <1>8, <1>9, <1>10,
       <1>11, Zenon

(* A call does not return while an open session has its command.           *)
LEMMA AwaitedKept ==
    ASSUME SessionTypes, CommandsHome, CommandsAwaited, [SessionsNext]_vars
    PROVE  CommandsAwaited'
<1>1. ASSUME UNCHANGED <<stage, on, open, queued, serving>>
      PROVE  CommandsAwaited'
    BY <1>1 DEF CommandsAwaited, Holding
<1> USE DEF SessionTypes, Stages, CommandsAwaited, Holding
<1>2. ASSUME PoolStep \/ \E r \in Regions : Release(r)
      PROVE  CommandsAwaited'
    BY <1>1, <1>2 DEF PoolStep, Release, sessionVars
<1>3. ASSUME NEW s \in Sessions,
             RetireNothing(s) \/ RetireAcked(s) \/ RetireLost(s)
      PROVE  CommandsAwaited'
    BY <1>1, <1>3 DEF RetireNothing, RetireAcked, RetireLost, sessionVars
<1>4. ASSUME NEW i \in Invocations,
             \/ Begin(i) \/ MapAcked(i) \/ MapFailed(i) \/ PlanFails(i)
      PROVE  CommandsAwaited'
    <2>1. CASE Begin(i)
        BY <2>1 DEF Begin
    <2>2. CASE MapAcked(i)
        BY <2>2 DEF MapAcked
    <2>3. CASE MapFailed(i)
        BY <2>3 DEF MapFailed
    <2>4. CASE PlanFails(i)
        BY <2>4 DEF PlanFails
    <2>5. QED
        BY <1>4, <2>1, <2>2, <2>3, <2>4
<1>5. ASSUME NEW i \in Invocations, AbortAcked(i) \/ AbortLost(i)
      PROVE  CommandsAwaited'
    BY <1>5 DEF AbortAcked, AbortLost, Failed
<1>6. ASSUME NEW i \in Invocations,
             \/ HostCompletes(i) \/ HostRefused(i) \/ DeadlineExpires(i)
      PROVE  CommandsAwaited'
    BY <1>6 DEF HostCompletes, HostRefused, DeadlineExpires, Failed
<1>7. ASSUME NEW i \in Invocations, Dispatch(i) PROVE CommandsAwaited'
    BY <1>7 DEF Dispatch
<1>8. ASSUME NEW i \in Invocations, CloseReturns(i) PROVE CommandsAwaited'
    BY <1>8, SessionAssumption DEF CloseReturns, CommandsHome
<1>9. ASSUME NEW s \in Sessions, NEW i \in Invocations, WorkerStarts(s, i)
      PROVE  CommandsAwaited'
    BY <1>9 DEF WorkerStarts
<1>10. ASSUME NEW s \in Sessions, NEW i \in Invocations, WorkerRefuses(s, i)
       PROVE  CommandsAwaited'
    BY <1>10, SessionAssumption DEF WorkerRefuses, CommandsHome
<1>11. ASSUME NEW s \in Sessions, WorkerEnds(s) PROVE CommandsAwaited'
    BY <1>11, SessionAssumption DEF WorkerEnds, CommandsHome
<1>12. ASSUME NEW s \in Sessions, WorkerDies(s) PROVE CommandsAwaited'
    BY <1>12, SessionAssumption DEF WorkerDies
<1>13. ASSUME NEW s \in Sessions, CloseSession(s) PROVE CommandsAwaited'
    BY <1>13 DEF CloseSession
<1>14. CASE UNCHANGED vars
    BY <1>1, <1>14 DEF vars, sessionVars
<1>15. QED
    BY SessionCases, <1>2, <1>3, <1>4, <1>5, <1>6, <1>7, <1>8, <1>9, <1>10,
       <1>11, <1>12, <1>13, <1>14, Zenon

LEMMA FinishedKept ==
    ASSUME SessionTypes, CommandsHome, FinishedUnmapped, [SessionsNext]_vars
    PROVE  FinishedUnmapped'
<1> DEFINE Finished == {"completed", "refused"}
<1>0. UNCHANGED on
    BY CommandsKept
<1>1. ASSUME \A i \in Invocations : stage'[i] \in Finished =>
               stage[i] \in Finished /\ table'[on[i]] \subseteq table[on[i]]
      PROVE  FinishedUnmapped'
    BY <1>0, <1>1 DEF FinishedUnmapped, WritableBy
<1> USE DEF SessionTypes, sessionVars
<1>2. ASSUME PoolStep \/ \E r \in Regions : Release(r)
      PROVE  FinishedUnmapped'
    BY <1>1, <1>2 DEF PoolStep, Release
<1>3. ASSUME NEW i \in Invocations, Begin(i) \/ Dispatch(i) \/ PlanFails(i)
      PROVE  FinishedUnmapped'
    BY <1>1, <1>3 DEF Begin, Dispatch, PlanFails
<1>4. ASSUME NEW i \in Invocations,
             \A j \in Invocations : stage'[j] \in Finished =>
               j # i /\ stage[j] = stage'[j],
             \A s \in Sessions : table'[s] \subseteq table[s] \cup Sent(i)
      PROVE  FinishedUnmapped'
    <2>1. ASSUME NEW j \in Invocations, stage'[j] \in Finished
          PROVE  WritableBy(table'[on[j]], j) = {}
        <3>1. j # i /\ stage[j] = stage'[j]
            BY <1>4, <2>1
        <3>2. table'[on[j]] \subseteq table[on[j]] \cup Sent(i)
            BY <1>4
        <3>3. WritableBy(table[on[j]], j) = {}
            BY <2>1, <3>1 DEF FinishedUnmapped
        <3>4. \A e \in Sent(i) : e.by = i
            BY SentRecords
        <3>5. QED
            BY <3>1, <3>2, <3>3, <3>4 DEF WritableBy
    <2>2. QED
        BY <1>0, <2>1 DEF FinishedUnmapped
<1>5. ASSUME NEW i \in Invocations, MapAcked(i) PROVE FinishedUnmapped'
    <2>1. \A s \in Sessions : table'[s] \subseteq table[s] \cup Sent(i)
        BY <1>5 DEF MapAcked, Remap
    <2>2. \A j \in Invocations : stage'[j] \in Finished =>
             j # i /\ stage[j] = stage'[j]
        BY <1>5 DEF MapAcked
    <2>3. QED
        BY <1>4, <2>1, <2>2
<1>6. ASSUME NEW i \in Invocations, MapFailed(i) PROVE FinishedUnmapped'
    <2>1. PICK after \in TablesAfterFailure(i) :
             table' = [table EXCEPT ![on[i]] = after]
        BY <1>6 DEF MapFailed
    <2>2. after \subseteq table[on[i]] \cup Sent(i)
        BY DEF TablesAfterFailure, Remap
    <2>3. \A s \in Sessions : table'[s] \subseteq table[s] \cup Sent(i)
        BY <2>1, <2>2
    <2>4. \A j \in Invocations : stage'[j] \in Finished =>
             j # i /\ stage[j] = stage'[j]
        BY <1>6 DEF MapFailed
    <2>5. QED
        BY <1>4, <2>3, <2>4
<1>7. ASSUME NEW i \in Invocations, AbortAcked(i) \/ AbortLost(i)
      PROVE  FinishedUnmapped'
    BY <1>1, <1>7 DEF AbortAcked, AbortLost, Failed
<1>8. ASSUME NEW i \in Invocations,
             \/ HostCompletes(i) \/ HostRefused(i)
             \/ DeadlineExpires(i) \/ CloseReturns(i)
      PROVE  FinishedUnmapped'
    BY <1>1, <1>8
    DEF HostCompletes, HostRefused, DeadlineExpires, CloseReturns, Failed
<1>9. ASSUME NEW s \in Sessions,
             RetireNothing(s) \/ RetireAcked(s) \/ RetireLost(s)
      PROVE  FinishedUnmapped'
    BY <1>1, <1>9 DEF RetireNothing, RetireAcked, RetireLost
<1>10. ASSUME NEW s \in Sessions, WorkerEnds(s) PROVE FinishedUnmapped'
    <2>1. serving[s] \in Invocations /\ on[serving[s]] = s
        BY <1>10 DEF WorkerEnds, CommandsHome
    <2>2. \A j \in Invocations \ {serving[s]} :
             stage'[j] = stage[j] /\ table'[on[j]] \subseteq table[on[j]]
        BY <1>10 DEF WorkerEnds
    <2>3. WritableBy(table'[s], serving[s]) = {}
        BY <1>10 DEF WorkerEnds, WritableBy
    <2>4. QED
        BY <1>0, <2>1, <2>2, <2>3 DEF FinishedUnmapped, WritableBy
<1>11. ASSUME NEW s \in Sessions, NEW i \in Invocations, WorkerRefuses(s, i)
       PROVE  FinishedUnmapped'
    <2>1. on[i] = s
        BY <1>11 DEF WorkerRefuses, CommandsHome
    <2>2. \A j \in Invocations \ {i} :
             stage'[j] = stage[j] /\ table'[on[j]] \subseteq table[on[j]]
        BY <1>11 DEF WorkerRefuses
    <2>3. WritableBy(table'[s], i) = {}
        BY <1>11 DEF WorkerRefuses, WritableBy
    <2>4. QED
        BY <1>0, <2>1, <2>2, <2>3 DEF FinishedUnmapped, WritableBy
<1>12. ASSUME NEW s \in Sessions, NEW i \in Invocations, WorkerStarts(s, i)
       PROVE  FinishedUnmapped'
    BY <1>1, <1>12 DEF WorkerStarts
<1>13. ASSUME NEW s \in Sessions, WorkerDies(s) \/ CloseSession(s)
       PROVE  FinishedUnmapped'
    BY <1>1, <1>13 DEF WorkerDies, CloseSession
<1>14. CASE UNCHANGED vars
    BY <1>1, <1>14 DEF vars
<1>15. QED
    BY SessionCases, <1>2, <1>3, <1>5, <1>6, <1>7, <1>8, <1>9, <1>10, <1>11,
       <1>12, <1>13, <1>14, Zenon

-----------------------------------------------------------------------------
(* The worker drops what it maps no later than the host.                   *)
LEMMA TablesKept ==
    ASSUME SessionTypes, FinishedUnmapped, TableWithinMirror,
           [SessionsNext]_vars
    PROVE  TableWithinMirror'
<1>1. ASSUME \A s \in Sessions : Usual(s)' =>
               Usual(s) /\ table'[s] \subseteq table[s] /\ mirror'[s] = mirror[s]
      PROVE  TableWithinMirror'
    BY <1>1 DEF TableWithinMirror
<1> USE DEF SessionTypes, sessionVars, Usual
<1>2. ASSUME PoolStep \/ \E r \in Regions : Release(r)
      PROVE  TableWithinMirror'
    BY <1>1, <1>2 DEF PoolStep, Release
<1>3. ASSUME NEW i \in Invocations, Begin(i) \/ Dispatch(i) \/ PlanFails(i)
      PROVE  TableWithinMirror'
    BY <1>1, <1>3 DEF Begin, Dispatch, PlanFails
<1>4. ASSUME NEW i \in Invocations, MapAcked(i) PROVE TableWithinMirror'
    <2>1. /\ mirror' = [mirror EXCEPT ![on[i]] = Remap(mirror[on[i]], i)]
          /\ table' = [table EXCEPT ![on[i]] = Remap(table[on[i]], i)]
          /\ UNCHANGED <<valid, open>>
        BY <1>4 DEF MapAcked
    <2>2. ASSUME table[on[i]] \subseteq mirror[on[i]]
          PROVE  Remap(table[on[i]], i) \subseteq Remap(mirror[on[i]], i)
        BY <2>2 DEF Remap, Keyed
    <2>3. QED
        BY <2>1, <2>2 DEF TableWithinMirror
<1>5. ASSUME NEW i \in Invocations, MapFailed(i) PROVE TableWithinMirror'
    <2>1. PICK after \in TablesAfterFailure(i) :
             table' = [table EXCEPT ![on[i]] = after]
        BY <1>5 DEF MapFailed
    <2>2. QED
        BY <1>1, <1>5, <2>1 DEF MapFailed
<1>6. ASSUME NEW i \in Invocations, AbortAcked(i) PROVE TableWithinMirror'
    <2>1. PICK X : /\ X = WritableBy(mirror[on[i]], i)
                   /\ mirror' = [mirror EXCEPT ![on[i]] = mirror[on[i]] \ X]
                   /\ table' = [table EXCEPT ![on[i]] =
                                  table[on[i]] \ Keyed(table[on[i]], X)]
                   /\ UNCHANGED <<valid, open>>
        BY <1>6 DEF AbortAcked
    <2>2. ASSUME table[on[i]] \subseteq mirror[on[i]]
          PROVE  table[on[i]] \ Keyed(table[on[i]], X) \subseteq mirror[on[i]] \ X
        BY <2>2 DEF Keyed, SameKey
    <2>3. QED
        BY <2>1, <2>2 DEF TableWithinMirror
<1>7. ASSUME NEW i \in Invocations, AbortLost(i) PROVE TableWithinMirror'
    BY <1>1, <1>7 DEF AbortLost
<1>8. ASSUME NEW i \in Invocations, HostCompletes(i) \/ HostRefused(i)
      PROVE  TableWithinMirror'
    <2>1. /\ mirror' = [mirror EXCEPT ![on[i]] =
                          mirror[on[i]] \ WritableBy(mirror[on[i]], i)]
          /\ UNCHANGED <<table, open>>
          /\ \A s \in Sessions : valid'[s] => valid[s]
          /\ stage[i] \in {"completed", "refused"}
        BY <1>8 DEF HostCompletes, HostRefused
    <2>2. WritableBy(table[on[i]], i) = {}
        BY <2>1 DEF FinishedUnmapped
    <2>3. QED
        BY <2>1, <2>2 DEF TableWithinMirror, WritableBy
<1>9. ASSUME NEW i \in Invocations, DeadlineExpires(i) \/ CloseReturns(i)
      PROVE  TableWithinMirror'
    BY <1>1, <1>9 DEF DeadlineExpires, CloseReturns
<1>10. ASSUME NEW s \in Sessions, RetireNothing(s) \/ RetireLost(s)
       PROVE  TableWithinMirror'
    BY <1>1, <1>10 DEF RetireNothing, RetireLost
<1>11. ASSUME NEW s \in Sessions, RetireAcked(s) PROVE TableWithinMirror'
    <2>1. PICK X : /\ mirror' = [mirror EXCEPT ![s] = mirror[s] \ X]
                   /\ table' = [table EXCEPT ![s] =
                                  table[s] \ Keyed(table[s], X)]
                   /\ UNCHANGED <<valid, open>>
        BY <1>11 DEF RetireAcked
    <2>2. ASSUME table[s] \subseteq mirror[s]
          PROVE  table[s] \ Keyed(table[s], X) \subseteq mirror[s] \ X
        BY <2>2 DEF Keyed, SameKey
    <2>3. QED
        BY <2>1, <2>2 DEF TableWithinMirror
<1>12. ASSUME NEW s \in Sessions, WorkerEnds(s) \/ WorkerDies(s)
       PROVE  TableWithinMirror'
    BY <1>1, <1>12 DEF WorkerEnds, WorkerDies
<1>13. ASSUME NEW s \in Sessions, CloseSession(s) PROVE TableWithinMirror'
    BY <1>1, <1>13 DEF CloseSession
<1>14. ASSUME NEW s \in Sessions, NEW i \in Invocations,
              WorkerStarts(s, i) \/ WorkerRefuses(s, i)
       PROVE  TableWithinMirror'
    BY <1>1, <1>14 DEF WorkerStarts, WorkerRefuses
<1>15. CASE UNCHANGED vars
    BY <1>1, <1>15 DEF vars
<1>16. QED
    BY SessionCases, <1>2, <1>3, <1>4, <1>5, <1>6, <1>7, <1>8, <1>9, <1>10,
       <1>11, <1>12, <1>13, <1>14, <1>15, Zenon

-----------------------------------------------------------------------------
(* Sessions start without mappings and without commands ...                *)
LEMMA SessionsStart ==
    ASSUME SessionsInit
    PROVE  SessionsInv
<1>1. PoolInv
    BY PoolInitially DEF SessionsInit
<1>2. SessionTypes
    BY DEF SessionsInit, SessionInit, SessionTypes, Stages
<1>3. HandlesCurrent /\ MirrorsGood /\ TableWithinMirror
    BY DEF SessionsInit, SessionInit, HandlesCurrent, Pinned, MirrorsGood,
       TableWithinMirror
<1>4. /\ ChosenAnswered /\ CommandsHome /\ CommandsAwaited
      /\ FinishedUnmapped
    BY SessionAssumption
    DEF SessionsInit, SessionInit, Init, ChosenAnswered, CommandsHome,
        CommandsAwaited, Holding, FinishedUnmapped
<1>5. QED
    BY <1>1, <1>2, <1>3, <1>4 DEF SessionsInv

(* ... and every step of the pool, the sessions and the workers keeps the  *)
(* invariant.                                                              *)
THEOREM SessionsInvariance == SessionsSpec => []SessionsInv
<1>1. SessionsInit => SessionsInv
    BY SessionsStart
<1>2. SessionsInv /\ [SessionsNext]_vars => SessionsInv'
    <2> SUFFICES ASSUME SessionsInv, [SessionsNext]_vars PROVE SessionsInv'
        OBVIOUS
    <2>1. [Next]_poolVars
        BY PoolSteps DEF SessionsInv
    <2>2. PoolInv' /\ ChosenAnswered'
        BY <2>1, NextKeepsPool, ChosenKept DEF SessionsInv
    <2>3. SessionTypes' /\ HandlesCurrent' /\ MirrorsGood'
        BY SessionTypesKept, HandlesKept, MirrorsKept DEF SessionsInv
    <2>4. /\ CommandsHome' /\ CommandsAwaited'
          /\ FinishedUnmapped' /\ TableWithinMirror'
        BY CommandsKept, AwaitedKept, FinishedKept, TablesKept
        DEF SessionsInv
    <2>5. QED
        BY <2>2, <2>3, <2>4 DEF SessionsInv
<1>3. QED
    BY <1>1, <1>2, PTL DEF SessionsSpec

(* Together with its sessions the manager behaves as BufferPool says: what *)
(* invocations, workers and closing sessions do to it are steps of the     *)
(* pool, so that everything proved of the pool holds of the composition.   *)
THEOREM SessionsImplementPool == SessionsSpec => Spec
<1>1. SessionsInit => Init
    BY DEF SessionsInit
<1>2. SessionsInv /\ [SessionsNext]_vars => [Next]_poolVars
    BY PoolSteps DEF SessionsInv
<1>3. QED
    BY <1>1, <1>2, SessionsInvariance, PTL DEF SessionsSpec, Spec

(* A session that takes calls remembers no mapping of recycled memory: its *)
(* mappings are of the generation the region has, and of none in the free  *)
(* lists.                                                                  *)
THEOREM MirrorsAreCurrent == SessionsSpec => []MirrorCurrent
<1>1. SessionsInv => MirrorCurrent
    BY DEF SessionsInv, MirrorsGood, EntryGood, MirrorCurrent
<1>2. QED
    BY <1>1, SessionsInvariance, PTL

(* The table of the worker lies within the table of the host, so that a    *)
(* usable session is never refused a mapping it believes to be new.        *)
THEOREM WorkersForgetFirst == SessionsSpec => []TableWithinMirror
<1>1. SessionsInv => TableWithinMirror
    BY DEF SessionsInv
<1>2. QED
    BY <1>1, SessionsInvariance, PTL

(* An operation keeps the memory it was given as long as its session is    *)
(* open: the call that asked for it, answered or not, has not returned.    *)
THEOREM OpenMemoryStays == SessionsSpec => []OpenKeepsMemory
<1>1. SessionsInv => OpenKeepsMemory
    <2> SUFFICES ASSUME SessionsInv, NEW s \in Sessions,
                        open[s], serving[s] # NoInvocation,
                        NEW h \in handles[serving[s]]
                 PROVE  generation[h.region] = h.gen
        BY DEF OpenKeepsMemory
    <2>1. serving[s] \in Invocations
        BY DEF SessionsInv, SessionTypes
    <2>2. Pinned(serving[s])
        BY <2>1 DEF SessionsInv, CommandsAwaited, Pinned
    <2>3. QED
        BY <2>1, <2>2 DEF SessionsInv, HandlesCurrent
<1>2. QED
    BY <1>1, SessionsInvariance, PTL
=============================================================================
