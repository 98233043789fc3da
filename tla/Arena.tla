------------------------------- MODULE Arena --------------------------------
(***************************************************************************)
(* The arena mode of BufferManager: one memfd, carved first fit from a     *)
(* sorted list of free blocks, whose blocks come back when a collection    *)
(* drains the queue of released storages.                                  *)
(***************************************************************************)
EXTENDS Integers, Sequences, SequencesExt, Functions

CONSTANTS
    ArenaBytes,      \* _arena_bytes
    Alignment,       \* _ARENA_ALIGNMENT
    Requests         \* the byte lengths that are requested

ASSUME ArenaAssumption ==
    /\ Alignment \in Nat \ {0}
    /\ ArenaBytes \in Nat \ {0}
    /\ ArenaBytes % Alignment = 0
    /\ Requests \subseteq Nat \ {0}

VARIABLES
    region,          \* _arena_region: "none", "open" or "closed"
    free,            \* _arena_free, blocks in the order of their offsets
    live,            \* allocations in _active whose storage is alive
    released,        \* allocations in _active queued in _released
    closed           \* _closed

arenaVars == <<region, free, live, released, closed>>

-----------------------------------------------------------------------------
Align(n) == ((n + Alignment - 1) \div Alignment) * Alignment

Block(o, n) == [offset |-> o, length |-> n]

End(b) == b.offset + b.length

BlockBytes(b) == b.offset .. End(b) - 1

Active == live \cup ToSet(released)

\* The index of the first block that is large enough, 0 if there is none.
FirstFit(blocks, n) == SelectInSeq(blocks, LAMBDA b : b.length >= n)

\* Fault: the rest of a block starts one byte early.
Carve_OffByOne(blocks, i, n) ==
    LET b == blocks[i]
    IN  IF b.length > n
        THEN ReplaceAt(blocks, i, Block(b.offset + n - 1, b.length - n + 1))
        ELSE RemoveAt(blocks, i)

Carve(blocks, i, n) ==
    LET b == blocks[i]
    IN  IF b.length > n
        THEN ReplaceAt(blocks, i, Block(b.offset + n, b.length - n))
        ELSE RemoveAt(blocks, i)

\* list.sort() on the offsets, no two of which are equal.
Sorted(blocks) ==
    LET order == CHOOSE p \in Bijection(DOMAIN blocks, DOMAIN blocks) :
                    \A i, j \in DOMAIN blocks :
                        i < j => blocks[p[i]].offset <= blocks[p[j]].offset
    IN  [i \in DOMAIN blocks |-> blocks[order[i]]]

\* One turn of the merging loop: the block extends the last one or follows it.
Joined(merged, next) ==
    IF merged # <<>> /\ End(Last(merged)) = next.offset
    THEN ReplaceAt(merged, Len(merged),
                   Block(Last(merged).offset, Last(merged).length + next.length))
    ELSE Append(merged, next)

Merged(blocks) ==
    LET merged[k \in 0 .. Len(blocks)] ==
            IF k = 0 THEN <<>> ELSE Joined(merged[k - 1], blocks[k])
    IN  merged[Len(blocks)]

\* Fault: blocks are merged in the order they were returned in.
Give_Unsorted(blocks, b) == Merged(Append(blocks, b))

\* _release_arena: the block joins the list, which is sorted and merged.
Give(blocks, b) == Merged(Sorted(Append(blocks, b)))

\* What an allocation has to itself, padding included.
Padded(b) == Block(b.offset, Align(b.length))

\* A queue of allocations is given back one after the other.
Collected(blocks, queue) ==
    LET given[k \in 0 .. Len(queue)] ==
            IF k = 0 THEN blocks ELSE Give(given[k - 1], Padded(queue[k]))
    IN  given[Len(queue)]

-----------------------------------------------------------------------------
ArenaInit ==
    /\ region = "none"
    /\ free = <<>>
    /\ live = {}
    /\ released = <<>>
    /\ closed = FALSE

\* The list the allocation searches: the arena is made by the first one.
Searched == IF region = "none" THEN <<Block(0, ArenaBytes)>> ELSE free

Allocate(n) ==
    LET blocks == Searched
        i == FirstFit(blocks, Align(n))
    IN  /\ ~closed
        /\ i # 0
        /\ region' = "open"
        /\ free' = Carve(blocks, i, Align(n))
        /\ live' = live \cup {Block(blocks[i].offset, n)}
        /\ UNCHANGED <<released, closed>>

\* MemoryError: nothing is allocated, but a first arena stays.
Exhausted(n) ==
    /\ ~closed
    /\ FirstFit(Searched, Align(n)) = 0
    /\ region' = "open"
    /\ free' = Searched
    /\ UNCHANGED <<live, released, closed>>

StorageReleased(b) ==
    /\ b \in live
    /\ live' = live \ {b}
    /\ released' = Append(released, b)
    /\ UNCHANGED <<region, free, closed>>

\* Everything queued is given back, in the order of the queue, under _lock.
\* After close() the last block takes the arena with it.
CollectArena ==
    /\ released # <<>>
    /\ free' = Collected(free, released)
    /\ released' = <<>>
    /\ region' = IF closed /\ live = {} THEN "closed" ELSE region
    /\ UNCHANGED <<live, closed>>

\* close() up to its own collection, which is CollectArena.
CloseFlag ==
    /\ ~closed
    /\ closed' = TRUE
    /\ UNCHANGED <<region, free, live, released>>

\* The end of close(): the arena goes at once if nothing is active.
CloseArena ==
    /\ closed
    /\ region = "open"
    /\ Active = {}
    /\ region' = "closed"
    /\ UNCHANGED <<free, live, released, closed>>

ArenaNext ==
    \/ \E n \in Requests : Allocate(n) \/ Exhausted(n)
    \/ \E b \in live : StorageReleased(b)
    \/ CollectArena
    \/ CloseFlag
    \/ CloseArena

ArenaSpec == ArenaInit /\ [][ArenaNext]_arenaVars

-----------------------------------------------------------------------------
\* The free list holds aligned, non-empty blocks of the arena.
Aligned ==
    /\ \A b \in ToSet(free) \cup Active :
         /\ b.offset \in 0 .. ArenaBytes - 1
         /\ b.offset % Alignment = 0
         /\ b.length \in 1 .. ArenaBytes
    /\ \A b \in ToSet(free) : b.length % Alignment = 0

Apart(a, b) == BlockBytes(a) \cap BlockBytes(b) = {}

(* Every byte of the arena belongs to exactly one free block or one        *)
(* allocation: nothing is handed out twice and nothing is ever lost, in    *)
(* whatever order storages are released and collected.                     *)
Partitioned ==
    region # "none" =>
        /\ Aligned
        /\ \A x \in 0 .. ArenaBytes - 1 :
             \/ \E b \in ToSet(free) : x \in BlockBytes(b)
             \/ \E b \in Active : x \in BlockBytes(Padded(b))
        /\ \A i, j \in DOMAIN free : i # j => Apart(free[i], free[j])
        /\ \A b, c \in Active : b # c => Apart(Padded(b), Padded(c))
        /\ \A f \in ToSet(free), b \in Active : Apart(f, Padded(b))

(* The free list is sorted and coalesced, so that MemoryError means that   *)
(* no run of free bytes is long enough, however fragmented the history:    *)
(* some block serves every request that a run of free bytes could serve.   *)
FitsIfItCould ==
    region = "open" => \A n \in Requests, o \in 0 .. ArenaBytes :
        /\ o + Align(n) <= ArenaBytes
        /\ \A b \in Active : Apart(Padded(b), Block(o, Align(n)))
        => FirstFit(free, Align(n)) # 0

(* The memory is never unmapped below a tensor: the arena is closed only   *)
(* when no storage is alive.                                               *)
ArenaOutlivesStorages == region = "closed" => live = {}
=============================================================================
