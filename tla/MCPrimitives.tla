---------------------------- MODULE MCPrimitives ----------------------------
(***************************************************************************)
(* The two primitives that everything else waits on, the ring between two  *)
(* processes and the access leases between threads, in one run: moving     *)
(* says which of them a behaviour is about, and the other stays as it was  *)
(* made.                                                                   *)
(***************************************************************************)
EXTENDS SpscRing, AccessLeases

CONSTANT Watched   \* the thread, of threads that are interchangeable, whose
                   \*   liveness is checked

VARIABLE moving

both == <<vars, leaseVars, moving>>

RingMoves(A) == moving = "ring" /\ A /\ UNCHANGED <<leaseVars, moving>>
LeasesMove(A) == moving = "leases" /\ A /\ UNCHANGED <<vars, moving>>

PrimitivesInit ==
    /\ Init /\ LeaseInit
    /\ moving \in {"ring", "leases"}
    /\ moving = "leases" => native.producer /\ native.consumer

PrimitivesNext == RingMoves(Next) \/ LeasesMove(LeaseNext)

(* The fairness of the two, as in their own modules.                       *)
PrimitivesSpec ==
    /\ PrimitivesInit /\ [][PrimitivesNext]_both
    /\ WF_both(RingMoves(PushStep)) /\ WF_both(RingMoves(PopStart \/ PopStep))
    /\ WF_both(RingMoves(CloseNotifyData \/ CloseNotifySpace))
    /\ \A t \in Threads : WF_both(LeasesMove(Wake(t))) /\ WF_both(LeasesMove(ReleaseAccess(t)))

(* Every reservation is eventually granted or refused, however many        *)
(* operations keep arriving, whichever waits are interrupted and whenever  *)
(* the manager is closed (reserve_access, _grant_access_waiters).          *)
EveryoneServed == Served(Watched)
=============================================================================
