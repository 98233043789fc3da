------------------------- MODULE MCSessionDispatch -------------------------
(***************************************************************************)
(* The callers of a session are interchangeable: safety is checked with    *)
(* Symmetry, and liveness, without it, of one of them.                     *)
(***************************************************************************)
EXTENDS SessionDispatch, TLC

CONSTANTS
    Watched,  \* the caller whose liveness is checked
    Spare     \* bound: a caller that stays out of behaviours with faults

Symmetry == Permutations(Callers)

(* Two callers against a worker that may fail, and all of them against one *)
(* that does not: more than its two rings have slots.                      *)
LiveNext == Next /\ (faults => stage'[Spare] = "idle" /\ begun' <= 2)
LiveSpec == Init /\ [][LiveNext]_sessionVars /\ Fairness

(* Whatever the worker does, a call and a close end: the deadline of a     *)
(* submission, the control timeouts and the kill unblock everyone, also a  *)
(* push whose wakeup is lost and closers waiting for each other            *)
(* (WorkerSession.invoke and close, submit_ring, fail_ring).               *)
CallsEnd == CallEnds(Watched)

(* With a worker that keeps serving and no deadline passing, a submission  *)
(* is answered: full rings in both directions and callers queued on        *)
(* producer_mutex behind a blocked push cannot block each other, and a     *)
(* close that is under way waits for it (submit_ring, the worker's ring    *)
(* thread, the completion thread).                                         *)
EveryCallAnswered == CallAnswered(Watched)
=============================================================================
