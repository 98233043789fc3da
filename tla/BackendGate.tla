---------------------------- MODULE BackendGate ----------------------------
(***************************************************************************)
(* What a backend of worker processes promises to the runtime above it:    *)
(* threads enter it while it is open and are turned away as soon as its    *)
(* close has begun, the close is over only when everybody who entered has  *)
(* left, and from then on no session has a worker, no worker is started,   *)
(* and nothing opens it again.  A worker may outlast the close of its own  *)
(* session; all it does afterwards is to end.                              *)
(***************************************************************************)
CONSTANTS Threads,   \* the threads that call the backend
          Workers    \* the workers it may start

VARIABLES gate,      \* open, closing or closed
          running,   \* the threads that are inside
          workers,   \* the workers of the sessions that are not closed
          lingering  \* those that have outlasted the close of theirs

gateVars == <<gate, running, workers, lingering>>

GateInit ==
    /\ gate = "open"
    /\ running = {}
    /\ workers \subseteq Workers
    /\ lingering = {}

Enter(t) ==
    /\ gate = "open"
    /\ t \notin running
    /\ running' = running \cup {t}
    /\ UNCHANGED <<gate, workers, lingering>>

Exit(t) ==
    /\ t \in running
    /\ running' = running \ {t}
    /\ UNCHANGED <<gate, workers, lingering>>

(* Workers start, fail and are replaced as long as the close lasts.        *)
WorkersChange ==
    /\ gate # "closed"
    /\ workers' \subseteq Workers
    /\ lingering' \subseteq Workers
    /\ UNCHANGED <<gate, running>>

LingererEnds ==
    /\ lingering' \subseteq lingering
    /\ UNCHANGED <<gate, running, workers>>

CloseBegins ==
    /\ gate = "open"
    /\ gate' = "closing"
    /\ UNCHANGED <<running, workers, lingering>>

(* Also in one step with its beginning, when nobody is inside.             *)
CloseEnds ==
    /\ gate # "closed"
    /\ running = {}
    /\ gate' = "closed"
    /\ workers' = {}
    /\ UNCHANGED <<running, lingering>>

GateNext ==
    \/ \E t \in Threads : Enter(t) \/ Exit(t)
    \/ WorkersChange \/ LingererEnds \/ CloseBegins \/ CloseEnds

GateSpec == GateInit /\ [][GateNext]_gateVars
=============================================================================
