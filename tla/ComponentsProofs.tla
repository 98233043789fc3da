-------------------------- MODULE ComponentsProofs --------------------------
(***************************************************************************)
(* Proofs about the components that need no other: the startup of a        *)
(* session, the log channel, the arena, the frames and descriptors of the  *)
(* control protocol and the views of tensors.                              *)
(*                                                                         *)
(* Startup.  A session handed to a caller leaves nothing when it ends, and *)
(* a failed startup at most what the finally clause does not name          *)
(* (NothingLeft); the hooks of a plugin that has both run in pairs         *)
(* (HooksPaired), whatever fails, hangs, crashes, expires or is cancelled  *)
(* on the way.  The argument is the invariant StartupInv: what the         *)
(* position of the coroutine says about the worker (WorkerOwned), about    *)
(* the descriptors (DescriptorsOwned) and about the session                *)
(* (SessionOwned), what an answer on the socket says about the hooks       *)
(* (AnswersTrue), and that only a constructor that gave up cancels.        *)
(*                                                                         *)
(* Logging.  Every step that makes a record unreachable adds to what is    *)
(* counted or, where its reader refuses it, to what was refused; and a     *)
(* count is only ever moved, from the logger to the sender, to the socket  *)
(* and to the collector (LossesCounted).                                   *)
(*                                                                         *)
(* Arena.  Its memory goes after the last storage on it.  Every byte has   *)
(* one owner (Partitioned): the free list is sorted and no two blocks of   *)
(* it touch, so that the sort finds one place for a block that comes back  *)
(* and the merge adds its bytes and no others.  The gaps also show that a  *)
(* run of free bytes is within one block (FitsIfItCould).                  *)
(*                                                                         *)
(* Descriptors.  The loop of FdReceiver._serve has closed and crossed out  *)
(* the descriptors of the entries it has passed; when an entry raises, the *)
(* error path closes what is left and a descriptor that add had closed     *)
(* (DatagramAccounted).                                                    *)
(*                                                                         *)
(* Control frames.  What an encoder checks is what the socket calls and the *)
(* decoder check again, so that a message it accepts arrives as written and *)
(* with its own descriptors (ControlFramesArrive).                         *)
(*                                                                         *)
(* Views.  The largest index of each dimension gives the farthest byte, as *)
(* a sum only grows with its terms: what is touched is within the span.    *)
(***************************************************************************)
EXTENDS SessionStartup, LogChannel, Arena, ControlFrames, TensorViews, SetSums

-----------------------------------------------------------------------------
(* The startup of a session.                                               *)

(* The positions of the coroutine before, during and after the worker.     *)
Unlaunched == {"new", "opening", "launching"}
Launched == {"sending", "receiving", "publishing", "serving", "stopping",
             "acknowledging", "waiting", "terminating", "releasing"}

Resources == {"bootstrap", "fd_socket", "fd_child", "rings", "log_child",
              "collector", "log_file", "session", "detached", "duplicates"}

StartupTypes ==
    /\ mode \in LogModes
    /\ declared \subseteq {"initialize", "shutdown"}
    /\ ctor \in {"waiting", "expired", "raised", "returned"}
    /\ ready \in BOOLEAN /\ failed \in BOOLEAN /\ dirty \in BOOLEAN
    /\ cancel \in {"none", "posted", "raised"}
    /\ conn \in Unlaunched \cup Launched \cup {"ended"}
    /\ held \subseteq Resources
    /\ worker \in Living \cup {"none", "exited"}
    /\ hook \in {"none", "initialized", "shut"}
    /\ request \in {"none", "startup", "shutdown"}
    /\ answer \in {"none", "ok", "wrong", "error", "ack"}

(* A cancellation comes from a constructor that gave up.                   *)
CancelledOnce == cancel # "none" => ctor = "raised"

(* There is a worker from the launch on; the connection does not get past  *)
(* its wait before the worker is gone, unless that wait was cancelled.     *)
WorkerOwned ==
    /\ conn \in Unlaunched => worker = "none"
    /\ conn \in Launched => worker # "none"
    /\ conn = "releasing" => worker = "exited" \/ cancel = "raised"
    /\ conn = "ended" /\ worker # "none" =>
           worker = "exited" \/ cancel = "raised"

(* What each position of the coroutine after the launch has given back     *)
(* already.  The lost descriptors come from a failure before ready; a      *)
(* worker that is not asked to start has run no hook.                      *)
Named == {"rings", "log_child", "log_file", "collector"}
Lost == {"detached", "duplicates"}
Stopping == {"serving", "stopping", "acknowledging", "waiting",
             "terminating", "releasing"}

DescriptorsOwned ==
    /\ conn \in Unlaunched =>
           held \subseteq Named \union {"bootstrap", "fd_socket", "fd_child"}
    /\ conn \in {"sending", "receiving"} =>
           "session" \notin held /\ held \intersect Lost = {}
    /\ conn \in {"receiving", "publishing", "serving"} =>
           "fd_child" \notin held
    /\ conn \in {"publishing", "serving", "acknowledging"} =>
           held \intersect {"bootstrap", "fd_socket"} = {}
    /\ "session" \in held => held \intersect (Lost \union
                                  {"bootstrap", "fd_socket", "fd_child"}) = {}
    /\ conn \in {"waiting", "terminating", "releasing"} =>
           held \subseteq Named \union Lost \union {"fd_child"}
    /\ worker = "none" => hook = "none" /\ request = "none"
    /\ conn \in {"sending", "receiving", "publishing"} => ~ready
    /\ conn \in Stopping /\ ~failed => ready
    /\ conn = "ended" /\ ~failed => held = {}
    /\ conn \in Launched /\ ready =>
           held \intersect (Lost \union {"fd_child"}) = {}
    /\ ctor = "returned" => ready
    /\ worker # "none" /\ "fd_child" \in held =>
           worker \in {"starting", "exited"} /\ request # "startup"
             /\ hook = "none" /\ conn # "receiving"
    /\ NothingLeft

(* What the plugin's hooks have done by the time the worker is where it is *)
(* and an answer is on its way.                                            *)
HookRan ==
    /\ "initialize" \in declared => hook # "none"
    /\ worker \in {"answering", "serving", "stopping"} =>
           hook = IF "initialize" \in declared THEN "initialized" ELSE "none"
HooksDone == declared = {"initialize", "shutdown"} => hook = "shut"

AnswersTrue ==
    /\ worker \in {"starting", "checking", "initializing"} => hook = "none"
    /\ worker \in {"answering", "serving", "stopping"} => HookRan
    /\ hook = "shut" => worker = "exited"
    /\ answer = "ok" => HookRan
    /\ answer = "ack" => HooksDone

(* A connection that has failed nowhere has a session until it is told to  *)
(* stop, and after the acknowledgement a plugin that was shut down.        *)
SessionOwned ==
    /\ conn \in {"publishing", "serving"} => "session" \in held
    /\ conn \in {"publishing", "serving"} => HookRan
    /\ conn = "stopping" /\ ~failed => "session" \in held
    /\ conn = "terminating" => dirty
    /\ conn \in {"waiting", "releasing"} /\ ~dirty /\ ~failed => HooksDone
    /\ conn \in Unlaunched => ~ready
    /\ ready /\ ~failed => HookRan
    /\ HooksPaired

StartupInv ==
    /\ StartupTypes
    /\ CancelledOnce
    /\ WorkerOwned
    /\ DescriptorsOwned
    /\ AnswersTrue
    /\ SessionOwned

-----------------------------------------------------------------------------
LEMMA StartupInitially == ASSUME Init PROVE StartupInv
BY DEF Init, StartupInv, StartupTypes, CancelledOnce, WorkerOwned,
       DescriptorsOwned, AnswersTrue, SessionOwned, NothingLeft, HooksPaired,
       HookRan, HooksDone, LogModes, Living, Unlaunched, Launched, Stopping

LEMMA StartupPreserved ==
    ASSUME StartupInv, [Next]_vars
    PROVE  StartupInv'
<1> USE DEF StartupInv, StartupTypes, CancelledOnce, WorkerOwned,
            DescriptorsOwned, AnswersTrue, SessionOwned, NothingLeft,
            HooksPaired, HookRan, HooksDone, LogModes, Living, Unlaunched,
            Launched, Stopping, Resources, Named, Lost, Ended, fixed, host,
            host_, plugin
<1>o. Opened \subseteq Named \union {"bootstrap", "fd_socket", "fd_child"}
    BY DEF Opened, LogResources
<1>1. CASE Begin
    BY <1>1 DEF Begin
<1>2. CASE Open
    BY <1>2, <1>o DEF Open
<1>3. CASE OpenFails
    <2>1. StartupTypes'
        BY <1>3, <1>o DEF OpenFails
    <2>2. (CancelledOnce /\ WorkerOwned)'
        BY <1>3 DEF OpenFails
    <2>3. DescriptorsOwned'
        BY <1>3, <1>o DEF OpenFails
    <2>4. (AnswersTrue /\ SessionOwned)'
        BY <1>3 DEF OpenFails
    <2>5. QED
        BY <2>1, <2>2, <2>3, <2>4
<1>4. CASE Launch
    <2>1. StartupTypes'
        BY <1>4 DEF Launch
    <2>2. (CancelledOnce /\ WorkerOwned)'
        BY <1>4 DEF Launch
    <2>3. DescriptorsOwned'
        BY <1>4 DEF Launch
    <2>4. (AnswersTrue /\ SessionOwned)'
        BY <1>4 DEF Launch
    <2>5. QED
        BY <2>1, <2>2, <2>3, <2>4
<1>5. CASE LaunchFails
    <2>1. StartupTypes'
        BY <1>5 DEF LaunchFails
    <2>2. (CancelledOnce /\ WorkerOwned)'
        BY <1>5 DEF LaunchFails
    <2>3. DescriptorsOwned'
        BY <1>5 DEF LaunchFails
    <2>4. (AnswersTrue /\ SessionOwned)'
        BY <1>5 DEF LaunchFails
    <2>5. QED
        BY <2>1, <2>2, <2>3, <2>4
<1>6. CASE Send
    BY <1>6 DEF Send
<1>7. CASE Connect
    BY <1>7 DEF Connect, Accepted
<1>8. CASE StartFails
    BY <1>8 DEF StartFails
<1>9. CASE Publish
    BY <1>9 DEF Publish
<1>10. CASE ServeCancelled
    BY <1>10 DEF ServeCancelled
<1>11. CASE Shutdown
    <2>1. /\ conn = "stopping"
          /\ \/ /\ "session" \in held
                /\ conn' = "acknowledging" /\ request' = "shutdown"
                /\ held' = held
             \/ /\ "session" \notin held
                /\ conn' = "waiting" /\ request' = request
                /\ held' = held \ {"bootstrap", "fd_socket"}
          /\ UNCHANGED <<mode, declared, ctor, ready, cancel, failed, dirty,
                         worker, hook, answer>>
        BY <1>11, Zenon DEF Shutdown
    <2>2. StartupTypes'
        <3>1. held' \subseteq Resources
            BY <2>1
        <3>2. conn' \in Unlaunched \cup Launched \cup {"ended"}
            BY <2>1
        <3>3. request' \in {"none", "startup", "shutdown"}
            BY <2>1
        <3>4. QED
            BY <2>1, <3>1, <3>2, <3>3
    <2>3. (CancelledOnce /\ WorkerOwned /\ AnswersTrue)'
        BY <2>1
    <2>4. DescriptorsOwned'
        <3>1. CASE "session" \in held
            BY <2>1, <3>1
        <3>2. CASE "session" \notin held
            BY <2>1, <3>2
        <3>3. QED
            BY <3>1, <3>2
    <2>5. SessionOwned'
        BY <2>1
    <2>6. QED
        BY <2>2, <2>3, <2>4, <2>5
<1>12. CASE Acknowledged
    BY <1>12 DEF Acknowledged
<1>13. CASE Unacknowledged
    BY <1>13 DEF Unacknowledged
<1>14. CASE WorkerGone
    <2>1. CASE dirty' = dirty
        BY <1>14, <2>1 DEF WorkerGone
    <2>2. CASE dirty'
        BY <1>14, <2>2 DEF WorkerGone
    <2>3. QED
        BY <1>14, <2>1, <2>2 DEF WorkerGone
<1>15. CASE WaitExpires
    BY <1>15 DEF WaitExpires
<1>16. CASE Kill
    BY <1>16 DEF Kill
<1>17. CASE WaitCancelled
    BY <1>17 DEF WaitCancelled
<1>18. CASE Release
    BY <1>18 DEF Release
<1>19. CASE Constructed
    <2>1. StartupTypes'
        BY <1>19 DEF Constructed
    <2>2. (CancelledOnce /\ WorkerOwned)'
        BY <1>19 DEF Constructed
    <2>3. DescriptorsOwned'
        BY <1>19 DEF Constructed
    <2>4. (AnswersTrue /\ SessionOwned)'
        BY <1>19 DEF Constructed
    <2>5. QED
        BY <2>1, <2>2, <2>3, <2>4
<1>20. CASE Expire
    BY <1>20 DEF Expire
<1>21. CASE AbortStartup
    BY <1>21 DEF AbortStartup
<1>22. CASE Asked
    BY <1>22 DEF Asked
<1>23. CASE WorkerReads
    BY <1>23 DEF WorkerReads
<1>24. CASE WorkerRefuses
    BY <1>24 DEF WorkerRefuses
<1>25. CASE WorkerChecks
    BY <1>25 DEF WorkerChecks
<1>26. CASE WorkerInitialized
    <2>1. StartupTypes'
        BY <1>26 DEF WorkerInitialized
    <2>2. (CancelledOnce /\ WorkerOwned)'
        BY <1>26 DEF WorkerInitialized
    <2>3. DescriptorsOwned'
        BY <1>26 DEF WorkerInitialized
    <2>4. (AnswersTrue /\ SessionOwned)'
        <3>1. CASE "initialize" \in declared
            BY <1>26, <3>1 DEF WorkerInitialized
        <3>2. CASE "initialize" \notin declared
            BY <1>26, <3>2 DEF WorkerInitialized
        <3>3. QED
            BY <3>1, <3>2
    <2>5. QED
        BY <2>1, <2>2, <2>3, <2>4
<1>27. CASE WorkerAnswers
    BY <1>27 DEF WorkerAnswers, AfterShutdown
<1>28. CASE WorkerTold
    BY <1>28 DEF WorkerTold
<1>29. CASE WorkerStops
    BY <1>29 DEF WorkerStops, AfterShutdown
<1>30. CASE WorkerDies
    BY <1>30 DEF WorkerDies
<1>31. CASE ConnectFails
    <2>1. StartupTypes'
        BY <1>31 DEF ConnectFails, Accepted
    <2>2. (CancelledOnce /\ WorkerOwned)'
        BY <1>31 DEF ConnectFails, Accepted
    <2>3. DescriptorsOwned'
        BY <1>31 DEF ConnectFails, Accepted
    <2>4. (AnswersTrue /\ SessionOwned)'
        BY <1>31 DEF ConnectFails, Accepted
    <2>5. QED
        BY <2>1, <2>2, <2>3, <2>4
<1>32. CASE Forgotten
    BY <1>32 DEF Forgotten, Sockets
<1>33. CASE UNCHANGED vars
    BY <1>33 DEF vars
<1> HIDE DEF StartupInv, StartupTypes, CancelledOnce, WorkerOwned,
             DescriptorsOwned, AnswersTrue, SessionOwned, NothingLeft,
             HooksPaired, Ended
<1>34. QED
    BY <1>1, <1>2, <1>3, <1>4, <1>5, <1>6, <1>7, <1>8, <1>9, <1>10, <1>11, <1>12, <1>13, <1>14, <1>15, <1>16, <1>17, <1>18, <1>19, <1>20, <1>21, <1>22, <1>23, <1>24, <1>25, <1>26, <1>27, <1>28, <1>29, <1>30, <1>31, <1>32, <1>33
    DEF Next, ConnectionStep, ConstructorStep, WorkerStep

(* The invariant of the startup and the end of a session.                  *)
THEOREM StartupInvariance == Spec => []StartupInv
<1>1. Init => StartupInv
    BY StartupInitially
<1>2. StartupInv /\ [Next]_vars => StartupInv'
    BY StartupPreserved
<1>3. QED
    BY <1>1, <1>2, PTL DEF Spec

(* However the connection ends once there is a worker: the session of a    *)
(* constructor that returned has given everything back, a failed startup   *)
(* everything that the finally clause of _worker_connection names, and the *)
(* worker has been reaped unless the wait for it was cancelled.            *)
THEOREM ConnectionLeavesNothing == Spec => []NothingLeft
<1>1. StartupInv => NothingLeft
    BY DEF StartupInv, DescriptorsOwned
<1>2. QED
    BY <1>1, StartupInvariance, PTL

(* WorkerSession.__init__ returns only a session whose plugin ran the      *)
(* initialize hook it declares, and a connection that ends without an      *)
(* error has had the shutdown hook of a plugin with both run.              *)
THEOREM HooksComeInPairs == Spec => []HooksPaired
<1>1. StartupInv => HooksPaired
    BY DEF StartupInv, SessionOwned
<1>2. QED
    BY <1>1, StartupInvariance, PTL

-----------------------------------------------------------------------------
(* The log channel.                                                        *)
LogRecords == [sequence : Nat, level : Nat]
LogPackets == [sequence : Nat, dropped : Nat]

LogTypes ==
    /\ sink \in {"socket", "file", "inprocess", "inprocess_file"}
    /\ sequence \in Nat
    /\ queue \in Seq(LogRecords)
    /\ dropped \in Nat /\ boundDropped \in Nat /\ reported \in Nat
    /\ refused \in Nat
    /\ bound \in BOOLEAN /\ (~bound => boundDropped = 0)
    /\ sender \in {"waiting", "reporting", "sending", "done"}
    /\ hand \in [record : LogRecords, dropped : Nat]
    /\ sender \in {"waiting", "done"} => hand = NoRecord
    /\ packets \in Seq(LogPackets)
    /\ emitted \in Seq(Nat)

(* What the packets under way announce is a sum over their positions.      *)
Weights(packed) == [i \in 1..Len(packed) |-> packed[i].dropped]

LEMMA AnnouncedIsSum ==
    ASSUME NEW q \in Seq(LogPackets)
    PROVE  Announced(q) = SumOver(1..Len(q), Weights(q))
<1> DEFINE S == 1..Len(q)
           w == Weights(q)
           Folds_(g) == g = [s \in SUBSET S |->
                               IF s = {} THEN 0
                               ELSE q[Picked(s)].dropped + g[s \ {Picked(s)}]]
<1>1. Announced(q) = (CHOOSE g : Folds_(g))[S]
    <2>1. DOMAIN q = S
        OBVIOUS
    <2>2. QED
        BY <2>1 DEF Announced, FoldSeq, FoldFunction, FoldFunctionOnSet,
               MapThenFoldSet, Picked
<1>2. IsFiniteSet(S)
    BY FS_Interval
<1>3. ASSUME NEW g PROVE Folds_(g) <=> Sums(g, S, w)
    <2>1. ASSUME NEW s \in SUBSET S, s # {}
          PROVE  w[Picked(s)] = q[Picked(s)].dropped
        <3>1. Picked(s) \in S
            BY <2>1 DEF Picked
        <3>2. QED
            BY <3>1 DEF Weights
    <2>2. \A s \in SUBSET S :
             SumStep(g, s, w) = IF s = {} THEN 0
                                ELSE q[Picked(s)].dropped + g[s \ {Picked(s)}]
        BY <2>1 DEF SumStep
    <2>3. QED
        BY <2>2 DEF Sums
<1>4. PICK g : g = (CHOOSE h : Folds_(h)) /\ Folds_(g)
    <2>1. \E h : Folds_(h)
        BY <1>2, <1>3, SumExists
    <2> HIDE DEF Folds_
    <2>2. QED
        BY <2>1
<1>5. PICK h : Sums(h, S, w) /\ SumOver(S, w) = h[S]
    BY <1>2, SumIsSum
<1>6. \A s \in SUBSET S : g[s] = h[s]
    <2>1. S \subseteq S
        OBVIOUS
    <2> HIDE DEF S, w, Folds_
    <2>2. Sums(g, S, w)
        BY <1>3, <1>4, Zenon
    <2>3. QED
        BY <1>2, <1>5, <2>1, <2>2, SumUnique
<1>7. g[S] = h[S]
    <2>1. S \in SUBSET S
        OBVIOUS
    <2> HIDE DEF S
    <2>2. QED
        BY <1>6, <2>1, Zenon
<1>8. Announced(q) = SumOver(S, w)
    <2> HIDE DEF S, w, Folds_
    <2>1. QED
        BY <1>1, <1>4, <1>5, <1>7, Zenon
<1>9. QED
    BY <1>8, Zenon

LEMMA PacketsWeigh ==
    ASSUME NEW q \in Seq(LogPackets)
    PROVE  /\ Len(q) \in Nat
           /\ \A i \in 1..Len(q) : /\ q[i] \in LogPackets
                                   /\ Weights(q)[i] = q[i].dropped
                                   /\ Weights(q)[i] \in Nat
<1>1. Len(q) \in Nat /\ \A i \in 1..Len(q) : q[i] \in LogPackets
    OBVIOUS
<1>2. \A p \in LogPackets : p.dropped \in Nat
    BY DEF LogPackets
<1>3. \A i \in 1..Len(q) : Weights(q)[i] = q[i].dropped
    BY DEF Weights
<1>4. QED
    BY <1>1, <1>2, <1>3

(* What a packet adds to the announcements under way, and takes from them. *)
LEMMA AnnouncedAppend ==
    ASSUME NEW q \in Seq(LogPackets), NEW p \in LogPackets
    PROVE  /\ Announced(q) \in Nat
           /\ Announced(Append(q, p)) = Announced(q) + p.dropped
<1> PICK n : n = Len(q)
    OBVIOUS
<1>t. Append(q, p) \in Seq(LogPackets)
    OBVIOUS
<1> PICK r \in Seq(LogPackets) : r = Append(q, p)
    BY <1>t
<1>1. /\ n \in Nat
      /\ Len(r) = n + 1
      /\ \A i \in 1..n : r[i] = q[i]
      /\ r[n + 1] = p
    OBVIOUS
<1>2. /\ \A i \in 1..(n + 1) : /\ Weights(r)[i] \in Nat
                               /\ Weights(r)[i] = r[i].dropped
      /\ \A i \in 1..n : Weights(q)[i] = q[i].dropped
    BY <1>1, PacketsWeigh
<1>3. /\ SumOver(1..(n + 1), Weights(r))
           = Weights(r)[n + 1] + SumOver(1..n, Weights(r))
      /\ SumOver(1..n, Weights(r)) \in Nat
    BY <1>1, <1>2, SumNext
<1>4. Weights(r)[n + 1] = p.dropped /\ Weights(r)[n + 1] \in Nat
    BY <1>1, <1>2
<1>5. SumOver(1..n, Weights(r)) = SumOver(1..n, Weights(q))
    <2>1. \A i \in 1..n : Weights(r)[i] = Weights(q)[i]
        BY <1>1, <1>2
    <2>2. IsFiniteSet(1..n)
        BY <1>1, FS_Interval
    <2>3. QED
        BY <2>1, <2>2, SumSame
<1>6. /\ Announced(q) = SumOver(1..n, Weights(q))
      /\ Announced(r) = SumOver(1..(n + 1), Weights(r))
    BY <1>1, AnnouncedIsSum
<1>7. QED
    BY <1>3, <1>4, <1>5, <1>6

LEMMA AnnouncedTail ==
    ASSUME NEW q \in Seq(LogPackets), q # <<>>
    PROVE  /\ Announced(Tail(q)) \in Nat
           /\ Head(q).dropped \in Nat
           /\ Announced(q) = Announced(Tail(q)) + Head(q).dropped
<1>t. Tail(q) \in Seq(LogPackets)
    OBVIOUS
<1> PICK r \in Seq(LogPackets) : r = Tail(q)
    BY <1>t
<1> PICK n : n = Len(r)
    OBVIOUS
<1>1. /\ n \in Nat
      /\ Len(q) = n + 1
      /\ \A i \in 1..n : r[i] = q[i + 1]
      /\ Head(q) = q[1]
    OBVIOUS
<1>2. /\ \A i \in 1..(n + 1) : /\ Weights(q)[i] \in Nat
                               /\ Weights(q)[i] = q[i].dropped
      /\ \A i \in 1..n : Weights(r)[i] = r[i].dropped
    BY <1>1, PacketsWeigh
<1>3. \A i \in 1..n : Weights(r)[i] = Weights(q)[i + 1]
    BY <1>1, <1>2
<1>4. SumOver(1..(n + 1), Weights(q))
        = Weights(q)[1] + SumOver(1..n, Weights(r))
    BY <1>1, <1>2, <1>3, SumShift
<1>5. Weights(q)[1] = Head(q).dropped /\ Weights(q)[1] \in Nat
    BY <1>1, <1>2
<1>6. /\ Announced(q) = SumOver(1..(n + 1), Weights(q))
      /\ Announced(r) = SumOver(1..n, Weights(r))
    BY <1>1, AnnouncedIsSum
<1>7. Announced(r) \in Nat
    <2>1. [sequence |-> 0, dropped |-> 0] \in LogPackets
        BY DEF LogPackets
    <2>2. QED
        BY <2>1, AnnouncedAppend
<1>8. QED
    BY <1>4, <1>5, <1>6, <1>7

-----------------------------------------------------------------------------
(* The numbers of the records, or of the packets, in a sequence.           *)
Numbers(s) == {s[i].sequence : i \in DOMAIN s}

LEMMA NumbersAppend ==
    ASSUME NEW R, NEW s \in Seq(R), NEW r \in R
    PROVE  Numbers(Append(s, r)) = Numbers(s) \cup {r.sequence}
<1> PICK t : t = Append(s, r)
    OBVIOUS
<1> PICK n : n = Len(s)
    OBVIOUS
<1>1. /\ n \in Nat
      /\ DOMAIN s = 1..n /\ DOMAIN t = 1..(n + 1)
      /\ \A i \in 1..n : t[i] = s[i]
      /\ t[n + 1] = r
    OBVIOUS
<1>2. Numbers(s) \subseteq Numbers(t)
    BY <1>1 DEF Numbers
<1>3. r.sequence \in Numbers(t)
    BY <1>1 DEF Numbers
<1>4. Numbers(t) \subseteq Numbers(s) \cup {r.sequence}
    <2> SUFFICES ASSUME NEW i \in 1..(n + 1)
                 PROVE  t[i].sequence \in Numbers(s) \cup {r.sequence}
        BY <1>1 DEF Numbers
    <2>1. CASE i = n + 1
        BY <1>1, <2>1
    <2>2. CASE i \in 1..n
        BY <1>1, <2>2 DEF Numbers
    <2>3. QED
        BY <1>1, <2>1, <2>2
<1>5. QED
    BY <1>2, <1>3, <1>4

LEMMA NumbersTail ==
    ASSUME NEW R, NEW s \in Seq(R), s # <<>>
    PROVE  /\ Head(s) \in R /\ Tail(s) \in Seq(R)
           /\ Numbers(s) = Numbers(Tail(s)) \cup {Head(s).sequence}
<1>t. Head(s) \in R /\ Tail(s) \in Seq(R)
    OBVIOUS
<1> PICK t : t = Tail(s)
    OBVIOUS
<1> PICK n : n = Len(t)
    OBVIOUS
<1>1. /\ n \in Nat
      /\ DOMAIN s = 1..(n + 1) /\ DOMAIN t = 1..n
      /\ \A i \in 1..n : t[i] = s[i + 1]
      /\ Head(s) = s[1]
    OBVIOUS
<1>2. Numbers(t) \subseteq Numbers(s)
    BY <1>1 DEF Numbers
<1>3. Head(s).sequence \in Numbers(s)
    BY <1>1 DEF Numbers
<1>4. Numbers(s) \subseteq Numbers(t) \cup {Head(s).sequence}
    <2> SUFFICES ASSUME NEW i \in 1..(n + 1)
                 PROVE  s[i].sequence \in Numbers(t) \cup {Head(s).sequence}
        BY <1>1 DEF Numbers
    <2>1. CASE i = 1
        BY <1>1, <2>1
    <2>2. CASE i # 1
        <3>1. i - 1 \in 1..n /\ t[i - 1] = s[i]
            BY <1>1, <2>2
        <3>2. QED
            BY <1>1, <3>1 DEF Numbers
    <2>3. QED
        BY <2>1, <2>2
<1>5. QED
    BY <1>t, <1>2, <1>3, <1>4

LEMMA Concatenated ==
    ASSUME NEW R, NEW a \in Seq(R), NEW b \in Seq(R), NEW t, t = a \o b
    PROVE  /\ t \in Seq(R) /\ Len(t) = Len(a) + Len(b)
           /\ \A i \in 1..Len(a) : t[i] = a[i]
           /\ \A i \in 1..Len(b) : t[Len(a) + i] = b[i]
<1>1. t \in Seq(R) /\ Len(t) = Len(a) + Len(b)
    OBVIOUS
<1>2. ASSUME NEW i \in 1..Len(a) PROVE t[i] = a[i]
    OBVIOUS
<1>3. ASSUME NEW i \in 1..Len(b) PROVE t[Len(a) + i] = b[i]
    <2>1. Len(a) + i > Len(a) /\ Len(a) + i \in 1..(Len(a) + Len(b))
        OBVIOUS
    <2>2. Len(a) + i - Len(a) = i
        OBVIOUS
    <2>3. QED
        BY <2>1, <2>2
<1>4. QED
    BY <1>1, <1>2, <1>3

(* A sequence without its k-th entry.                                      *)
LEMMA RemovedAt ==
    ASSUME NEW R, NEW s \in Seq(R), NEW k \in 1..Len(s), NEW n, n = Len(s)
    PROVE  /\ RemoveAt(s, k) \in Seq(R)
           /\ DOMAIN RemoveAt(s, k) = 1..(n - 1)
           /\ \A i \in 1..(k - 1) : RemoveAt(s, k)[i] = s[i]
           /\ \A i \in k..(n - 1) : RemoveAt(s, k)[i] = s[i + 1]
<1>1. n \in Nat /\ k \in Nat /\ 1 <= k /\ k <= n /\ DOMAIN s = 1..n
    OBVIOUS
<1>a. PICK a : a = SubSeq(s, 1, k - 1)
    OBVIOUS
<1>b. PICK b : b = SubSeq(s, k + 1, n)
    OBVIOUS
<1>2. /\ a \in Seq(R) /\ Len(a) = k - 1
      /\ \A i \in 1..(k - 1) : a[i] = s[i]
    BY <1>1, <1>a
<1>3. /\ b \in Seq(R) /\ Len(b) = n - k
      /\ \A i \in 1..(n - k) : b[i] = s[k + i]
    BY <1>1, <1>b
<1>t. PICK t : t = a \o b
    OBVIOUS
<1>4. /\ t \in Seq(R) /\ Len(t) = n - 1 /\ DOMAIN t = 1..(n - 1)
      /\ \A i \in 1..(k - 1) : t[i] = s[i]
      /\ \A i \in k..(n - 1) : t[i] = s[i + 1]
    <2>0. /\ t \in Seq(R) /\ Len(t) = Len(a) + Len(b)
          /\ \A i \in 1..Len(a) : t[i] = a[i]
          /\ \A i \in 1..Len(b) : t[Len(a) + i] = b[i]
        <3>1. a \in Seq(R) /\ b \in Seq(R)
            BY <1>2, <1>3
        <3>2. QED
            BY <1>t, <3>1, Concatenated
    <2>1. t \in Seq(R) /\ DOMAIN t = 1..Len(t)
        BY <2>0
    <2>2. /\ \A i \in 1..Len(a) : t[i] = a[i]
          /\ \A i \in 1..Len(b) : t[Len(a) + i] = b[i]
        BY <2>0
    <2>3. Len(t) = n - 1
        <3>1. (k - 1) + (n - k) = n - 1
            BY <1>1
        <3>2. Len(t) = (k - 1) + (n - k)
            BY <1>2, <1>3, <2>0, Zenon
        <3>3. QED
            BY <3>1, <3>2, Zenon
    <2>4. ASSUME NEW i \in 1..(k - 1) PROVE t[i] = s[i]
        BY <1>1, <1>2, <2>2
    <2>5. ASSUME NEW i \in k..(n - 1) PROVE t[i] = s[i + 1]
        <3>1. PICK j \in 1..(n - k) : i = (k - 1) + j
            <4>1. i - (k - 1) \in 1..(n - k) /\ i = (k - 1) + (i - (k - 1))
                BY <1>1
            <4>2. QED
                BY <4>1
        <3>2. t[(k - 1) + j] = b[j] /\ b[j] = s[k + j]
            BY <1>2, <1>3, <2>2
        <3>3. k + j = i + 1
            BY <1>1, <3>1
        <3>4. QED
            BY <3>1, <3>2, <3>3
    <2>6. QED
        BY <2>1, <2>3, <2>4, <2>5
<1>5. t = RemoveAt(s, k)
    BY <1>a, <1>b, <1>t, Zenon DEF RemoveAt
<1>6. QED
    BY <1>4, <1>5

LEMMA NumbersRemove ==
    ASSUME NEW R, NEW s \in Seq(R), NEW k \in 1..Len(s)
    PROVE  /\ RemoveAt(s, k) \in Seq(R)
           /\ Numbers(s) \subseteq Numbers(RemoveAt(s, k)) \cup {s[k].sequence}
<1> PICK n : n = Len(s)
    OBVIOUS
<1>1. n \in Nat /\ k \in Nat /\ 1 <= k /\ k <= n /\ DOMAIN s = 1..n
    OBVIOUS
<1>2. PICK t : t = RemoveAt(s, k)
    OBVIOUS
<1>4. /\ t \in Seq(R) /\ DOMAIN t = 1..(n - 1)
      /\ \A i \in 1..(k - 1) : t[i] = s[i]
      /\ \A i \in k..(n - 1) : t[i] = s[i + 1]
    BY <1>2, RemovedAt
<1>5. Numbers(s) \subseteq Numbers(t) \cup {s[k].sequence}
    <2> SUFFICES ASSUME NEW i \in 1..n
                 PROVE  s[i].sequence \in Numbers(t) \cup {s[k].sequence}
        BY <1>1 DEF Numbers
    <2>1. CASE i = k
        BY <2>1
    <2>2. CASE i < k
        <3>1. i \in 1..(k - 1) /\ i \in 1..(n - 1)
            BY <1>1, <2>2
        <3>2. t[i] = s[i]
            BY <1>4, <3>1
        <3>3. QED
            BY <1>4, <3>1, <3>2 DEF Numbers
    <2>3. CASE i > k
        <3>0. PICK j \in k..(n - 1) : j + 1 = i
            <4>1. i - 1 \in k..(n - 1) /\ (i - 1) + 1 = i
                BY <1>1, <2>3
            <4>2. QED
                BY <4>1
        <3>a. t[j] = s[j + 1]
            BY <1>4, Zenon
        <3>b. j \in 1..(n - 1)
            BY <1>1
        <3>1. j \in 1..(n - 1) /\ t[j] = s[i]
            BY <3>0, <3>a, <3>b, Zenon
        <3>2. QED
            BY <1>4, <3>1 DEF Numbers
    <2>4. QED
        BY <1>1, <2>1, <2>2, <2>3
<1>6. QED
    BY <1>2, <1>4, <1>5

(* What log() evicts at the limit is a record of the queue.                *)
LEMMA LowestIsThere ==
    ASSUME LogTypes, Len(queue) > 0
    PROVE  Lowest \in 1..Len(queue)
<1> PICK n : n = Len(queue)
    OBVIOUS
<1> PICK lvl : lvl = [i \in 1..n |-> queue[i].level]
    OBVIOUS
<1>1. /\ n \in Nat /\ n > 0 /\ DOMAIN queue = 1..n
      /\ \A i \in 1..n : lvl[i] \in Nat /\ lvl[i] = queue[i].level
    <2>1. /\ n \in Nat /\ n > 0 /\ DOMAIN queue = 1..n
          /\ \A i \in 1..n : queue[i] \in LogRecords
        BY DEF LogTypes
    <2>2. \A r \in LogRecords : r.level \in Nat
        BY DEF LogRecords
    <2>3. QED
        BY <2>1, <2>2
<1> PICK L : L = {lvl[i] : i \in 1..n}
    OBVIOUS
<1>2. PICK l \in L : \A m \in L : l <= m
    <2>1. L \subseteq Nat
        BY <1>1
    <2>2. lvl[1] \in L
        BY <1>1
    <2>3. QED
        BY <2>1, <2>2, LeastMember
<1>3. PICK k \in {i \in 1..n : lvl[i] = l} :
         \A m \in {i \in 1..n : lvl[i] = l} : k <= m
    <2>1. {i \in 1..n : lvl[i] = l} \subseteq Nat
        BY <1>1
    <2>2. {i \in 1..n : lvl[i] = l} # {}
        BY <1>2
    <2>3. QED
        BY <2>1, <2>2, LeastMember
<1>4. \A j \in DOMAIN queue : \/ queue[j].level > queue[k].level
                              \/ queue[j].level = queue[k].level /\ k <= j
    <2> SUFFICES ASSUME NEW j \in 1..n
                 PROVE  \/ lvl[j] > lvl[k]
                        \/ lvl[j] = lvl[k] /\ k <= j
        BY <1>1, <1>3
    <2>1. lvl[k] = l /\ l <= lvl[j] /\ lvl[j] \in Nat /\ l \in Nat
        BY <1>1, <1>2, <1>3
    <2>2. lvl[j] = l => k <= j
        BY <1>3
    <2>3. QED
        BY <2>1, <2>2
<1>5. k \in DOMAIN queue
    BY <1>1, <1>3
<1>6. Lowest \in DOMAIN queue
    BY <1>4, <1>5, Zenon DEF Lowest
<1>7. QED
    BY <1>1, <1>6

(* An emitted number stays emitted.                                        *)
LEMMA EmittedAppend ==
    ASSUME NEW s \in Seq(Nat), NEW n \in Nat
    PROVE  /\ Append(s, n) \in Seq(Nat)
           /\ ToSet(Append(s, n)) = ToSet(s) \cup {n}
<1> PICK t : t = Append(s, n)
    OBVIOUS
<1> PICK k : k = Len(s)
    OBVIOUS
<1>1. /\ k \in Nat
      /\ DOMAIN s = 1..k /\ DOMAIN t = 1..(k + 1)
      /\ \A i \in 1..k : t[i] = s[i]
      /\ t[k + 1] = n
      /\ t \in Seq(Nat)
    OBVIOUS
<1>2. ToSet(s) \subseteq ToSet(t) /\ n \in ToSet(t)
    BY <1>1 DEF ToSet
<1>3. ToSet(t) \subseteq ToSet(s) \cup {n}
    <2> SUFFICES ASSUME NEW i \in 1..(k + 1)
                 PROVE  t[i] \in ToSet(s) \cup {n}
        BY <1>1 DEF ToSet
    <2>1. CASE i = k + 1
        BY <1>1, <2>1
    <2>2. CASE i \in 1..k
        BY <1>1, <2>2 DEF ToSet
    <2>3. QED
        BY <1>1, <2>1, <2>2
<1>4. QED
    BY <1>1, <1>2, <1>3

(* A record is missing when it is in none of its places.                   *)
LEMMA MissingIsUnplaced ==
    /\ Missing = (1..sequence)
         \ (Numbers(queue) \cup ({hand.record.sequence} \ {0})
              \cup (Numbers(packets) \ {0}) \cup ToSet(emitted))
    /\ Missing' = (1..sequence')
         \ (Numbers(queue') \cup ({hand'.record.sequence} \ {0})
              \cup (Numbers(packets') \ {0}) \cup ToSet(emitted'))
BY Zenon DEF Missing, InQueue, InHand, InSocket, Numbers, ToSet

LEMMA MissingIsFinite ==
    ASSUME LogTypes
    PROVE  IsFiniteSet(Missing) /\ Cardinality(Missing) \in Nat
<1>1. sequence \in Nat
    BY DEF LogTypes
<1>2. IsFiniteSet(1..sequence)
    BY <1>1, FS_Interval
<1>3. Missing \subseteq 1..sequence
    BY DEF Missing
<1>4. QED
    BY <1>2, <1>3, FS_Subset, FS_CardinalityType

(* A step that misplaces at most one record and counts one, or misplaces   *)
(* none and keeps the count, keeps the accounts ...                        *)
LEMMA OneIsCounted ==
    ASSUME LogTypes, LossesCounted, UNCHANGED <<sink, refused>>, NEW x,
           Missing' \subseteq Missing \cup {x},
           sink # "inprocess_file" => /\ Counted \in Nat
                                      /\ Counted' \in Nat
                                      /\ Counted' >= Counted + 1
    PROVE  LossesCounted'
<1> SUFFICES ASSUME sink # "inprocess_file"
             PROVE  Cardinality(Missing') <= Counted' + refused
    BY DEF LossesCounted
<1>1. Cardinality(Missing) <= Counted + refused
    BY DEF LossesCounted
<1>2. IsFiniteSet(Missing) /\ refused \in Nat
    BY MissingIsFinite DEF LogTypes
<1>3. PICK old, new : old = Missing /\ new = Missing'
    OBVIOUS
<1>4. /\ Cardinality(old) \in Nat /\ Cardinality(new) \in Nat
      /\ Cardinality(new) <= Cardinality(old) + 1
    BY <1>2, <1>3, AtMostOneMore
<1>5. QED
    BY <1>1, <1>2, <1>3, <1>4

LEMMA NoneIsLost ==
    ASSUME LogTypes, LossesCounted, UNCHANGED <<sink, refused>>,
           Missing' \subseteq Missing,
           sink # "inprocess_file" => /\ Counted \in Nat
                                      /\ Counted' \in Nat
                                      /\ Counted' >= Counted
    PROVE  LossesCounted'
<1> SUFFICES ASSUME sink # "inprocess_file"
             PROVE  Cardinality(Missing') <= Counted' + refused
    BY DEF LossesCounted
<1>1. Cardinality(Missing) <= Counted + refused
    BY DEF LossesCounted
<1>2. IsFiniteSet(Missing) /\ refused \in Nat
    BY MissingIsFinite DEF LogTypes
<1>3. PICK old, new : old = Missing /\ new = Missing'
    OBVIOUS
<1>4. /\ Cardinality(old) \in Nat /\ Cardinality(new) \in Nat
      /\ Cardinality(new) <= Cardinality(old)
    BY <1>2, <1>3, FS_Subset, FS_CardinalityType
<1>5. QED
    BY <1>1, <1>2, <1>3, <1>4

(* ... and so does one that moves the counts of a packet, and the packet   *)
(* itself if it is a record, to what was refused.                          *)
LEMMA RefusalKeeps ==
    ASSUME LogTypes, LossesCounted, UNCHANGED sink, NEW p \in LogPackets,
           refused' = refused + p.dropped + IF p.sequence = 0 THEN 0 ELSE 1,
           Missing' \subseteq Missing \cup ({p.sequence} \ {0}),
           Counted \in Nat, Counted' \in Nat, Counted = Counted' + p.dropped
    PROVE  LossesCounted'
<1> SUFFICES ASSUME sink # "inprocess_file"
             PROVE  Cardinality(Missing') <= Counted' + refused'
    BY DEF LossesCounted
<1>1. Cardinality(Missing) <= Counted + refused
    BY DEF LossesCounted
<1>2. /\ IsFiniteSet(Missing) /\ refused \in Nat
      /\ p.dropped \in Nat /\ p.sequence \in Nat
    BY MissingIsFinite DEF LogTypes, LogPackets
<1>3. PICK old, new : old = Missing /\ new = Missing'
    OBVIOUS
<1>4. PICK d \in Nat, c \in Nat :
         d = p.dropped /\ c = Counted' /\ Counted = c + d
    BY <1>2
<1>5. CASE p.sequence = 0
    <2>1. /\ Cardinality(old) \in Nat /\ Cardinality(new) \in Nat
          /\ Cardinality(new) <= Cardinality(old)
        BY <1>2, <1>3, <1>5, FS_Subset, FS_CardinalityType
    <2>2. refused' = refused + d
        BY <1>2, <1>4, <1>5
    <2>3. QED
        BY <1>1, <1>2, <1>3, <1>4, <2>1, <2>2
<1>6. CASE p.sequence # 0
    <2>1. new \subseteq old \cup {p.sequence}
        BY <1>3, <1>6
    <2>2. /\ Cardinality(old) \in Nat /\ Cardinality(new) \in Nat
          /\ Cardinality(new) <= Cardinality(old) + 1
        BY <1>2, <1>3, <2>1, AtMostOneMore
    <2>3. refused' = refused + d + 1
        BY <1>4, <1>6
    <2>4. QED
        BY <1>1, <1>2, <1>3, <1>4, <2>2, <2>3
<1>7. QED
    BY <1>5, <1>6

-----------------------------------------------------------------------------
(* What the types say of the parts of the account.                         *)
LEMMA LogParts ==
    ASSUME LogTypes
    PROVE  /\ hand.dropped \in Nat /\ hand.record \in LogRecords
           /\ hand.record.sequence \in Nat
           /\ Announced(packets) \in Nat
           /\ Counted \in Nat
<1>1. hand.dropped \in Nat /\ hand.record \in LogRecords
    BY DEF LogTypes
<1>2. hand.record.sequence \in Nat
    BY <1>1 DEF LogRecords
<1>3. Announced(packets) \in Nat
    <2>1. [sequence |-> 0, dropped |-> 0] \in LogPackets
        BY DEF LogPackets
    <2>2. packets \in Seq(LogPackets)
        BY DEF LogTypes
    <2>3. QED
        BY <2>1, <2>2, AnnouncedAppend
<1>4. Counted \in Nat
    BY <1>1, <1>3 DEF LogTypes, Counted
<1>5. QED
    BY <1>1, <1>2, <1>3, <1>4

LEMMA OneMoreCounted ==
    ASSUME LogTypes, UNCHANGED <<hand, sender, packets, reported>>,
           dropped' \in Nat, boundDropped' \in Nat,
           dropped' + boundDropped' = dropped + boundDropped + 1
    PROVE  Counted \in Nat /\ Counted' = Counted + 1
<1>1. Counted \in Nat /\ Announced(packets) \in Nat /\ hand.dropped \in Nat
    BY LogParts
<1>2. PICK r \in Nat : r = IF sender = "reporting" THEN hand.dropped ELSE 0
    BY <1>1
<1>3. /\ Counted = dropped + boundDropped + reported + Announced(packets) + r
      /\ Counted' = dropped' + boundDropped' + reported + Announced(packets) + r
    BY <1>2 DEF Counted
<1>4. dropped \in Nat /\ boundDropped \in Nat /\ reported \in Nat
    BY DEF LogTypes
<1>5. PICK a \in Nat : a = Announced(packets)
    BY <1>1, Zenon
<1>6. PICK e \in Nat : e = dropped'
    BY Zenon
<1>7. PICK c \in Nat : c = boundDropped'
    BY Zenon
<1>8. PICK d \in Nat : d = dropped
    BY <1>4, Zenon
<1>9. PICK b \in Nat : b = boundDropped
    BY <1>4, Zenon
<1>10. PICK p \in Nat : p = reported
    BY <1>4, Zenon
<1>11. e + c = d + b + 1
    BY <1>6, <1>7, <1>8, <1>9, Zenon
<1>12. e + c + p + a + r = (d + b + p + a + r) + 1
    BY <1>11
<1>13. Counted = d + b + p + a + r /\ Counted' = e + c + p + a + r
    BY <1>3, <1>5, <1>6, <1>7, <1>8, <1>9, <1>10, Zenon
<1>14. QED
    BY <1>1, <1>12, <1>13, Zenon

LEMMA NoRecordTyped ==
    /\ NoRecord \in [record : LogRecords, dropped : Nat]
    /\ NoRecord.record.sequence = 0 /\ NoRecord.dropped = 0
BY DEF NoRecord, LogRecords

(* log(): the record is queued, or one record goes and is counted.         *)
LEMMA LogKeeps ==
    ASSUME LogTypes, LossesCounted,
           NEW level \in LogLevels, NEW derived \in BOOLEAN, Log(level, derived)
    PROVE  LogTypes' /\ LossesCounted'
<1>1. PICK record : record = [sequence |-> sequence + 1, level |-> level]
    OBVIOUS
<1>2. record \in LogRecords /\ record.sequence = sequence + 1
    BY <1>1, LogAssumption DEF LogTypes, LogRecords
<1>3. /\ UNCHANGED <<sink, sender, hand, packets, emitted, reported, refused>>
      /\ sequence' = sequence + 1
    BY DEF Log
<1>4. queue \in Seq(LogRecords) /\ sequence \in Nat
    BY DEF LogTypes
<1>5. ASSUME queue' \in Seq(LogRecords), dropped' \in Nat, boundDropped' \in Nat
      PROVE  LogTypes'
    <2>1. UNCHANGED bound /\ (~bound => boundDropped' = boundDropped)
        BY DEF Log, LogTypes
    <2>2. QED
        BY <1>3, <1>5, <2>1 DEF LogTypes
<1>6. \A y : y \in 1..(sequence + 1) => y \in 1..sequence \/ y = record.sequence
    BY <1>2, <1>4
<1>7. CASE Len(queue) < QueueCapacity
    <2>1. queue' = Append(queue, record) /\ UNCHANGED <<dropped, boundDropped>>
        BY <1>1, <1>7 DEF Log
    <2>2. queue' \in Seq(LogRecords)
        BY <1>2, <1>4, <2>1
    <2>3. LogTypes'
        BY <1>5, <2>1, <2>2 DEF LogTypes
    <2>4. Numbers(queue') = Numbers(queue) \cup {record.sequence}
        BY <1>2, <1>4, <2>1, NumbersAppend
    <2>5. Missing' \subseteq Missing
        BY <1>3, <1>6, <2>4, MissingIsUnplaced
    <2>6. Counted' = Counted
        BY <1>3, <2>1 DEF Counted
    <2>7. Counted \in Nat
        BY LogParts
    <2>8. QED
        BY <1>3, <2>3, <2>5, <2>6, <2>7, NoneIsLost
<1>8. CASE ~(Len(queue) < QueueCapacity)
    <2>1. /\ queue' = IF queue[Lowest].level <= level
                      THEN Evicted(record) ELSE queue
          /\ dropped' = dropped + IF derived THEN 0 ELSE 1
          /\ boundDropped' = boundDropped + IF derived THEN 1 ELSE 0
        BY <1>1, <1>8 DEF Log
    <2>2. Len(queue) > 0
        BY <1>4, <1>8, LogAssumption
    <2>3. PICK k \in 1..Len(queue) : k = Lowest
        BY <2>2, LowestIsThere
    <2>4. \E x : /\ queue' \in Seq(LogRecords)
                 /\ Numbers(queue) \cup {record.sequence}
                      \subseteq Numbers(queue') \cup {x}
        <3>1. CASE queue' = Evicted(record)
            <4>1. PICK rest : rest = RemoveAt(queue, k)
                OBVIOUS
            <4>2. /\ rest \in Seq(LogRecords)
                  /\ Numbers(queue) \subseteq Numbers(rest) \cup {queue[k].sequence}
                BY <1>4, <2>3, <4>1, NumbersRemove
            <4>3. queue' = Append(rest, record)
                BY <2>3, <3>1, <4>1 DEF Evicted
            <4>4. Numbers(queue') = Numbers(rest) \cup {record.sequence}
                BY <1>2, <4>2, <4>3, NumbersAppend
            <4>5. queue' \in Seq(LogRecords)
                BY <1>2, <4>2, <4>3
            <4>6. Numbers(queue) \cup {record.sequence}
                    \subseteq Numbers(queue') \cup {queue[k].sequence}
                BY <4>2, <4>4
            <4>7. QED
                BY <4>5, <4>6
        <3>2. CASE queue' = queue
            BY <1>4, <3>2
        <3>3. QED
            BY <2>1, <3>1, <3>2, Zenon
    <2>5. PICK x : /\ queue' \in Seq(LogRecords)
                   /\ Numbers(queue) \cup {record.sequence}
                        \subseteq Numbers(queue') \cup {x}
        BY <2>4
    <2>6. /\ dropped' \in Nat /\ boundDropped' \in Nat
          /\ dropped' + boundDropped' = dropped + boundDropped + 1
        <3>1. dropped \in Nat /\ boundDropped \in Nat
            BY DEF LogTypes
        <3>2. CASE derived
            BY <2>1, <3>1, <3>2
        <3>3. CASE ~derived
            BY <2>1, <3>1, <3>3
        <3>4. QED
            BY <3>2, <3>3
    <2>7. LogTypes'
        BY <1>5, <2>5, <2>6
    <2>8. Missing' \subseteq Missing \cup {x}
        BY <1>3, <1>6, <2>5, MissingIsUnplaced
    <2>9. Counted \in Nat /\ Counted' = Counted + 1
        BY <1>3, <2>6, OneMoreCounted
    <2>10. QED
        BY <1>3, <2>7, <2>8, <2>9, OneIsCounted
<1>9. QED
    BY <1>7, <1>8

(* Take: the losses go with the record, into the hand of the sender.       *)
LEMMA TakeKeeps ==
    ASSUME LogTypes, LossesCounted, Take
    PROVE  LogTypes' /\ LossesCounted'
<1>1. /\ sender = "waiting" /\ queue # <<>>
      /\ hand' = [record |-> Head(queue), dropped |-> dropped]
      /\ queue' = Tail(queue) /\ dropped' = 0
      /\ sender' = IF dropped > 0 THEN "reporting" ELSE "sending"
      /\ UNCHANGED <<bound, boundDropped, sink, sequence, packets, emitted,
                     reported, refused>>
    BY DEF Take, boundVars
<1>2. /\ Head(queue) \in LogRecords /\ queue' \in Seq(LogRecords)
      /\ Numbers(queue) = Numbers(queue') \cup {Head(queue).sequence}
    BY <1>1, NumbersTail DEF LogTypes
<1>3. /\ hand' \in [record : LogRecords, dropped : Nat]
      /\ hand'.record.sequence = Head(queue).sequence
      /\ hand'.dropped = dropped
    BY <1>1, <1>2 DEF LogTypes
<1>4. hand.record.sequence = 0
    BY <1>1, NoRecordTyped DEF LogTypes
<1>5. LogTypes'
    <2>1. sender' \in {"reporting", "sending"}
        BY <1>1
    <2>2. QED
        BY <1>1, <1>2, <1>3, <2>1 DEF LogTypes
<1>6. Missing' \subseteq Missing
    <2>1. 0 \notin 1..sequence
        OBVIOUS
    <2>2. QED
        BY <1>1, <1>2, <1>3, <1>4, <2>1, MissingIsUnplaced
<1>7. Counted \in Nat /\ Counted' = Counted
    <2>1. Counted \in Nat /\ Announced(packets) \in Nat /\ dropped \in Nat
        BY LogParts DEF LogTypes
    <2>2. CASE dropped > 0
        <3>1. sender' = "reporting"
            BY <1>1, <2>2
        <3>2. QED
            BY <1>1, <1>3, <2>1, <3>1 DEF Counted, LogTypes
    <2>3. CASE dropped = 0
        <3>1. sender' = "sending"
            BY <1>1, <2>3
        <3>2. QED
            BY <1>1, <1>3, <2>1, <2>3, <3>1 DEF Counted, LogTypes
    <2>4. QED
        BY <2>1, <2>2, <2>3
<1>8. QED
    BY <1>1, <1>5, <1>6, <1>7, NoneIsLost

(* The reader throws a packet away.                                        *)
Thrown(p) == Refused(p) /\ UNCHANGED packets

(* _deliver: a packet reaches the socket, or its record and its losses     *)
(* reach the other sinks.                                                  *)
LEMMA DeliveredKeeps ==
    ASSUME LogTypes, NEW p \in LogPackets, Delivered(p), ~Thrown(p)
    PROVE  /\ packets' \in Seq(LogPackets) /\ emitted' \in Seq(Nat)
           /\ reported' \in Nat /\ refused' = refused
           /\ reported' + Announced(packets')
                = (reported + Announced(packets)) + p.dropped
           /\ (Numbers(packets) \ {0}) \cup ToSet(emitted)
                \cup ({p.sequence} \ {0})
                \subseteq (Numbers(packets') \ {0}) \cup ToSet(emitted')
<1>1. /\ packets \in Seq(LogPackets) /\ emitted \in Seq(Nat) /\ reported \in Nat
      /\ Announced(packets) \in Nat
    BY LogParts DEF LogTypes
<1>2. p.sequence \in Nat /\ p.dropped \in Nat
    BY DEF LogPackets
<1>3. CASE sink = "socket"
    <2>1. /\ packets' = Append(packets, p)
          /\ UNCHANGED <<emitted, reported, refused>>
        BY <1>3 DEF Delivered, Thrown
    <2>2. Announced(packets') = Announced(packets) + p.dropped
        BY <1>1, <2>1, AnnouncedAppend
    <2>3. Numbers(packets') = Numbers(packets) \cup {p.sequence}
        BY <1>1, <2>1, NumbersAppend
    <2>4. packets' \in Seq(LogPackets)
        BY <1>1, <2>1
    <2>5. reported' + Announced(packets')
            = (reported + Announced(packets)) + p.dropped
        <3>1. PICK a \in Nat : a = Announced(packets)
            BY <1>1, Zenon
        <3>2. PICK d \in Nat : d = p.dropped
            BY <1>2, Zenon
        <3>3. reported + (a + d) = (reported + a) + d
            BY <1>1
        <3>4. QED
            BY <2>1, <2>2, <3>1, <3>2, <3>3, Zenon
    <2>6. QED
        BY <1>1, <2>1, <2>3, <2>4, <2>5, Zenon
<1>4. CASE sink # "socket"
    <2>1. /\ emitted' = IF p.sequence = 0 THEN emitted
                        ELSE Append(emitted, p.sequence)
          /\ reported' = reported + p.dropped
          /\ UNCHANGED <<packets, refused>>
        BY <1>4 DEF Delivered, Emitted, Thrown
    <2>2. /\ emitted' \in Seq(Nat)
          /\ ToSet(emitted) \cup ({p.sequence} \ {0}) \subseteq ToSet(emitted')
        <3>1. CASE p.sequence = 0
            BY <1>1, <2>1, <3>1
        <3>2. CASE p.sequence # 0
            <4>1. emitted' = Append(emitted, p.sequence)
                BY <2>1, <3>2
            <4>2. QED
                BY <1>1, <1>2, <4>1, EmittedAppend
        <3>3. QED
            BY <3>1, <3>2
    <2>3. reported' \in Nat
        BY <1>1, <1>2, <2>1
    <2>4. reported' + Announced(packets')
            = (reported + Announced(packets)) + p.dropped
        <3>1. PICK a \in Nat : a = Announced(packets)
            BY <1>1, Zenon
        <3>2. PICK d \in Nat : d = p.dropped
            BY <1>2, Zenon
        <3>3. (reported + d) + a = (reported + a) + d
            BY <1>1
        <3>4. QED
            BY <2>1, <3>1, <3>2, <3>3, Zenon
    <2>5. QED
        BY <1>1, <2>1, <2>2, <2>3, <2>4, Zenon
<1>5. QED
    BY <1>3, <1>4

LEMMA AnnouncedNatural ==
    ASSUME NEW q \in Seq(LogPackets) PROVE Announced(q) \in Nat
<1>1. [sequence |-> 0, dropped |-> 0] \in LogPackets
    BY DEF LogPackets
<1>2. QED
    BY <1>1, AnnouncedAppend

(* The account as the sum of its parts.                                    *)
LEMMA CountedBySender ==
    /\ sender = "reporting" =>
         Counted = dropped + boundDropped + reported + Announced(packets)
                     + hand.dropped
    /\ sender # "reporting" =>
         Counted = dropped + boundDropped + reported + Announced(packets) + 0
    /\ sender' = "reporting" =>
         Counted' = dropped' + boundDropped' + reported' + Announced(packets')
                      + hand'.dropped
    /\ sender' # "reporting" =>
         Counted' = dropped' + boundDropped' + reported' + Announced(packets') + 0
BY DEF Counted

(* SendReport: the losses leave the hand and are under way or announced.   *)
LEMMA ReportKeeps ==
    ASSUME LogTypes, LossesCounted, SendReport
    PROVE  LogTypes' /\ LossesCounted'
<1>1. /\ sender = "reporting" /\ sender' = "sending"
      /\ UNCHANGED <<bound, boundDropped, sink, sequence, queue, dropped, hand>>
    BY DEF SendReport, boundVars
<1>2. PICK p \in LogPackets :
         /\ p = [sequence |-> 0, dropped |-> hand.dropped]
         /\ p.sequence = 0 /\ p.dropped = hand.dropped
    <2>1. [sequence |-> 0, dropped |-> hand.dropped] \in LogPackets
        BY LogParts DEF LogPackets
    <2>2. QED
        BY <2>1
<1>3. Delivered(p)
    BY <1>2 DEF SendReport
<1>t. CASE Thrown(p)
    <2>1. /\ UNCHANGED <<packets, emitted, reported>>
          /\ refused' = refused + p.dropped
                          + IF p.sequence = 0 THEN 0 ELSE 1
        BY <1>t DEF Thrown, Refused
    <2>2. LogTypes'
        <3>1. refused' \in Nat
            BY <2>1 DEF LogTypes, LogPackets
        <3>2. QED
            BY <1>1, <2>1, <3>1 DEF LogTypes
    <2>3. Missing' \subseteq Missing \cup ({p.sequence} \ {0})
        BY <1>1, <1>2, <2>1, MissingIsUnplaced
    <2>4. /\ Counted \in Nat /\ Counted' \in Nat
          /\ Counted = Counted' + p.dropped
        <3>1. /\ Announced(packets) \in Nat /\ hand.dropped \in Nat
              /\ dropped \in Nat /\ boundDropped \in Nat /\ reported \in Nat
              /\ Counted \in Nat
            BY LogParts DEF LogTypes
        <3>2. /\ Counted = dropped + boundDropped + reported
                             + Announced(packets) + hand.dropped
              /\ Counted' = dropped + boundDropped + reported
                              + Announced(packets) + 0
            BY <1>1, <2>1, CountedBySender
        <3>3. PICK a \in Nat, h \in Nat :
                 a = Announced(packets) /\ h = hand.dropped
            BY <3>1, Zenon
        <3>4. PICK u \in Nat : u = dropped + boundDropped + reported + a
            BY <3>1
        <3>5. Counted = u + h /\ Counted' = u + 0
            BY <3>2, <3>3, <3>4, Zenon
        <3>6. QED
            BY <1>2, <3>3, <3>5
    <2>5. QED
        BY <1>1, <2>1, <2>2, <2>3, <2>4, RefusalKeeps
<1>k. SUFFICES ASSUME ~Thrown(p)
               PROVE  LogTypes' /\ LossesCounted'
    BY <1>t
<1>4. /\ packets' \in Seq(LogPackets) /\ emitted' \in Seq(Nat)
      /\ reported' \in Nat /\ refused' = refused
      /\ reported' + Announced(packets')
           = (reported + Announced(packets)) + hand.dropped
      /\ (Numbers(packets) \ {0}) \cup ToSet(emitted)
           \subseteq (Numbers(packets') \ {0}) \cup ToSet(emitted')
    BY <1>2, <1>3, <1>k, DeliveredKeeps
<1>5. LogTypes'
    BY <1>1, <1>4 DEF LogTypes
<1>6. Missing' \subseteq Missing
    BY <1>1, <1>4, MissingIsUnplaced
<1>7. Counted \in Nat /\ Counted' = Counted
    <2>1. /\ Counted \in Nat /\ Announced(packets) \in Nat
          /\ hand.dropped \in Nat
        BY LogParts
    <2>2. Announced(packets') \in Nat
        BY <1>4, <2>1, AnnouncedNatural
    <2>3. dropped \in Nat /\ boundDropped \in Nat /\ reported \in Nat
        BY DEF LogTypes
    <2>4. /\ Counted = dropped + boundDropped + reported + Announced(packets)
                         + hand.dropped
          /\ Counted' = dropped + boundDropped + reported' + Announced(packets')
                          + 0
        BY <1>1, CountedBySender
    <2>5. PICK a \in Nat : a = Announced(packets)
        BY <2>1, Zenon
    <2>6. PICK c \in Nat : c = Announced(packets')
        BY <2>2, Zenon
    <2>7. PICK q \in Nat : q = reported'
        BY <1>4, Zenon
    <2>8. PICK r \in Nat : r = hand.dropped
        BY <2>1, Zenon
    <2>9. q + c = (reported + a) + r
        BY <1>4, <2>5, <2>6, <2>7, <2>8, Zenon
    <2>10. dropped + boundDropped + q + c + 0
             = dropped + boundDropped + reported + a + r
        BY <2>3, <2>9
    <2>11. QED
        BY <2>1, <2>4, <2>5, <2>6, <2>7, <2>8, <2>10, Zenon
<1>8. QED
    BY <1>1, <1>4, <1>5, <1>6, <1>7, NoneIsLost

(* SendRecord: the record leaves the hand and is under way or emitted.     *)
LEMMA RecordKeeps ==
    ASSUME LogTypes, LossesCounted, SendRecord
    PROVE  LogTypes' /\ LossesCounted'
<1>1. /\ sender = "sending" /\ sender' = "waiting" /\ hand' = NoRecord
      /\ UNCHANGED <<bound, boundDropped, sink, sequence, queue, dropped>>
    BY DEF SendRecord, boundVars
<1>2. PICK p \in LogPackets :
         /\ p = [sequence |-> hand.record.sequence, dropped |-> 0]
         /\ p.sequence = hand.record.sequence /\ p.dropped = 0
    <2>1. [sequence |-> hand.record.sequence, dropped |-> 0] \in LogPackets
        BY LogParts DEF LogPackets
    <2>2. QED
        BY <2>1
<1>3. Delivered(p)
    BY <1>2 DEF SendRecord
<1>t. CASE Thrown(p)
    <2>1. /\ UNCHANGED <<packets, emitted, reported>>
          /\ refused' = refused + p.dropped
                          + IF p.sequence = 0 THEN 0 ELSE 1
        BY <1>t DEF Thrown, Refused
    <2>2. LogTypes'
        <3>1. refused' \in Nat
            BY <2>1 DEF LogTypes, LogPackets
        <3>2. QED
            BY <1>1, <2>1, <3>1, NoRecordTyped DEF LogTypes
    <2>3. Missing' \subseteq Missing \cup ({p.sequence} \ {0})
        BY <1>1, <1>2, <2>1, MissingIsUnplaced, NoRecordTyped
    <2>4. /\ Counted \in Nat /\ Counted' \in Nat
          /\ Counted = Counted' + p.dropped
        <3>1. Counted \in Nat
            BY LogParts
        <3>2. Counted' = Counted
            BY <1>1, <2>1, CountedBySender
        <3>3. QED
            BY <1>2, <3>1, <3>2
    <2>5. QED
        BY <1>1, <2>1, <2>2, <2>3, <2>4, RefusalKeeps
<1>k. SUFFICES ASSUME ~Thrown(p)
               PROVE  LogTypes' /\ LossesCounted'
    BY <1>t
<1>4. /\ packets' \in Seq(LogPackets) /\ emitted' \in Seq(Nat)
      /\ reported' \in Nat /\ refused' = refused
      /\ reported' + Announced(packets') = (reported + Announced(packets)) + 0
      /\ (Numbers(packets) \ {0}) \cup ToSet(emitted)
           \cup ({hand.record.sequence} \ {0})
           \subseteq (Numbers(packets') \ {0}) \cup ToSet(emitted')
    BY <1>2, <1>3, <1>k, DeliveredKeeps
<1>5. LogTypes'
    BY <1>1, <1>4, NoRecordTyped DEF LogTypes
<1>6. Missing' \subseteq Missing
    BY <1>1, <1>4, MissingIsUnplaced
<1>7. Counted \in Nat /\ Counted' = Counted
    <2>1. Counted \in Nat /\ Announced(packets) \in Nat
        BY LogParts
    <2>2. Announced(packets') \in Nat
        BY <1>4, <2>1, AnnouncedNatural
    <2>3. dropped \in Nat /\ boundDropped \in Nat /\ reported \in Nat /\ 0 \in Nat
        BY DEF LogTypes
    <2>4. /\ Counted = dropped + boundDropped + reported + Announced(packets) + 0
          /\ Counted' = dropped + boundDropped + reported' + Announced(packets')
                          + 0
        BY <1>1, CountedBySender
    <2>5. PICK a \in Nat : a = Announced(packets)
        BY <2>1, Zenon
    <2>6. PICK c \in Nat : c = Announced(packets')
        BY <2>2, Zenon
    <2>7. PICK q \in Nat : q = reported'
        BY <1>4, Zenon
    <2>8. PICK r \in Nat : r = 0
        BY <2>3, Zenon
    <2>9. q + c = (reported + a) + r
        BY <1>4, <2>5, <2>6, <2>7, <2>8, Zenon
    <2>10. dropped + boundDropped + q + c + 0
             = dropped + boundDropped + reported + a + r
        BY <2>3, <2>9
    <2>11. QED
        BY <2>1, <2>4, <2>5, <2>6, <2>7, <2>8, <2>10, Zenon
<1>8. QED
    BY <1>1, <1>4, <1>5, <1>6, <1>7, NoneIsLost

(* SendFails: the record goes, and it and the losses are counted again.    *)
LEMMA FailureKeeps ==
    ASSUME LogTypes, LossesCounted, SendFails
    PROVE  LogTypes' /\ LossesCounted'
<1>1. /\ sender \in {"reporting", "sending"}
      /\ sink \in {"socket", "file", "inprocess_file"}
      /\ dropped' = Recounted /\ sender' = "waiting" /\ hand' = NoRecord
      /\ UNCHANGED <<bound, boundDropped, sink, sequence, queue, packets,
                     emitted, reported, refused>>
    BY DEF SendFails, boundVars, LogTypes
<1>2. dropped \in Nat /\ boundDropped \in Nat /\ reported \in Nat
    BY DEF LogTypes
<1>3. hand.dropped \in Nat /\ Announced(packets) \in Nat /\ Counted \in Nat
    BY LogParts
<1>4. Recounted \in Nat
    BY <1>2, <1>3 DEF Recounted
<1>5. LogTypes'
    <2>1. hand' \in [record : LogRecords, dropped : Nat]
        BY <1>1, NoRecordTyped
    <2>2. QED
        BY <1>1, <1>4, <2>1 DEF LogTypes
<1>6. Missing' \subseteq Missing \cup {hand.record.sequence}
    BY <1>1, MissingIsUnplaced
<1>7. ASSUME sink # "inprocess_file"
      PROVE  Counted' \in Nat /\ Counted' >= Counted + 1
    <2>1. dropped' = dropped + hand.dropped + 1
        BY <1>1, <1>7 DEF Recounted
    <2>2. Counted' = (dropped + hand.dropped + 1) + boundDropped + reported
                        + Announced(packets) + 0
        <3>1. sender' # "reporting"
            BY <1>1
        <3>2. Counted' = dropped' + boundDropped' + reported'
                           + Announced(packets') + 0
            BY <3>1, CountedBySender
        <3>3. QED
            BY <1>1, <2>1, <3>2, Zenon
    <2>3. PICK r \in Nat :
             /\ Counted = dropped + boundDropped + reported + Announced(packets)
                            + r
             /\ r <= hand.dropped
        <3>1. CASE sender = "reporting"
            <4>1. Counted = dropped + boundDropped + reported
                              + Announced(packets) + hand.dropped
                BY <3>1, CountedBySender
            <4>2. hand.dropped <= hand.dropped
                BY <1>3
            <4>3. QED
                BY <1>3, <4>1, <4>2, Zenon
        <3>2. CASE sender = "sending"
            <4>1. Counted = dropped + boundDropped + reported
                              + Announced(packets) + 0
                BY <3>2, CountedBySender
            <4>2. 0 <= hand.dropped /\ 0 \in Nat
                BY <1>3
            <4>3. QED
                BY <4>1, <4>2, Zenon
        <3>3. QED
            BY <1>1, <3>1, <3>2
    <2>4. PICK a \in Nat : a = Announced(packets)
        BY <1>3, Zenon
    <2>5. PICK h \in Nat : h = hand.dropped
        BY <1>3, Zenon
    <2>6. PICK u \in Nat : u = (dropped + h + 1) + boundDropped + reported + a + 0
        <3>1. (dropped + h + 1) + boundDropped + reported + a + 0 \in Nat
            BY <1>2
        <3>2. QED
            BY <3>1, Zenon
    <2>7. PICK v \in Nat : v = dropped + boundDropped + reported + a + r
        <3>1. dropped + boundDropped + reported + a + r \in Nat
            BY <1>2
        <3>2. QED
            BY <3>1, Zenon
    <2>8. u >= v + 1
        <3>1. r <= h
            BY <2>3, <2>5, Zenon
        <3>2. QED
            BY <1>2, <2>6, <2>7, <3>1
    <2>9. Counted' = u /\ Counted = v
        BY <2>2, <2>3, <2>4, <2>5, <2>6, <2>7, Zenon
    <2>10. QED
        BY <2>8, <2>9, Zenon
<1>8. UNCHANGED <<sink, refused>>
    BY <1>1
<1>9. QED
    BY <1>3, <1>5, <1>6, <1>7, <1>8, OneIsCounted

(* Collect: what is received is emitted, and the losses are announced.     *)
LEMMA CollectKeeps ==
    ASSUME LogTypes, LossesCounted, Collect
    PROVE  LogTypes' /\ LossesCounted'
<1>1. /\ packets # <<>> /\ packets' = Tail(packets)
      /\ Emitted(Head(packets)) \/ Refused(Head(packets))
      /\ UNCHANGED <<bound, boundDropped, sink, sequence, queue, dropped,
                     sender, hand>>
    BY DEF Collect, boundVars
<1>2. packets \in Seq(LogPackets) /\ emitted \in Seq(Nat)
    BY DEF LogTypes
<1>3. /\ Head(packets) \in LogPackets /\ packets' \in Seq(LogPackets)
      /\ Numbers(packets) = Numbers(packets') \cup {Head(packets).sequence}
    BY <1>1, <1>2, NumbersTail
<1>4. PICK p \in LogPackets : p = Head(packets)
    BY <1>3
<1>5. p.sequence \in Nat /\ p.dropped \in Nat
    BY DEF LogPackets
<1>r. CASE Refused(p)
    <2>1. /\ UNCHANGED <<emitted, reported>>
          /\ refused' = refused + p.dropped
                          + IF p.sequence = 0 THEN 0 ELSE 1
        BY <1>r DEF Refused
    <2>2. /\ Announced(packets') \in Nat
          /\ Announced(packets) = Announced(packets') + p.dropped
        BY <1>1, <1>2, <1>4, AnnouncedTail
    <2>3. LogTypes'
        <3>1. refused' \in Nat
            BY <1>5, <2>1 DEF LogTypes
        <3>2. QED
            BY <1>1, <1>3, <2>1, <3>1 DEF LogTypes
    <2>4. Missing' \subseteq Missing \cup ({p.sequence} \ {0})
        BY <1>1, <1>3, <1>4, <2>1, MissingIsUnplaced
    <2>5. /\ Counted \in Nat /\ Counted' \in Nat
          /\ Counted = Counted' + p.dropped
        <3>1. PICK r : /\ r = IF sender = "reporting" THEN hand.dropped ELSE 0
                       /\ r \in Nat
            BY LogParts
        <3>2. /\ Counted = dropped + boundDropped + reported
                             + Announced(packets) + r
              /\ Counted' = dropped + boundDropped + reported
                              + Announced(packets') + r
            BY <1>1, <2>1, <3>1 DEF Counted
        <3>3. PICK c \in Nat, d \in Nat :
                 c = Announced(packets') /\ d = p.dropped
            BY <1>5, <2>2, Zenon
        <3>4. PICK u \in Nat : u = dropped + boundDropped + reported
            BY DEF LogTypes
        <3>5. Counted = u + (c + d) + r /\ Counted' = u + c + r
            BY <2>2, <3>2, <3>3, <3>4, Zenon
        <3>6. QED
            BY <3>1, <3>3, <3>5
    <2>6. QED
        BY <1>1, <2>1, <2>3, <2>4, <2>5, RefusalKeeps
<1>k. SUFFICES ASSUME ~Refused(p)
               PROVE  LogTypes' /\ LossesCounted'
    BY <1>r
<1>e. /\ emitted' = IF p.sequence = 0 THEN emitted
                    ELSE Append(emitted, p.sequence)
      /\ reported' = reported + p.dropped
      /\ UNCHANGED refused
    BY <1>1, <1>4, <1>k DEF Emitted
<1>6. /\ emitted' \in Seq(Nat)
      /\ ToSet(emitted) \cup ({p.sequence} \ {0}) \subseteq ToSet(emitted')
    <2>1. CASE p.sequence = 0
        BY <1>2, <1>e, <2>1
    <2>2. CASE p.sequence # 0
        <3>1. emitted' = Append(emitted, p.sequence)
            BY <1>e, <2>2
        <3>2. QED
            BY <1>2, <1>5, <3>1, EmittedAppend
    <2>3. QED
        BY <2>1, <2>2
<1>7. /\ Announced(packets') \in Nat
      /\ Announced(packets) = Announced(packets') + p.dropped
    BY <1>1, <1>2, <1>4, AnnouncedTail
<1>8. reported \in Nat /\ reported' \in Nat
    BY <1>5, <1>e DEF LogTypes
<1>9. LogTypes'
    BY <1>1, <1>3, <1>6, <1>8, <1>e DEF LogTypes
<1>10. Missing' \subseteq Missing
    BY <1>1, <1>3, <1>4, <1>6, MissingIsUnplaced
<1>11. Counted \in Nat /\ Counted' = Counted
    <2>1. Counted \in Nat
        BY LogParts
    <2>2. PICK r : /\ r = IF sender = "reporting" THEN hand.dropped ELSE 0
                   /\ r \in Nat
        BY LogParts
    <2>3. /\ Counted = dropped + boundDropped + reported + Announced(packets) + r
          /\ Counted' = dropped + boundDropped + reported' + Announced(packets')
                          + r
        BY <1>1, <2>2 DEF Counted
    <2>4. PICK c \in Nat : c = Announced(packets')
        BY <1>7, Zenon
    <2>5. PICK d \in Nat : d = p.dropped
        BY <1>5, Zenon
    <2>6. dropped \in Nat /\ boundDropped \in Nat
        BY DEF LogTypes
    <2>7. dropped + boundDropped + (reported + d) + c + r
            = dropped + boundDropped + reported + (c + d) + r
        BY <1>8, <2>2, <2>6
    <2>8. reported' = reported + d /\ Announced(packets) = c + d
        BY <1>7, <1>e, <2>4, <2>5, Zenon
    <2>9. QED
        BY <2>1, <2>3, <2>4, <2>7, <2>8, Zenon
<1>12. QED
    BY <1>1, <1>9, <1>10, <1>11, <1>e, NoneIsLost

(* bind() doubles what was counted so far: the account only grows.         *)
LEMMA BindKeeps ==
    ASSUME LogTypes, LossesCounted, Bind
    PROVE  LogTypes' /\ LossesCounted'
<1>1. /\ ~bound /\ bound' = TRUE /\ boundDropped' = dropped
      /\ UNCHANGED <<sink, sequence, queue, dropped, sender, hand, packets,
                     emitted, reported, refused>>
    BY DEF Bind
<1>2. /\ dropped \in Nat /\ boundDropped \in Nat /\ reported \in Nat
      /\ boundDropped = 0
    BY <1>1 DEF LogTypes
<1>3. LogTypes'
    BY <1>1, <1>2 DEF LogTypes
<1>4. Missing' \subseteq Missing
    BY <1>1, MissingIsUnplaced
<1>5. Counted \in Nat /\ Counted' = Counted + dropped
    <2>1. Counted \in Nat /\ Announced(packets) \in Nat
        BY LogParts
    <2>2. PICK r : /\ r = IF sender = "reporting" THEN hand.dropped ELSE 0
                   /\ r \in Nat
        BY LogParts
    <2>3. /\ Counted = dropped + 0 + reported + Announced(packets) + r
          /\ Counted' = dropped + dropped + reported + Announced(packets) + r
        BY <1>1, <1>2, <2>2 DEF Counted
    <2>4. PICK a \in Nat : a = Announced(packets)
        BY <2>1, Zenon
    <2>5. dropped + dropped + reported + a + r
            = (dropped + 0 + reported + a + r) + dropped
        BY <1>2, <2>2
    <2>6. QED
        BY <2>1, <2>3, <2>4, <2>5, Zenon
<1>6. Counted' \in Nat /\ Counted' >= Counted
    BY <1>2, <1>5
<1>7. QED
    BY <1>1, <1>3, <1>4, <1>5, <1>6, NoneIsLost

(* The other steps move neither records nor counts.                        *)
LEMMA OthersKeep ==
    ASSUME LogTypes, LossesCounted,
           \/ SenderEnds \/ LogClose \/ CloseSink \/ StopCollector
           \/ CollectorEnds \/ UNCHANGED logVars
    PROVE  LogTypes' /\ LossesCounted'
<1>1. /\ UNCHANGED <<sink, sequence, queue, dropped, bound, boundDropped, hand,
                     packets, emitted, reported, refused>>
      /\ sender' = sender \/ (sender = "waiting" /\ sender' = "done")
    BY DEF SenderEnds, LogClose, CloseSink, StopCollector, CollectorEnds,
           logVars, boundVars
<1>2. LogTypes'
    BY <1>1 DEF LogTypes
<1>3. Missing' \subseteq Missing
    BY <1>1, MissingIsUnplaced
<1>4. Counted \in Nat /\ Counted' = Counted
    <2>1. (sender' = "reporting") <=> (sender = "reporting")
        BY <1>1
    <2>2. QED
        BY <1>1, <2>1, LogParts DEF Counted
<1>5. QED
    BY <1>1, <1>2, <1>3, <1>4, NoneIsLost

(* Nothing is logged, missing or counted at the start.                     *)
LEMMA LogStarts ==
    ASSUME LogInit
    PROVE  LogTypes /\ LossesCounted
<1>1. LogTypes
    <2>1. sink \in {"socket", "file", "inprocess", "inprocess_file"}
        BY LogAssumption DEF LogInit
    <2>2. hand \in [record : LogRecords, dropped : Nat]
        BY NoRecordTyped DEF LogInit
    <2>3. /\ queue \in Seq(LogRecords) /\ packets \in Seq(LogPackets)
          /\ emitted \in Seq(Nat)
        BY DEF LogInit
    <2>4. QED
        BY <2>1, <2>2, <2>3 DEF LogTypes, LogInit
<1>2. Missing = {}
    <2>1. 1..sequence = {}
        BY DEF LogInit
    <2>2. QED
        BY <2>1, MissingIsUnplaced
<1>3. Cardinality(Missing) = 0
    BY <1>2, FS_EmptySet
<1>4. Counted \in Nat /\ refused \in Nat
    BY <1>1, LogParts DEF LogTypes
<1>5. QED
    BY <1>1, <1>3, <1>4 DEF LossesCounted

(* The records that are neither waiting nor delivered are counted in the   *)
(* counters, in the sender's hand, on their way or in what was announced,  *)
(* or were refused by their reader, whatever the queue, the socket and the *)
(* threads do: AsyncLogger loses nothing in silence, its reader may.       *)
THEOREM LossesAreCounted == LogSpec => []LossesCounted
<1> DEFINE Inv == LogTypes /\ LossesCounted
<1>1. LogInit => Inv
    BY LogStarts
<1>2. Inv /\ [LogNext]_logVars => Inv'
    BY LogKeeps, TakeKeeps, ReportKeeps, RecordKeeps, FailureKeeps,
       CollectKeeps, BindKeeps, OthersKeep, Zenon
       DEF LogNext, SenderStep, CollectorStep
<1>3. Inv => LossesCounted
    OBVIOUS
<1>4. QED
    BY <1>1, <1>2, <1>3, PTL DEF LogSpec

-----------------------------------------------------------------------------
(* The arena.  A closed arena stays closed, and is closed only by a        *)
(* collection or by close() when nothing is left on it; nothing is         *)
(* allocated once close() was called.                                      *)
ArenaClosedInv == region = "closed" => closed /\ live = {}

(* The memory is never unmapped below a tensor: the arena is closed only   *)
(* when no storage is alive (BufferManager._release_arena, close).         *)
THEOREM ArenaIsClosedLast == ArenaSpec => []ArenaOutlivesStorages
<1>1. ArenaInit => ArenaClosedInv
    BY DEF ArenaInit, ArenaClosedInv
<1>2. ArenaClosedInv /\ [ArenaNext]_arenaVars => ArenaClosedInv'
    <2> SUFFICES ASSUME ArenaClosedInv, [ArenaNext]_arenaVars
                 PROVE  ArenaClosedInv'
        OBVIOUS
    <2>1. ASSUME NEW n \in Requests, Allocate(n) PROVE ArenaClosedInv'
        <3>1. region' = "open"
            BY <2>1, Zenon DEF Allocate
        <3>2. QED
            BY <3>1 DEF ArenaClosedInv
    <2>2. ASSUME NEW n \in Requests, Exhausted(n) PROVE ArenaClosedInv'
        <3>1. region' = "open"
            BY <2>2, Zenon DEF Exhausted
        <3>2. QED
            BY <3>1 DEF ArenaClosedInv
    <2>3. ASSUME NEW b \in live, StorageReleased(b) PROVE ArenaClosedInv'
        BY <2>3 DEF StorageReleased, ArenaClosedInv
    <2>4. CASE CollectArena
        <3>1. /\ region' = IF closed /\ live = {} THEN "closed" ELSE region
              /\ UNCHANGED <<live, closed>>
            BY <2>4, Zenon DEF CollectArena
        <3>2. QED
            BY <3>1 DEF ArenaClosedInv
    <2>5. CASE CloseFlag
        BY <2>5 DEF CloseFlag, ArenaClosedInv
    <2>6. CASE CloseArena
        BY <2>6 DEF CloseArena, ArenaClosedInv, Active
    <2>7. CASE UNCHANGED arenaVars
        BY <2>7 DEF arenaVars, ArenaClosedInv
    <2>8. QED
        BY <2>1, <2>2, <2>3, <2>4, <2>5, <2>6, <2>7, Zenon DEF ArenaNext
<1>3. ArenaClosedInv => ArenaOutlivesStorages
    BY DEF ArenaClosedInv, ArenaOutlivesStorages
<1>4. QED
    BY <1>1, <1>2, <1>3, PTL DEF ArenaSpec

(* The entries of the free list, as (offset, length), and what is true of  *)
(* those that are in it.                                                   *)
Blocks == [offset : Nat, length : Nat]

OnGrid(n) == n % Alignment = 0

GoodBlock(b) ==
    /\ b \in Blocks /\ b.length > 0
    /\ OnGrid(b.offset) /\ OnGrid(b.length)
    /\ End(b) <= ArenaBytes

(* The bytes of a block and of a list, and blocks without a common byte.   *)
InBlock(b, x) == b.offset <= x /\ x < End(b)

Holds(F, x) == \E i \in DOMAIN F : InBlock(F[i], x)

Clear(a, b) == End(a) <= b.offset \/ End(b) <= a.offset

(* The free list is sorted, and two blocks of it do not even touch.        *)
FreeList(F) ==
    /\ F \in Seq(Blocks)
    /\ \A i \in DOMAIN F : GoodBlock(F[i])
    /\ \A i, j \in DOMAIN F : i < j => End(F[i]) < F[j].offset

(* Multiples of the alignment, which % recognises ...                      *)
LEMMA MultipleOnGrid ==
    ASSUME NEW k \in Nat
    PROVE  k * Alignment \in Nat /\ OnGrid(k * Alignment)
<1> PICK A \in Nat \ {0} : A = Alignment
    BY ArenaAssumption
<1>1. PICK n \in Nat : n = k * A
    OBVIOUS
<1> PICK q, r : q = n \div A /\ r = n % A
    OBVIOUS
<1>2. q \in Int /\ r \in Int /\ 0 <= r /\ r < A /\ n = A * q + r
    OBVIOUS
<1>3. PICK d \in Int : d = k - q
    BY <1>2
<1>4. A * d = r
    <2>1. A * k = A * q + r
        BY <1>1, <1>2
    <2>2. A * d = A * k - A * q
        BY <1>2, <1>3
    <2>3. A * k \in Int /\ A * q \in Int
        BY <1>2
    <2>4. QED
        BY <1>2, <2>1, <2>2, <2>3
<1>5. d = 0
    <2>1. d < 1
        <3> SUFFICES ASSUME d >= 1 PROVE FALSE
            OBVIOUS
        <3>1. A * d >= A
            OBVIOUS
        <3>2. QED
            BY <1>2, <1>4, <3>1
    <2>2. d > -1
        <3> SUFFICES ASSUME d <= -1 PROVE FALSE
            OBVIOUS
        <3>1. A * d <= -A
            OBVIOUS
        <3>2. QED
            BY <1>2, <1>4, <3>1
    <2>3. QED
        BY <2>1, <2>2
<1>6. r = 0
    BY <1>4, <1>5
<1>7. QED
    BY <1>1, <1>6 DEF OnGrid

(* ... and which are all it recognises.                                    *)
LEMMA OnGridMultiple ==
    ASSUME NEW n \in Nat, OnGrid(n)
    PROVE  \E k \in Nat : n = k * Alignment
<1> PICK A \in Nat \ {0} : A = Alignment
    BY ArenaAssumption
<1> PICK q, r : q = n \div A /\ r = n % A
    OBVIOUS
<1>1. q \in Int /\ r \in Int /\ n = A * q + r
    OBVIOUS
<1>2. r = 0
    BY DEF OnGrid
<1>3. n = q * A
    BY <1>1, <1>2
<1>4. q \in Nat
    <2> SUFFICES ASSUME q <= -1 PROVE FALSE
        BY <1>1
    <2>1. q * A <= -A
        BY <1>1
    <2>2. QED
        BY <1>3, <2>1
<1>5. QED
    BY <1>3, <1>4

(* Sums and differences of multiples are multiples.                        *)
LEMMA GridSum ==
    ASSUME NEW a \in Nat, NEW b \in Nat, OnGrid(a), OnGrid(b)
    PROVE  OnGrid(a + b)
<1>1. PICK k \in Nat, l \in Nat : a = k * Alignment /\ b = l * Alignment
    BY OnGridMultiple
<1>2. a + b = (k + l) * Alignment /\ k + l \in Nat
    BY <1>1, ArenaAssumption
<1>3. QED
    BY <1>2, MultipleOnGrid

LEMMA GridRest ==
    ASSUME NEW a \in Nat, NEW b \in Nat, OnGrid(a), OnGrid(b), b <= a
    PROVE  a - b \in Nat /\ OnGrid(a - b)
<1>1. PICK k \in Nat, l \in Nat : a = k * Alignment /\ b = l * Alignment
    BY OnGridMultiple
<1>2. a - b = (k - l) * Alignment /\ k - l \in Int
    BY <1>1, ArenaAssumption
<1>3. CASE k - l >= 0
    BY <1>2, <1>3, MultipleOnGrid
<1>4. CASE k - l < 0
    <2>1. (k - l) * Alignment < 0
        BY <1>4, ArenaAssumption
    <2>2. QED
        BY <1>2, <2>1
<1>5. QED
    BY <1>2, <1>3, <1>4

(* _align rounds up to a multiple.                                         *)
LEMMA AlignPads ==
    ASSUME NEW n \in Nat \ {0}
    PROVE  Align(n) \in Nat /\ Align(n) >= n /\ OnGrid(Align(n))
<1> PICK q : q = (n + Alignment - 1) \div Alignment
    OBVIOUS
<1>1. q \in Nat /\ q * Alignment >= n
    BY ArenaAssumption
<1>2. QED
    BY <1>1, MultipleOnGrid DEF Align
(* One turn, as a step of a recursion.                                     *)
MergeStep(g, k, s) == IF k = 0 THEN <<>> ELSE Joined(g[k - 1], s[k])

(* The merging loop as a recursion that has a solution.                    *)
LEMMA MergedIs ==
    ASSUME NEW s, NEW n \in Nat, Len(s) = n
    PROVE  \E g : /\ g = [k \in 0..n |-> MergeStep(g, k, s)]
                  /\ Merged(s) = g[n]
<1> DEFINE Reached == {m \in Nat : \E g : g = [k \in 0..m |-> MergeStep(g, k, s)]}
<1>1. 0 \in Reached
    <2> DEFINE g == [k \in 0..0 |-> <<>>]
    <2>1. g = [k \in 0..0 |-> MergeStep(g, k, s)]
        BY DEF MergeStep
    <2>2. QED
        BY <2>1
<1>2. ASSUME NEW m \in Nat, m \in Reached PROVE m + 1 \in Reached
    <2> PICK g : g = [k \in 0..m |-> MergeStep(g, k, s)]
        BY <1>2
    <2> DEFINE h == [k \in 0..(m + 1) |-> MergeStep(g, k, s)]
    <2>1. \A k \in 0..m : h[k] = g[k]
        <3> SUFFICES ASSUME NEW k \in 0..m PROVE h[k] = g[k]
            OBVIOUS
        <3>1. h[k] = MergeStep(g, k, s)
            OBVIOUS
        <3>2. g[k] = MergeStep(g, k, s)
            OBVIOUS
        <3>3. QED
            BY <3>1, <3>2, Zenon
    <2>2. ASSUME NEW k \in 0..(m + 1)
          PROVE  MergeStep(h, k, s) = MergeStep(g, k, s)
        <3>1. CASE k = 0
            BY <3>1 DEF MergeStep
        <3>2. CASE k # 0
            <4>1. k - 1 \in 0..m
                BY <3>2
            <4>2. h[k - 1] = g[k - 1]
                BY <2>1, <4>1
            <4> HIDE DEF h
            <4>3. QED
                BY <4>2 DEF MergeStep
        <3>3. QED
            BY <3>1, <3>2
    <2>3. h = [k \in 0..(m + 1) |-> MergeStep(h, k, s)]
        BY <2>2
    <2>4. \E f : f = [k \in 0..(m + 1) |-> MergeStep(f, k, s)]
        <3> HIDE DEF h
        <3>1. QED
            BY <2>3, Zenon
    <2>5. QED
        BY <2>4
<1>3. n \in Reached
    <2> HIDE DEF Reached
    <2>1. QED
        BY <1>1, <1>2, NaturalsReached
<1> DEFINE G == CHOOSE g : g = [k \in 0..n |-> MergeStep(g, k, s)]
<1>4. G = [k \in 0..n |-> MergeStep(G, k, s)]
    BY <1>3
<1>5. Merged(s) = G[n]
    BY DEF Merged, MergeStep
<1> HIDE DEF G
<1>6. QED
    BY <1>4, <1>5

(* A turn of the loop: a block that starts at or behind the end of what is *)
(* merged keeps the list sorted with gaps, and adds its bytes to it.       *)
LEMMA JoinedKeeps ==
    ASSUME NEW m, FreeList(m), NEW c, GoodBlock(c),
           m # <<>> => End(Last(m)) <= c.offset
    PROVE  /\ FreeList(Joined(m, c))
           /\ Joined(m, c) # <<>> /\ End(Last(Joined(m, c))) = End(c)
           /\ \A x \in Nat : Holds(Joined(m, c), x) <=> Holds(m, x) \/ InBlock(c, x)
<1> PICK n : n = Len(m)
    OBVIOUS
<1>1. m \in Seq(Blocks) /\ n \in Nat /\ DOMAIN m = 1..n /\ (m # <<>> <=> n > 0)
    BY DEF FreeList
<1>2. c \in Blocks /\ c.offset \in Nat /\ c.length \in Nat /\ c.length > 0
    BY DEF GoodBlock, Blocks
<1>3. \A i \in 1..n : /\ m[i] \in Blocks /\ m[i].offset \in Nat /\ m[i].length \in Nat
                      /\ GoodBlock(m[i])
    <2>1. \A i \in 1..n : m[i] \in Blocks /\ GoodBlock(m[i])
        BY <1>1 DEF FreeList
    <2>2. \A b \in Blocks : b.offset \in Nat /\ b.length \in Nat
        BY DEF Blocks
    <2>3. QED
        BY <2>1, <2>2
<1>4. \A i, j \in 1..n : i < j => End(m[i]) < m[j].offset
    BY <1>1 DEF FreeList
<1>5. CASE m # <<>> /\ End(Last(m)) = c.offset
    <2> PICK b : b = Block(m[n].offset, m[n].length + c.length)
        OBVIOUS
    <2> PICK t : t = [m EXCEPT ![n] = b]
        OBVIOUS
    <2>1. Joined(m, c) = t
        BY <1>5 DEF Joined, ReplaceAt, Last
    <2>2. n \in 1..n /\ m[n] = Last(m) /\ End(m[n]) = c.offset
        BY <1>1, <1>5 DEF Last
    <2>3. /\ b \in Blocks /\ b.offset = m[n].offset /\ b.length = m[n].length + c.length
          /\ End(b) = End(c)
        BY <1>2, <1>3, <2>2 DEF Block, Blocks, End
    <2>4. GoodBlock(b)
        <3>1. OnGrid(b.offset) /\ OnGrid(b.length)
            BY <1>2, <1>3, <2>2, <2>3, GridSum DEF GoodBlock
        <3>2. QED
            BY <1>2, <1>3, <2>2, <2>3, <3>1 DEF GoodBlock
    <2>5. /\ t \in Seq(Blocks) /\ Len(t) = n /\ DOMAIN t = 1..n /\ t[n] = b
          /\ \A i \in 1..n : i # n => t[i] = m[i]
        BY <1>1, <2>2, <2>3
    <2>6. FreeList(t)
        <3>1. \A i \in 1..n : GoodBlock(t[i])
            BY <1>3, <2>4, <2>5
        <3>2. ASSUME NEW i \in 1..n, NEW j \in 1..n, i < j
              PROVE  End(t[i]) < t[j].offset
            BY <1>4, <2>3, <2>5, <3>2
        <3>3. QED
            BY <2>5, <3>1, <3>2 DEF FreeList
    <2>7. t # <<>> /\ End(Last(t)) = End(c)
        BY <2>2, <2>3, <2>5 DEF Last
    <2>8. ASSUME NEW x \in Nat
          PROVE  Holds(t, x) <=> Holds(m, x) \/ InBlock(c, x)
        <3>1. InBlock(b, x) <=> InBlock(m[n], x) \/ InBlock(c, x)
            BY <1>2, <1>3, <2>2, <2>3 DEF InBlock, End
        <3>2. QED
            BY <1>1, <2>2, <2>5, <3>1 DEF Holds
    <2>9. QED
        BY <2>1, <2>6, <2>7, <2>8
<1>6. CASE ~(m # <<>> /\ End(Last(m)) = c.offset)
    <2> PICK t : t = Append(m, c)
        OBVIOUS
    <2>1. Joined(m, c) = t
        BY <1>6 DEF Joined
    <2>2. /\ t \in Seq(Blocks) /\ Len(t) = n + 1 /\ DOMAIN t = 1..(n + 1)
          /\ t[n + 1] = c
          /\ \A i \in 1..n : t[i] = m[i]
        BY <1>1, <1>2
    <2>3. \A i \in 1..n : End(m[i]) < c.offset
        <3> SUFFICES ASSUME NEW i \in 1..n PROVE End(m[i]) < c.offset
            OBVIOUS
        <3>a. n \in 1..n
            BY <1>1
        <3>b. \A c2 \in Blocks : End(c2) \in Nat
            BY DEF Blocks, End
        <3>1. n \in 1..n /\ End(m[n]) \in Nat /\ End(m[i]) \in Nat
            BY <1>3, <3>a, <3>b
        <3>2. End(m[n]) < c.offset
            BY <1>1, <1>2, <1>6, <3>1 DEF Last
        <3>3. i < n => End(m[i]) < m[n].offset /\ m[n].offset <= End(m[n])
            BY <1>3, <1>4, <3>1 DEF End
        <3>4. m[n].offset \in Nat
            BY <1>3, <3>1
        <3>5. QED
            BY <1>1, <1>2, <3>1, <3>2, <3>3, <3>4
    <2>4. FreeList(t)
        <3>1. \A i \in 1..(n + 1) : GoodBlock(t[i])
            BY <1>1, <1>3, <2>2
        <3>2. ASSUME NEW i \in 1..(n + 1), NEW j \in 1..(n + 1), i < j
              PROVE  End(t[i]) < t[j].offset
            BY <1>1, <1>4, <2>2, <2>3, <3>2
        <3>3. QED
            BY <2>2, <3>1, <3>2 DEF FreeList
    <2>5. t # <<>> /\ End(Last(t)) = End(c)
        BY <1>1, <2>2 DEF Last
    <2>6. ASSUME NEW x \in Nat
          PROVE  Holds(t, x) <=> Holds(m, x) \/ InBlock(c, x)
        BY <1>1, <2>2 DEF Holds
    <2>7. QED
        BY <2>1, <2>4, <2>5, <2>6
<1>7. QED
    BY <1>5, <1>6
(* A sorted list whose blocks may touch, as it is between sort and merge.  *)
Ordered(s) ==
    /\ s \in Seq(Blocks)
    /\ \A i \in DOMAIN s : GoodBlock(s[i])
    /\ \A i, j \in DOMAIN s : i < j => End(s[i]) <= s[j].offset

(* The loop turns a sorted list into one with gaps and keeps its bytes.    *)
LEMMA MergedKeeps ==
    ASSUME NEW s, Ordered(s)
    PROVE  /\ FreeList(Merged(s))
           /\ \A x \in Nat : Holds(Merged(s), x) <=> Holds(s, x)
<1> PICK n : n = Len(s)
    OBVIOUS
<1>1. n \in Nat /\ DOMAIN s = 1..n
    BY DEF Ordered
<1>2. PICK g : g = [k \in 0..n |-> MergeStep(g, k, s)] /\ Merged(s) = g[n]
    BY <1>1, MergedIs
<1> DEFINE Merges(k) ==
        /\ FreeList(g[k])
        /\ g[k] # <<>> => k > 0 /\ End(Last(g[k])) = End(s[k])
        /\ \A x \in Nat : Holds(g[k], x) <=> \E i \in 1..k : InBlock(s[i], x)
<1> DEFINE T == {k \in Nat : k <= n => Merges(k)}
<1>3. 0 \in T
    <2>1. g[0] = <<>>
        BY <1>1, <1>2 DEF MergeStep
    <2>2. FreeList(<<>>) /\ \A x \in Nat : ~Holds(<<>>, x)
        BY DEF FreeList, Holds
    <2>3. Merges(0)
        BY <2>1, <2>2
    <2> HIDE DEF Merges
    <2>4. QED
        BY <2>3
<1>4. ASSUME NEW k \in Nat, k \in T PROVE k + 1 \in T
    <2> SUFFICES ASSUME k + 1 <= n PROVE Merges(k + 1)
        OBVIOUS
    <2>1. Merges(k)
        BY <1>1, <1>4
    <2>2. k + 1 \in 0..n /\ k + 1 \in 1..n
        BY <1>1
    <2>3. g[k + 1] = Joined(g[k], s[k + 1])
        BY <1>2, <2>2 DEF MergeStep
    <2>4. GoodBlock(s[k + 1])
        BY <1>1, <2>2 DEF Ordered
    <2>5. g[k] # <<>> => End(Last(g[k])) <= s[k + 1].offset
        <3>1. k > 0 => End(s[k]) <= s[k + 1].offset
            BY <1>1, <2>2 DEF Ordered
        <3>2. QED
            BY <2>1, <3>1
    <2> PICK c : c = s[k + 1]
        OBVIOUS
    <2> PICK m : m = g[k]
        OBVIOUS
    <2>6. /\ FreeList(Joined(m, c))
          /\ End(Last(Joined(m, c))) = End(c)
          /\ \A x \in Nat : Holds(Joined(m, c), x) <=> Holds(m, x) \/ InBlock(c, x)
        BY <2>1, <2>4, <2>5, JoinedKeeps
    <2>7. ASSUME NEW x \in Nat
          PROVE  Holds(g[k + 1], x) <=> \E i \in 1..(k + 1) : InBlock(s[i], x)
        <3>1. 1..(k + 1) = 1..k \cup {k + 1}
            BY <1>1
        <3>2. Holds(g[k + 1], x) <=> Holds(m, x) \/ InBlock(c, x)
            BY <2>3, <2>6
        <3>3. Holds(m, x) <=> \E i \in 1..k : InBlock(s[i], x)
            BY <2>1
        <3>4. QED
            BY <3>1, <3>2, <3>3
    <2>8. k + 1 > 0
        BY <1>4
    <2>9. QED
        BY <2>3, <2>6, <2>7, <2>8
<1>5. Merges(n)
    <2> HIDE DEF T
    <2>1. n \in T
        BY <1>1, <1>3, <1>4, NaturalsReached
    <2>2. QED
        BY <1>1, <2>1 DEF T
<1>6. QED
    BY <1>1, <1>2, <1>5 DEF Holds

(* A sorted list with one more block can be sorted: the block goes before  *)
(* the first one that starts behind it.                                    *)
LEMMA InsertionPlace ==
    ASSUME NEW F, FreeList(F), NEW b, GoodBlock(b), NEW n \in Nat, n = Len(F)
    PROVE  \E p \in Bijection(1..(n + 1), 1..(n + 1)) :
               \A i, j \in 1..(n + 1) :
                   i < j => Append(F, b)[p[i]].offset <= Append(F, b)[p[j]].offset
<1>t. PICK t : t = Append(F, b)
    OBVIOUS
<1>o. PICK off : off = [i \in 1..(n + 1) |-> t[i].offset]
    OBVIOUS
<1> DEFINE D == 1..(n + 1)
<1>1. /\ DOMAIN F = 1..n
      /\ \A i \in 1..n : t[i] = F[i]
      /\ t[n + 1] = b
    BY <1>t DEF FreeList
<1>2. /\ \A i \in D : off[i] = t[i].offset
      /\ \A i \in 1..n : off[i] \in Nat
      /\ off[n + 1] \in Nat
    <2>1. \A i \in 1..n : F[i] \in Blocks
        BY <1>1 DEF FreeList
    <2>2. b \in Blocks
        BY DEF GoodBlock
    <2>3. \A c \in Blocks : c.offset \in Nat
        BY DEF Blocks
    <2>4. QED
        BY <1>o, <1>1, <2>1, <2>2, <2>3
<1>3. \A i, j \in 1..n : i < j => off[i] <= off[j]
    <2> SUFFICES ASSUME NEW i \in 1..n, NEW j \in 1..n, i < j
                 PROVE  off[i] <= off[j]
        OBVIOUS
    <2>1. F[i].offset + F[i].length < F[j].offset
        BY <1>1 DEF FreeList, End
    <2>2. F[i] \in Blocks
        BY <1>1 DEF FreeList
    <2>3. F[i].offset \in Nat /\ F[i].length \in Nat
        BY <2>2 DEF Blocks
    <2>4. off[i] = F[i].offset /\ off[j] = F[j].offset /\ off[j] \in Nat
        BY <1>1, <1>2
    <2>5. QED
        BY <2>1, <2>3, <2>4
<1> DEFINE Later == {i \in D : i = n + 1 \/ off[i] > off[n + 1]}
<1>4. PICK k \in Later : \A i \in Later : k <= i
    <2>1. Later \subseteq Nat /\ n + 1 \in Later
        OBVIOUS
    <2> HIDE DEF Later
    <2>2. QED
        BY <2>1, LeastMember
<1>5. /\ k \in D
      /\ \A i \in 1..n : i < k => off[i] <= off[n + 1]
      /\ \A i \in 1..n : i >= k => off[n + 1] <= off[i]
    <2>1. k \in D /\ (k = n + 1 \/ off[k] > off[n + 1])
        BY <1>4
    <2>2. \A i \in 1..n : i < k => off[i] <= off[n + 1]
        <3> SUFFICES ASSUME NEW i \in 1..n, i < k PROVE off[i] <= off[n + 1]
            OBVIOUS
        <3>1. i \in D /\ i \notin Later
            BY <1>4, <2>1
        <3>2. ~(off[i] > off[n + 1])
            BY <3>1
        <3>3. off[i] \in Nat /\ off[n + 1] \in Nat
            BY <1>2
        <3>4. QED
            BY <3>2, <3>3
    <2>3. ASSUME NEW i \in 1..n, i >= k PROVE off[n + 1] <= off[i]
        <3>1. k \in 1..n /\ off[k] > off[n + 1] /\ (k = i \/ off[k] <= off[i])
            BY <1>3, <2>1, <2>3
        <3>2. QED
            BY <1>2, <3>1
    <2>4. QED
        BY <2>1, <2>2, <2>3
<1> HIDE DEF Later
<1> DEFINE p == [i \in D |-> IF i < k THEN i ELSE IF i = k THEN n + 1 ELSE i - 1]
<1>6. /\ p \in [D -> D]
      /\ \A i \in D : /\ i < k => p[i] = i /\ i \in 1..n
                      /\ i = k => p[i] = n + 1
                      /\ i > k => p[i] = i - 1 /\ i - 1 \in 1..n /\ i - 1 >= k
    <2>1. \A i \in D : p[i] = IF i < k THEN i ELSE IF i = k THEN n + 1 ELSE i - 1
        OBVIOUS
    <2>2. \A i \in D : p[i] \in D
        BY <1>5, <2>1
    <2>3. p \in [D -> D]
        BY <2>2
    <2> HIDE DEF p
    <2>4. QED
        BY <1>5, <2>1, <2>3
<1> HIDE DEF p
<1>7. p \in Bijection(D, D)
    <2>1. \A i, j \in D : p[i] = p[j] => i = j
        BY <1>5, <1>6
    <2>2. ASSUME NEW m \in D PROVE \E i \in D : p[i] = m
        <3>1. CASE m < k
            BY <1>6, <3>1
        <3>2. CASE m >= k /\ m # n + 1
            <4>1. m + 1 \in D /\ m + 1 > k
                BY <1>5, <3>2
            <4>2. p[m + 1] = m
                BY <1>6, <4>1
            <4>3. QED
                BY <4>1, <4>2
        <3>3. CASE m = n + 1
            BY <1>5, <1>6, <3>3
        <3>4. QED
            BY <1>5, <3>1, <3>2, <3>3
    <2>3. p \in Injection(D, D)
        BY <1>6, <2>1 DEF Injection, IsInjective
    <2>4. p \in Surjection(D, D)
        BY <1>6, <2>2 DEF Surjection
    <2>5. QED
        BY <2>3, <2>4 DEF Bijection
<1>8. ASSUME NEW i \in D, NEW j \in D, i < j
      PROVE  off[p[i]] <= off[p[j]]
    <2>1. CASE j < k
        BY <1>3, <1>5, <1>6, <1>8, <2>1
    <2>2. CASE j = k
        BY <1>5, <1>6, <1>8, <2>2
    <2>3. CASE j > k /\ i < k
        BY <1>3, <1>5, <1>6, <1>8, <2>3
    <2>4. CASE j > k /\ i = k
        BY <1>5, <1>6, <1>8, <2>4
    <2>5. CASE j > k /\ i > k
        <3>1. i - 1 \in 1..n /\ j - 1 \in 1..n /\ i - 1 < j - 1
            BY <1>5, <1>6, <1>8, <2>5
        <3>2. p[i] = i - 1 /\ p[j] = j - 1
            BY <1>6, <2>5
        <3>3. QED
            BY <1>3, <3>1, <3>2
    <2>6. QED
        BY <1>5, <2>1, <2>2, <2>3, <2>4, <2>5
<1>9. \A i, j \in D : i < j => t[p[i]].offset <= t[p[j]].offset
    BY <1>2, <1>6, <1>8
<1>10. QED
    BY <1>t, <1>7, <1>9
(* What the sort yields: blocks that have no byte in common come one after *)
(* the other.                                                              *)
LEMMA SortedOrders ==
    ASSUME NEW F, FreeList(F), NEW b, GoodBlock(b),
           \A i \in DOMAIN F : Clear(F[i], b)
    PROVE  /\ Ordered(Sorted(Append(F, b)))
           /\ \A x \in Nat : Holds(Sorted(Append(F, b)), x)
                               <=> Holds(F, x) \/ InBlock(b, x)
<1>n. PICK n : n = Len(F)
    OBVIOUS
<1>t. PICK t : t = Append(F, b)
    OBVIOUS
<1>d. PICK D : D = 1..(n + 1)
    OBVIOUS
<1>1. /\ n \in Nat /\ DOMAIN F = 1..n /\ DOMAIN t = D
      /\ t \in Seq(Blocks)
      /\ \A i \in 1..n : t[i] = F[i]
      /\ t[n + 1] = b
    BY <1>n, <1>t, <1>d DEF FreeList, GoodBlock
<1>2. \A i \in D : GoodBlock(t[i]) /\ t[i] \in Blocks
    BY <1>1, <1>d DEF FreeList, GoodBlock
<1>3. \A i, j \in D : i # j => Clear(t[i], t[j])
    <2> SUFFICES ASSUME NEW i \in D, NEW j \in D, i < j
                 PROVE  Clear(t[i], t[j]) /\ Clear(t[j], t[i])
        BY <1>1, <1>d
    <2>1. CASE j = n + 1
        BY <1>1, <1>d, <2>1 DEF Clear
    <2>2. CASE j # n + 1
        <3>1. i \in 1..n /\ j \in 1..n
            BY <1>1, <1>d, <2>2
        <3>2. End(F[i]) < F[j].offset
            BY <1>1, <3>1 DEF FreeList
        <3>3. F[i] \in Blocks /\ F[j] \in Blocks
            BY <1>1, <3>1 DEF FreeList
        <3>4. End(F[i]) \in Nat /\ F[j].offset \in Nat
            BY <3>3 DEF Blocks, End
        <3>5. QED
            BY <1>1, <3>1, <3>2, <3>4 DEF Clear
    <2>3. QED
        BY <2>1, <2>2
<1>p. DEFINE Orders(p) == \A i, j \in D : i < j => t[p[i]].offset <= t[p[j]].offset
<1>4. PICK p \in Bijection(D, D) :
          /\ Orders(p)
          /\ Sorted(t) = [i \in D |-> t[p[i]]]
    <2> DEFINE q == CHOOSE p \in Bijection(D, D) : Orders(p)
    <2>1. q \in Bijection(D, D) /\ Orders(q)
        <3>1. \E p \in Bijection(D, D) : Orders(p)
            BY <1>n, <1>t, <1>d, <1>1, InsertionPlace
        <3> HIDE DEF Orders
        <3>2. QED
            BY <3>1
    <2>2. Sorted(t) = [i \in D |-> t[q[i]]]
        <3>1. DOMAIN t = D
            BY <1>1
        <3>2. Sorted(t) = [i \in DOMAIN t |->
                 t[(CHOOSE r \in Bijection(DOMAIN t, DOMAIN t) :
                        \A k, j \in DOMAIN t :
                            k < j => t[r[k]].offset <= t[r[j]].offset)[i]]]
            BY Zenon DEF Sorted
        <3>3. QED
            BY <3>1, <3>2
    <2> HIDE DEF q
    <2>3. QED
        BY <2>1, <2>2
<1>s. PICK s : s = Sorted(t)
    OBVIOUS
<1>5. /\ \A i \in D : p[i] \in D
      /\ \A i, j \in D : i # j => p[i] # p[j]
      /\ \A m \in D : \E i \in D : p[i] = m
    <2>1. p \in Injection(D, D) /\ p \in Surjection(D, D)
        BY <1>4 DEF Bijection
    <2>2. QED
        BY <2>1 DEF Injection, IsInjective, Surjection
<1>6. s \in Seq(Blocks) /\ DOMAIN s = D /\ \A i \in D : s[i] = t[p[i]]
    <2>1. s = [i \in D |-> t[p[i]]]
        BY <1>4, <1>s
    <2>2. \A i \in D : t[p[i]] \in Blocks
        BY <1>2, <1>5
    <2>3. n + 1 \in Nat
        BY <1>1
    <2>4. QED
        BY <1>d, <2>1, <2>2, <2>3
<1>7. Ordered(s)
    <2>1. ASSUME NEW i \in D, NEW j \in D, i < j
          PROVE  End(s[i]) <= s[j].offset
        <3>1. s[i].offset <= s[j].offset
            BY <1>4, <1>6, <2>1
        <3>2. Clear(s[i], s[j])
            <4>1. i # j
                BY <1>d, <1>1, <2>1
            <4>2. p[i] \in D /\ p[j] \in D /\ p[i] # p[j]
                BY <1>5, <4>1
            <4>3. QED
                BY <1>3, <1>6, <4>2
        <3>3. s[i] \in Blocks /\ s[j] \in Blocks /\ s[j].length > 0
            <4>1. p[i] \in D /\ p[j] \in D
                BY <1>5
            <4>2. QED
                BY <1>2, <1>6, <4>1 DEF GoodBlock
        <3>4. /\ s[i].offset \in Nat /\ s[j].offset \in Nat
              /\ s[i].length \in Nat /\ s[j].length \in Nat
            BY <3>3 DEF Blocks
        <3>5. QED
            BY <3>1, <3>2, <3>3, <3>4 DEF Clear, End
    <2>2. \A i \in D : GoodBlock(s[i])
        BY <1>2, <1>5, <1>6
    <2>3. QED
        BY <1>6, <2>1, <2>2 DEF Ordered
<1>8. ASSUME NEW x \in Nat
      PROVE  Holds(s, x) <=> Holds(F, x) \/ InBlock(b, x)
    <2>1. Holds(s, x) <=> Holds(t, x)
        <3>1. ASSUME NEW i \in D, InBlock(s[i], x) PROVE Holds(t, x)
            BY <1>1, <1>5, <1>6, <3>1 DEF Holds
        <3>2. ASSUME NEW m \in D, InBlock(t[m], x) PROVE Holds(s, x)
            <4>1. PICK i \in D : p[i] = m
                BY <1>5
            <4>2. QED
                BY <1>6, <3>2, <4>1 DEF Holds
        <3>3. QED
            BY <1>1, <1>6, <3>1, <3>2 DEF Holds
    <2>2. Holds(t, x) <=> Holds(F, x) \/ InBlock(b, x)
        <3>1. D = 1..n \cup {n + 1}
            BY <1>1, <1>d
        <3>2. QED
            BY <1>1, <3>1 DEF Holds
    <2>3. QED
        BY <2>1, <2>2
<1>9. QED
    BY <1>s, <1>t, <1>7, <1>8

(* Blocks have no byte in common if and only if one ends before the other. *)
LEMMA ClearOfBytes ==
    ASSUME NEW a, GoodBlock(a), NEW b, GoodBlock(b)
    PROVE  /\ (\A x \in Nat : ~(InBlock(a, x) /\ InBlock(b, x))) <=> Clear(a, b)
           /\ Apart(a, b) <=> Clear(a, b)
<1>1. /\ a.offset \in Nat /\ a.length \in Nat /\ a.length > 0
      /\ b.offset \in Nat /\ b.length \in Nat /\ b.length > 0
    BY DEF GoodBlock, Blocks
<1>2. CASE Clear(a, b)
    <2>1. \A x \in Nat : ~(InBlock(a, x) /\ InBlock(b, x))
        BY <1>1, <1>2 DEF Clear, InBlock, End
    <2>2. Apart(a, b)
        BY <1>1, <1>2 DEF Clear, Apart, BlockBytes, End
    <2>3. QED
        BY <1>2, <2>1, <2>2
<1>3. CASE ~Clear(a, b)
    <2> PICK x \in Nat : x = IF a.offset <= b.offset THEN b.offset ELSE a.offset
        BY <1>1
    <2>1. InBlock(a, x) /\ InBlock(b, x)
        BY <1>1, <1>3 DEF Clear, InBlock, End
    <2>2. x \in BlockBytes(a) /\ x \in BlockBytes(b)
        BY <1>1, <2>1 DEF BlockBytes, InBlock, End
    <2>3. QED
        BY <1>3, <2>1, <2>2 DEF Apart
<1>4. QED
    BY <1>2, <1>3

(* _release_arena: a block that is not in the list brings its bytes, and   *)
(* the list stays sorted with gaps.                                        *)
LEMMA GiveKeeps ==
    ASSUME NEW F, FreeList(F), NEW b, GoodBlock(b),
           \A x \in Nat : ~(Holds(F, x) /\ InBlock(b, x))
    PROVE  /\ FreeList(Give(F, b))
           /\ \A x \in Nat : Holds(Give(F, b), x) <=> Holds(F, x) \/ InBlock(b, x)
<1>1. ASSUME NEW i \in DOMAIN F PROVE Clear(F[i], b)
    <2>1. GoodBlock(F[i])
        BY DEF FreeList
    <2>2. \A x \in Nat : ~(InBlock(F[i], x) /\ InBlock(b, x))
        BY DEF Holds
    <2>3. QED
        BY <2>1, <2>2, ClearOfBytes
<1>s. PICK s : s = Sorted(Append(F, b))
    OBVIOUS
<1>2. /\ Ordered(s)
      /\ \A x \in Nat : Holds(s, x) <=> Holds(F, x) \/ InBlock(b, x)
    BY <1>s, <1>1, SortedOrders
<1>3. /\ FreeList(Merged(s))
      /\ \A x \in Nat : Holds(Merged(s), x) <=> Holds(s, x)
    BY <1>2, MergedKeeps
<1>4. QED
    BY <1>s, <1>2, <1>3 DEF Give

(* One allocation given back, as a step of a recursion.                    *)
CollectStep(g, k, F, Q) == IF k = 0 THEN F ELSE Give(g[k - 1], Padded(Q[k]))

(* The loop of _collect as a recursion that has a solution.                *)
LEMMA CollectedIs ==
    ASSUME NEW F, NEW Q, NEW n \in Nat, Len(Q) = n
    PROVE  \E g : /\ g = [k \in 0..n |-> CollectStep(g, k, F, Q)]
                  /\ Collected(F, Q) = g[n]
<1> DEFINE Reached == {m \in Nat : \E g : g = [k \in 0..m |-> CollectStep(g, k, F, Q)]}
<1>1. 0 \in Reached
    <2> DEFINE g == [k \in 0..0 |-> F]
    <2>1. g = [k \in 0..0 |-> CollectStep(g, k, F, Q)]
        BY DEF CollectStep
    <2>2. QED
        BY <2>1
<1>2. ASSUME NEW m \in Nat, m \in Reached PROVE m + 1 \in Reached
    <2> PICK g : g = [k \in 0..m |-> CollectStep(g, k, F, Q)]
        BY <1>2
    <2> DEFINE h == [k \in 0..(m + 1) |-> CollectStep(g, k, F, Q)]
    <2>1. \A k \in 0..m : h[k] = g[k]
        <3> SUFFICES ASSUME NEW k \in 0..m PROVE h[k] = g[k]
            OBVIOUS
        <3>1. h[k] = CollectStep(g, k, F, Q)
            OBVIOUS
        <3>2. g[k] = CollectStep(g, k, F, Q)
            OBVIOUS
        <3>3. QED
            BY <3>1, <3>2, Zenon
    <2>2. ASSUME NEW k \in 0..(m + 1)
          PROVE  CollectStep(h, k, F, Q) = CollectStep(g, k, F, Q)
        <3>1. CASE k = 0
            BY <3>1 DEF CollectStep
        <3>2. CASE k # 0
            <4>1. k - 1 \in 0..m
                BY <3>2
            <4>2. h[k - 1] = g[k - 1]
                BY <2>1, <4>1
            <4> HIDE DEF h
            <4>3. QED
                BY <4>2 DEF CollectStep
        <3>3. QED
            BY <3>1, <3>2
    <2>3. h = [k \in 0..(m + 1) |-> CollectStep(h, k, F, Q)]
        BY <2>2
    <2>4. \E f : f = [k \in 0..(m + 1) |-> CollectStep(f, k, F, Q)]
        <3> HIDE DEF h
        <3>1. QED
            BY <2>3, Zenon
    <2>5. QED
        BY <2>4
<1>3. n \in Reached
    <2> HIDE DEF Reached
    <2>1. QED
        BY <1>1, <1>2, NaturalsReached
<1> DEFINE G == CHOOSE g : g = [k \in 0..n |-> CollectStep(g, k, F, Q)]
<1>4. G = [k \in 0..n |-> CollectStep(G, k, F, Q)]
    BY <1>3
<1>5. Collected(F, Q) = G[n]
    BY DEF Collected, CollectStep
<1> HIDE DEF G
<1>6. QED
    BY <1>4, <1>5

(* A collection brings the bytes of everything queued.                     *)
LEMMA CollectedKeeps ==
    ASSUME NEW F, FreeList(F), NEW Q, NEW n \in Nat, n = Len(Q),
           \A i \in 1..n : GoodBlock(Padded(Q[i])),
           \A i \in 1..n : \A x \in Nat : ~(Holds(F, x) /\ InBlock(Padded(Q[i]), x)),
           \A i, j \in 1..n : i # j => Clear(Padded(Q[i]), Padded(Q[j]))
    PROVE  /\ FreeList(Collected(F, Q))
           /\ \A x \in Nat : Holds(Collected(F, Q), x)
                 <=> Holds(F, x) \/ \E i \in 1..n : InBlock(Padded(Q[i]), x)
<1>1. PICK g : g = [k \in 0..n |-> CollectStep(g, k, F, Q)] /\ Collected(F, Q) = g[n]
    BY CollectedIs
<1> DEFINE Collects(k) ==
        /\ FreeList(g[k])
        /\ \A x \in Nat : Holds(g[k], x)
              <=> Holds(F, x) \/ \E i \in 1..k : InBlock(Padded(Q[i]), x)
<1> DEFINE T == {k \in Nat : k <= n => Collects(k)}
<1>2. 0 \in T
    <2>1. g[0] = F
        BY <1>1 DEF CollectStep
    <2>2. Collects(0)
        BY <2>1
    <2> HIDE DEF Collects
    <2>3. QED
        BY <2>2
<1>3. ASSUME NEW k \in Nat, k \in T PROVE k + 1 \in T
    <2> SUFFICES ASSUME k + 1 <= n PROVE Collects(k + 1)
        OBVIOUS
    <2>1. Collects(k)
        BY <1>3
    <2>2. k + 1 \in 0..n /\ k + 1 \in 1..n /\ 1..(k + 1) = 1..k \cup {k + 1}
        OBVIOUS
    <2>b. PICK b : b = Padded(Q[k + 1])
        OBVIOUS
    <2>3. g[k + 1] = Give(g[k], b)
        BY <1>1, <2>2, <2>b DEF CollectStep
    <2>4. GoodBlock(b)
        BY <2>2, <2>b
    <2>5. \A x \in Nat : ~(Holds(g[k], x) /\ InBlock(b, x))
        <3> SUFFICES ASSUME NEW x \in Nat, Holds(g[k], x), InBlock(b, x) PROVE FALSE
            OBVIOUS
        <3>1. ~Holds(F, x)
            BY <2>2, <2>b
        <3>2. PICK i \in 1..k : InBlock(Padded(Q[i]), x)
            BY <2>1, <3>1
        <3>3. i \in 1..n /\ i # k + 1
            OBVIOUS
        <3>4. Clear(Padded(Q[i]), b) /\ GoodBlock(Padded(Q[i]))
            BY <2>2, <2>b, <3>3
        <3>5. QED
            BY <2>4, <3>2, <3>4, ClearOfBytes
    <2>6. /\ FreeList(Give(g[k], b))
          /\ \A x \in Nat : Holds(Give(g[k], b), x) <=> Holds(g[k], x) \/ InBlock(b, x)
        BY <2>1, <2>4, <2>5, GiveKeeps
    <2>7. ASSUME NEW x \in Nat
          PROVE  Holds(g[k + 1], x)
                   <=> Holds(F, x) \/ \E i \in 1..(k + 1) : InBlock(Padded(Q[i]), x)
        <3>1. Holds(g[k + 1], x) <=> Holds(g[k], x) \/ InBlock(b, x)
            BY <2>3, <2>6
        <3>2. Holds(g[k], x) <=> Holds(F, x) \/ \E i \in 1..k : InBlock(Padded(Q[i]), x)
            BY <2>1
        <3>3. QED
            BY <2>2, <2>b, <3>1, <3>2
    <2>8. QED
        BY <2>3, <2>6, <2>7
<1>4. Collects(n)
    <2> HIDE DEF T
    <2>1. n \in T
        BY <1>2, <1>3, NaturalsReached
    <2>2. QED
        BY <2>1 DEF T
<1>5. QED
    BY <1>1, <1>4
Allocations == [offset : Nat, length : Requests]

(* A free list F and allocations A that share the arena between them.      *)
Layout(F, A) ==
    /\ FreeList(F)
    /\ \A b \in A : GoodBlock(Padded(b))
    /\ \A b, c \in A : b # c => Clear(Padded(b), Padded(c))
    /\ \A i \in DOMAIN F : \A b \in A : Clear(F[i], Padded(b))
    /\ \A x \in Nat : x < ArenaBytes =>
           Holds(F, x) \/ \E b \in A : InBlock(Padded(b), x)

(* Partitioned is not inductive: the merge needs the order of the list and *)
(* the gaps in it, and what is queued must be given back once, so it is    *)
(* queued once and not alive.                                              *)
ArenaInv ==
    /\ live \subseteq Allocations
    /\ released \in Seq(Allocations)
    /\ \A i, j \in DOMAIN released : i # j => released[i] # released[j]
    /\ \A i \in DOMAIN released : released[i] \notin live
    /\ region = "none" => Active = {}
    /\ region # "none" => Layout(free, Active)

(* The search finds a block that is large enough whenever there is one.    *)
LEMMA FirstFits ==
    ASSUME NEW F, F \in Seq(Blocks), NEW n \in Nat
    PROVE  /\ FirstFit(F, n) # 0 => /\ FirstFit(F, n) \in DOMAIN F
                                    /\ F[FirstFit(F, n)].length >= n
           /\ (\E i \in DOMAIN F : F[i].length >= n) => FirstFit(F, n) # 0
<1>i. PICK I : I = {i \in 1..Len(F) : F[i].length >= n}
    OBVIOUS
<1>1. DOMAIN F = 1..Len(F) /\ Len(F) \in Nat
    OBVIOUS
<1>2. FirstFit(F, n) = IF I # {} THEN Min(I) ELSE 0
    BY <1>i DEF FirstFit, SelectInSeq
<1>3. I # {} => Min(I) \in I
    <2> SUFFICES ASSUME I # {} PROVE Min(I) \in I
        OBVIOUS
    <2>1. \E k \in I : \A m \in I : k <= m
        <3>1. I \subseteq Nat
            BY <1>i, <1>1
        <3>2. QED
            BY <3>1, LeastMember
    <2>2. QED
        BY <2>1, Zenon DEF Min
<1>4. CASE I = {}
    BY <1>i, <1>1, <1>2, <1>4
<1>5. CASE I # {}
    <2>1. FirstFit(F, n) \in I
        BY <1>2, <1>3, <1>5
    <2>2. QED
        BY <1>i, <1>1, <2>1
<1>6. QED
    BY <1>4, <1>5

(* The block that is carved out is inside a free block and apart from what *)
(* is left, and no byte is lost.                                           *)
LEMMA CarveKeeps ==
    ASSUME NEW F, FreeList(F), NEW k \in DOMAIN F, NEW n \in Nat \ {0}, OnGrid(n),
           F[k].length >= n, NEW b, b = Block(F[k].offset, n)
    PROVE  /\ FreeList(Carve(F, k, n))
           /\ GoodBlock(b)
           /\ \A i \in DOMAIN Carve(F, k, n) : Clear(Carve(F, k, n)[i], b)
           /\ \A i \in DOMAIN Carve(F, k, n) :
                 \E j \in DOMAIN F : /\ F[j].offset <= Carve(F, k, n)[i].offset
                                     /\ End(Carve(F, k, n)[i]) <= End(F[j])
           /\ \A x \in Nat : Holds(F, x) => Holds(Carve(F, k, n), x) \/ InBlock(b, x)
<1>l. PICK l : l = Len(F)
    OBVIOUS
<1>f. PICK f : f = F[k]
    OBVIOUS
<1>1. F \in Seq(Blocks) /\ l \in Nat /\ DOMAIN F = 1..l /\ k \in 1..l
    BY <1>l DEF FreeList
<1>2. \A c \in Blocks : c.offset \in Nat /\ c.length \in Nat /\ End(c) \in Nat
    BY DEF Blocks, End
<1>3. \A i \in 1..l : F[i] \in Blocks /\ GoodBlock(F[i])
    BY <1>1 DEF FreeList
<1>4. \A i, j \in 1..l : i < j => End(F[i]) < F[j].offset
    BY <1>1 DEF FreeList
<1>5. /\ f \in Blocks /\ GoodBlock(f)
      /\ f.offset \in Nat /\ f.length \in Nat /\ End(f) \in Nat
      /\ f.length >= n /\ End(f) = f.offset + f.length /\ End(f) <= ArenaBytes
      /\ OnGrid(f.offset) /\ OnGrid(f.length)
    BY <1>f, <1>1, <1>2, <1>3 DEF GoodBlock, End
<1>6. /\ b \in Blocks /\ b.offset = f.offset /\ b.length = n
      /\ End(b) = f.offset + n
    BY <1>f, <1>5 DEF Block, Blocks, End
<1>7. GoodBlock(b)
    BY <1>5, <1>6, ArenaAssumption DEF GoodBlock
<1>8. ASSUME NEW i \in 1..l, i # k PROVE Clear(F[i], b)
    <2>1. End(F[i]) < f.offset \/ End(f) < F[i].offset
        BY <1>f, <1>1, <1>4, <1>8
    <2>2. End(F[i]) \in Nat /\ F[i].offset \in Nat
        BY <1>2, <1>3
    <2>3. QED
        BY <1>5, <1>6, <2>1, <2>2 DEF Clear
<1>9. CASE f.length > n
    <2>c. PICK c : c = Block(f.offset + n, f.length - n)
        OBVIOUS
    <2>t. PICK t : t = [F EXCEPT ![k] = c]
        OBVIOUS
    <2>1. Carve(F, k, n) = t
        BY <1>f, <1>9, <2>c, <2>t DEF Carve, ReplaceAt
    <2>2. /\ c \in Blocks /\ c.offset = f.offset + n /\ c.length = f.length - n
          /\ End(c) = End(f) /\ c.length > 0
        BY <1>5, <1>9, <2>c DEF Block, Blocks, End
    <2>3. GoodBlock(c)
        <3>1. OnGrid(f.offset + n) /\ OnGrid(f.length - n)
            BY <1>5, GridSum, GridRest
        <3>2. QED
            BY <1>5, <2>2, <3>1 DEF GoodBlock
    <2>4. /\ t \in Seq(Blocks) /\ DOMAIN t = 1..l /\ t[k] = c
          /\ \A i \in 1..l : i # k => t[i] = F[i]
        BY <1>1, <1>l, <2>2, <2>t
    <2>5. FreeList(t)
        <3>1. \A i \in 1..l : GoodBlock(t[i])
            BY <1>3, <2>3, <2>4
        <3>2. ASSUME NEW i \in 1..l, NEW j \in 1..l, i < j
              PROVE  End(t[i]) < t[j].offset
            <4>1. CASE i # k /\ j # k
                BY <1>4, <2>4, <3>2, <4>1
            <4>2. CASE i = k
                <5>1. j # k /\ End(f) < F[j].offset
                    BY <1>f, <1>1, <1>4, <3>2, <4>2
                <5>2. QED
                    BY <2>2, <2>4, <4>2, <5>1
            <4>3. CASE j = k
                <5>1. i # k /\ End(F[i]) < f.offset /\ End(F[i]) \in Nat
                    <6>1. i # k /\ End(F[i]) < f.offset
                        BY <1>f, <1>1, <1>4, <3>2, <4>3
                    <6>2. QED
                        BY <1>2, <1>3, <6>1
                <5>2. QED
                    BY <1>5, <2>2, <2>4, <4>3, <5>1
            <4>4. QED
                BY <4>1, <4>2, <4>3
        <3>3. QED
            BY <2>4, <3>1, <3>2 DEF FreeList
    <2>6. ASSUME NEW i \in 1..l
          PROVE  /\ Clear(t[i], b)
                 /\ F[i].offset <= t[i].offset /\ End(t[i]) <= End(F[i])
        <3>1. CASE i = k
            BY <1>f, <1>5, <1>6, <2>2, <2>4, <3>1 DEF Clear
        <3>2. CASE i # k
            <4>1. F[i].offset \in Nat /\ End(F[i]) \in Nat
                BY <1>2, <1>3
            <4>2. QED
                BY <1>8, <2>4, <3>2, <4>1
        <3>3. QED
            BY <3>1, <3>2
    <2>7. ASSUME NEW x \in Nat, Holds(F, x) PROVE Holds(t, x) \/ InBlock(b, x)
        <3>1. PICK i \in 1..l : InBlock(F[i], x)
            BY <1>1, <2>7 DEF Holds
        <3>2. CASE i # k
            BY <2>4, <3>1, <3>2 DEF Holds
        <3>3. CASE i = k
            <4>1. InBlock(c, x) \/ InBlock(b, x)
                BY <1>f, <1>5, <1>6, <2>2, <3>1, <3>3 DEF InBlock
            <4>2. QED
                BY <1>1, <2>4, <4>1 DEF Holds
        <3>4. QED
            BY <3>2, <3>3
    <2>8. QED
        BY <1>1, <1>7, <2>1, <2>4, <2>5, <2>6, <2>7
<1>10. CASE ~(f.length > n)
    <2>1. f.length = n /\ End(b) = End(f)
        BY <1>5, <1>6, <1>10
    <2>t. PICK t : t = Carve(F, k, n)
        OBVIOUS
    <2>3. /\ t \in Seq(Blocks) /\ DOMAIN t = 1..(l - 1)
          /\ \A i \in 1..(l - 1) : t[i] = IF i < k THEN F[i] ELSE F[i + 1]
        <3>1. t = RemoveAt(F, k)
            BY <1>f, <1>10, <2>t DEF Carve
        <3>2. /\ t \in Seq(Blocks) /\ DOMAIN t = 1..(l - 1)
              /\ \A i \in 1..(k - 1) : t[i] = F[i]
              /\ \A i \in k..(l - 1) : t[i] = F[i + 1]
            BY <1>l, <1>1, <3>1, RemovedAt
        <3>3. QED
            BY <1>1, <3>2
    <2>m. PICK at : at = [i \in 1..(l - 1) |-> IF i < k THEN i ELSE i + 1]
        OBVIOUS
    <2>4. /\ \A i \in 1..(l - 1) : at[i] \in 1..l /\ at[i] # k /\ t[i] = F[at[i]]
          /\ \A i, j \in 1..(l - 1) : i < j => at[i] < at[j]
          /\ \A j \in 1..l : j # k => \E i \in 1..(l - 1) : at[i] = j
        <3>1. ASSUME NEW i \in 1..(l - 1)
              PROVE  /\ at[i] = IF i < k THEN i ELSE i + 1
                     /\ at[i] \in 1..l /\ at[i] # k
            BY <1>1, <2>m
        <3>2. \A i \in 1..(l - 1) : t[i] = F[at[i]]
            BY <2>3, <3>1
        <3>3. \A i, j \in 1..(l - 1) : i < j => at[i] < at[j]
            BY <1>1, <3>1
        <3>4. ASSUME NEW j \in 1..l, j # k
              PROVE  \E i \in 1..(l - 1) : at[i] = j
            <4>1. CASE j < k
                <5>1. j \in 1..(l - 1) /\ at[j] = j
                    BY <1>1, <3>1, <4>1
                <5>2. QED
                    BY <5>1
            <4>2. CASE j > k
                <5>1. j - 1 \in 1..(l - 1) /\ at[j - 1] = j
                    BY <1>1, <3>1, <4>2
                <5>2. QED
                    BY <5>1
            <4>3. QED
                BY <1>1, <3>4, <4>1, <4>2
        <3>5. QED
            BY <3>1, <3>2, <3>3, <3>4
    <2>5. FreeList(t)
        <3>1. \A i \in 1..(l - 1) : GoodBlock(t[i])
            BY <1>3, <2>4
        <3>2. ASSUME NEW i \in 1..(l - 1), NEW j \in 1..(l - 1), i < j
              PROVE  End(t[i]) < t[j].offset
            BY <1>4, <2>4, <3>2
        <3>3. QED
            BY <2>3, <3>1, <3>2 DEF FreeList
    <2>6. ASSUME NEW i \in 1..(l - 1)
          PROVE  /\ Clear(t[i], b)
                 /\ \E j \in 1..l : F[j].offset <= t[i].offset /\ End(t[i]) <= End(F[j])
        <3>1. at[i] \in 1..l /\ at[i] # k /\ t[i] = F[at[i]]
            BY <2>4
        <3>2. F[at[i]].offset \in Nat /\ End(F[at[i]]) \in Nat
            BY <1>2, <1>3, <3>1
        <3>3. QED
            BY <1>8, <3>1, <3>2
    <2>7. ASSUME NEW x \in Nat, Holds(F, x) PROVE Holds(t, x) \/ InBlock(b, x)
        <3>1. PICK j \in 1..l : InBlock(F[j], x)
            BY <1>1, <2>7 DEF Holds
        <3>2. CASE j # k
            <4>1. PICK i \in 1..(l - 1) : at[i] = j
                BY <2>4, <3>2
            <4>2. QED
                BY <2>3, <2>4, <3>1, <4>1 DEF Holds
        <3>3. CASE j = k
            BY <1>f, <1>6, <2>1, <3>1, <3>3 DEF InBlock
        <3>4. QED
            BY <3>2, <3>3
    <2>8. QED
        BY <1>1, <1>7, <2>t, <2>3, <2>5, <2>6, <2>7
<1>11. QED
    BY <1>9, <1>10
(* An allocation moves its block from the list to the allocations.         *)
LEMMA AllocationKeeps ==
    ASSUME NEW F, NEW A, A \subseteq Allocations, Layout(F, A), NEW n \in Requests,
           NEW k \in DOMAIN F, F[k].length >= Align(n), NEW a, a = Block(F[k].offset, n)
    PROVE  /\ a \in Allocations /\ a \notin A
           /\ Layout(Carve(F, k, Align(n)), A \cup {a})
<1>1. /\ n \in Nat \ {0} /\ Align(n) \in Nat \ {0} /\ OnGrid(Align(n))
    BY ArenaAssumption, AlignPads
<1>2. FreeList(F) /\ F[k] \in Blocks /\ F[k].offset \in Nat
    <2>1. FreeList(F) /\ F[k] \in Blocks
        BY DEF Layout, FreeList
    <2>2. QED
        BY <2>1 DEF Blocks
<1>3. a \in Allocations /\ a.offset = F[k].offset /\ a.length = n
    BY <1>2 DEF Block, Allocations
<1>b. PICK b : b = Block(F[k].offset, Align(n))
    OBVIOUS
<1>4. Padded(a) = b
    BY <1>3, <1>b DEF Padded
<1>c. PICK C : C = Carve(F, k, Align(n))
    OBVIOUS
<1>5. /\ FreeList(C)
      /\ GoodBlock(b)
      /\ \A i \in DOMAIN C : Clear(C[i], b)
      /\ \A i \in DOMAIN C : \E j \in DOMAIN F : /\ F[j].offset <= C[i].offset
                                                 /\ End(C[i]) <= End(F[j])
      /\ \A x \in Nat : Holds(F, x) => Holds(C, x) \/ InBlock(b, x)
    BY <1>b, <1>c, <1>1, <1>2, CarveKeeps
<1>6. \A c \in Blocks : c.offset \in Nat /\ c.length \in Nat /\ End(c) \in Nat
    BY DEF Blocks, End
<1>7. ASSUME NEW c \in A PROVE Clear(b, Padded(c)) /\ Clear(Padded(c), b)
    <2>d. PICK d : d = Padded(c)
        OBVIOUS
    <2>1. Clear(F[k], d) /\ GoodBlock(d) /\ d \in Blocks
        BY <2>d DEF Layout, GoodBlock
    <2>2. b.offset = F[k].offset /\ End(b) <= End(F[k]) /\ b \in Blocks
        BY <1>b, <1>1, <1>2, <1>5 DEF Block, End, Blocks, GoodBlock
    <2>3. QED
        BY <1>2, <1>6, <2>d, <2>1, <2>2 DEF Clear
<1>8. a \notin A
    <2> SUFFICES ASSUME a \in A PROVE FALSE
        OBVIOUS
    <2>1. Clear(b, b)
        BY <1>4, <1>7
    <2>2. b \in Blocks /\ b.length > 0
        BY <1>5 DEF GoodBlock
    <2>3. QED
        BY <2>1, <2>2 DEF Clear, End, Blocks
<1>9. ASSUME NEW i \in DOMAIN C, NEW c \in A PROVE Clear(C[i], Padded(c))
    <2>d. PICK d : d = Padded(c)
        OBVIOUS
    <2>1. PICK j \in DOMAIN F : F[j].offset <= C[i].offset /\ End(C[i]) <= End(F[j])
        BY <1>5
    <2>2. Clear(F[j], d) /\ d \in Blocks
        BY <2>d DEF Layout, GoodBlock
    <2>3. F[j] \in Blocks /\ C[i] \in Blocks
        BY <1>2, <1>5 DEF FreeList
    <2>4. Clear(C[i], d)
        BY <1>6, <2>1, <2>2, <2>3 DEF Clear
    <2>5. QED
        BY <2>d, <2>4
<1>10. Layout(C, A \cup {a})
    <2>1. \A c \in A \cup {a} : GoodBlock(Padded(c))
        BY <1>4, <1>5 DEF Layout
    <2>2. \A c, d \in A \cup {a} : c # d => Clear(Padded(c), Padded(d))
        BY <1>4, <1>7 DEF Layout
    <2>3. \A i \in DOMAIN C : \A c \in A \cup {a} : Clear(C[i], Padded(c))
        BY <1>4, <1>5, <1>9
    <2>4. ASSUME NEW x \in Nat, x < ArenaBytes
          PROVE  Holds(C, x) \/ \E c \in A \cup {a} : InBlock(Padded(c), x)
        <3>1. Holds(F, x) \/ \E c \in A : InBlock(Padded(c), x)
            BY <2>4 DEF Layout
        <3>2. QED
            BY <1>4, <1>5, <3>1
    <2>5. QED
        BY <1>5, <2>1, <2>2, <2>3, <2>4 DEF Layout
<1>11. QED
    BY <1>c, <1>3, <1>8, <1>10

(* A new arena is one free block.                                          *)
LEMMA FirstLayout == Layout(<<Block(0, ArenaBytes)>>, {})
<1>b. PICK b : b = Block(0, ArenaBytes)
    OBVIOUS
<1>f. PICK F : F = <<b>>
    OBVIOUS
<1>1. /\ b \in Blocks /\ b.offset = 0 /\ b.length = ArenaBytes
      /\ End(b) = ArenaBytes
    BY <1>b, ArenaAssumption DEF Block, Blocks, End
<1>2. OnGrid(0)
    <2>1. 0 * Alignment = 0
        BY ArenaAssumption
    <2>2. QED
        BY <2>1, MultipleOnGrid
<1>3. GoodBlock(b)
    BY <1>1, <1>2, ArenaAssumption DEF GoodBlock, OnGrid
<1>4. F \in Seq(Blocks) /\ DOMAIN F = {1} /\ F[1] = b
    BY <1>f, <1>1
<1>5. FreeList(F)
    BY <1>3, <1>4 DEF FreeList
<1>6. \A x \in Nat : x < ArenaBytes => Holds(F, x)
    BY <1>1, <1>4 DEF Holds, InBlock
<1>7. QED
    BY <1>b, <1>f, <1>5, <1>6 DEF Layout

(* A collection moves what was queued from the allocations to the list.    *)
LEMMA CollectionKeeps ==
    ASSUME ArenaInv, region # "none"
    PROVE  Layout(Collected(free, released), live)
<1>n. PICK n : n = Len(released)
    OBVIOUS
<1>1. /\ n \in Nat /\ DOMAIN released = 1..n
      /\ \A i \in 1..n : released[i] \in Active
      /\ Active = live \cup {released[i] : i \in 1..n}
    BY <1>n DEF ArenaInv, Active, ToSet
<1>2. Layout(free, Active)
    BY DEF ArenaInv
<1>c. PICK C : C = Collected(free, released)
    OBVIOUS
<1>3. ASSUME NEW b \in Active, NEW x \in Nat
      PROVE  ~(Holds(free, x) /\ InBlock(Padded(b), x))
    <2> SUFFICES ASSUME NEW i \in DOMAIN free, InBlock(free[i], x), InBlock(Padded(b), x)
                 PROVE  FALSE
        BY DEF Holds
    <2>1. GoodBlock(free[i]) /\ GoodBlock(Padded(b)) /\ Clear(free[i], Padded(b))
        BY <1>2 DEF Layout, FreeList
    <2>2. QED
        BY <2>1, ClearOfBytes
<1>4. /\ FreeList(C)
      /\ \A x \in Nat : Holds(C, x)
            <=> Holds(free, x) \/ \E i \in 1..n : InBlock(Padded(released[i]), x)
    <2>1. FreeList(free)
        BY <1>2 DEF Layout
    <2>2. \A i \in 1..n : GoodBlock(Padded(released[i]))
        BY <1>1, <1>2 DEF Layout
    <2>3. \A i \in 1..n : \A x \in Nat : ~(Holds(free, x) /\ InBlock(Padded(released[i]), x))
        BY <1>1, <1>3
    <2>4. ASSUME NEW i \in 1..n, NEW j \in 1..n, i # j
          PROVE  Clear(Padded(released[i]), Padded(released[j]))
        <3>1. released[i] # released[j]
            BY <1>1, <2>4 DEF ArenaInv
        <3>2. QED
            BY <1>1, <1>2, <3>1 DEF Layout
    <2>5. QED
        BY <1>n, <1>c, <1>1, <2>1, <2>2, <2>3, <2>4, CollectedKeeps
<1>5. ASSUME NEW i \in DOMAIN C, NEW b \in live PROVE Clear(C[i], Padded(b))
    <2>1. b \in Active /\ GoodBlock(Padded(b)) /\ GoodBlock(C[i])
        BY <1>1, <1>2, <1>4 DEF Layout, FreeList
    <2>2. ASSUME NEW x \in Nat, InBlock(C[i], x), InBlock(Padded(b), x)
          PROVE  FALSE
        <3>1. Holds(C, x)
            BY <2>2 DEF Holds
        <3>2. PICK j \in 1..n : InBlock(Padded(released[j]), x)
            BY <1>3, <1>4, <2>1, <2>2, <3>1
        <3>3. released[j] # b
            BY <1>1 DEF ArenaInv
        <3>4. Clear(Padded(released[j]), Padded(b)) /\ GoodBlock(Padded(released[j]))
            BY <1>1, <1>2, <2>1, <3>3 DEF Layout
        <3>5. QED
            BY <2>1, <2>2, <3>2, <3>4, ClearOfBytes
    <2>3. QED
        BY <2>1, <2>2, ClearOfBytes
<1>6. ASSUME NEW x \in Nat, x < ArenaBytes
      PROVE  Holds(C, x) \/ \E b \in live : InBlock(Padded(b), x)
    <2>1. Holds(free, x) \/ \E b \in Active : InBlock(Padded(b), x)
        BY <1>2, <1>6 DEF Layout
    <2>2. QED
        BY <1>1, <1>4, <2>1
<1>7. QED
    BY <1>c, <1>1, <1>2, <1>4, <1>5, <1>6 DEF Layout

(* ArenaInv is inductive.                                                  *)
LEMMA ArenaInvInit == ArenaInit => ArenaInv
BY DEF ArenaInit, ArenaInv, Active, ToSet

LEMMA ArenaInvStep == ArenaInv /\ [ArenaNext]_arenaVars => ArenaInv'
<1> SUFFICES ASSUME ArenaInv, [ArenaNext]_arenaVars PROVE ArenaInv'
    OBVIOUS
<1>1. Layout(Searched, Active)
    BY FirstLayout DEF ArenaInv, Searched
<1>2. Active \subseteq Allocations
    BY DEF ArenaInv, Active, ToSet
<1>3. ASSUME NEW n \in Requests, Allocate(n) PROVE ArenaInv'
    <2>f. PICK F : F = Searched
        OBVIOUS
    <2>k. PICK k : k = FirstFit(F, Align(n))
        OBVIOUS
    <2>a. PICK a : a = Block(F[k].offset, n)
        OBVIOUS
    <2>1. /\ k # 0 /\ region' = "open" /\ free' = Carve(F, k, Align(n))
          /\ live' = live \cup {a} /\ released' = released
        BY <1>3, <2>f, <2>k, <2>a DEF Allocate
    <2>2. k \in DOMAIN F /\ F[k].length >= Align(n)
        <3>1. n \in Nat \ {0}
            BY ArenaAssumption
        <3>2. Align(n) \in Nat /\ F \in Seq(Blocks)
            BY <1>1, <2>f, <3>1, AlignPads DEF Layout, FreeList
        <3>3. QED
            BY <2>k, <2>1, <3>2, FirstFits
    <2>3. /\ a \in Allocations /\ a \notin Active
          /\ Layout(free', Active \cup {a})
        BY <1>1, <1>2, <2>f, <2>a, <2>1, <2>2, AllocationKeeps
    <2>4. Active' = Active \cup {a}
        BY <2>1 DEF Active
    <2>5. \A i \in DOMAIN released : released[i] # a
        BY <2>3 DEF Active, ToSet
    <2>6. QED
        BY <2>1, <2>3, <2>4, <2>5 DEF ArenaInv
<1>4. ASSUME NEW n \in Requests, Exhausted(n) PROVE ArenaInv'
    <2>1. /\ region' = "open" /\ free' = Searched
          /\ live' = live /\ released' = released
        BY <1>4 DEF Exhausted
    <2>2. Active' = Active
        BY <2>1 DEF Active
    <2>3. QED
        BY <1>1, <2>1, <2>2 DEF ArenaInv
<1>5. ASSUME NEW b \in live, StorageReleased(b) PROVE ArenaInv'
    <2>1. /\ live' = live \ {b} /\ released' = Append(released, b)
          /\ region' = region /\ free' = free
        BY <1>5 DEF StorageReleased
    <2>n. PICK n : n = Len(released)
        OBVIOUS
    <2>2. /\ released \in Seq(Allocations) /\ n \in Nat /\ DOMAIN released = 1..n
          /\ b \in Allocations
        BY <2>n DEF ArenaInv
    <2>3. /\ released' \in Seq(Allocations) /\ DOMAIN released' = 1..(n + 1)
          /\ released'[n + 1] = b
          /\ \A i \in 1..n : released'[i] = released[i]
        BY <2>n, <2>1, <2>2
    <2>4. 1..(n + 1) = 1..n \cup {n + 1} /\ n + 1 \notin 1..n
        BY <2>2
    <2>5. \A i \in 1..n : released[i] # b /\ released[i] \notin live
        BY <2>2 DEF ArenaInv
    <2>6. Active' = Active
        BY <2>1, <2>2, <2>3, <2>4 DEF Active, ToSet
    <2>7. \A i, j \in DOMAIN released' : i # j => released'[i] # released'[j]
        <3>1. \A i, j \in 1..n : i # j => released[i] # released[j]
            BY <2>2 DEF ArenaInv
        <3>2. QED
            BY <2>3, <2>4, <2>5, <3>1
    <2>8. \A i \in DOMAIN released' : released'[i] \notin live'
        BY <2>1, <2>3, <2>4, <2>5
    <2>9. QED
        BY <2>1, <2>3, <2>6, <2>7, <2>8 DEF ArenaInv
<1>6. CASE CollectArena
    <2>1. /\ free' = Collected(free, released) /\ released' = <<>> /\ live' = live
          /\ region' = IF closed /\ live = {} THEN "closed" ELSE region
          /\ released # <<>>
        BY <1>6, Zenon DEF CollectArena
    <2>2. region # "none"
        <3>1. DOMAIN released # {}
            BY <2>1 DEF ArenaInv
        <3>2. QED
            BY <3>1 DEF ArenaInv, Active, ToSet
    <2>3. Layout(free', live')
        BY <2>1, <2>2, CollectionKeeps
    <2>4. Active' = live'
        BY <2>1 DEF Active, ToSet
    <2>5. region' # "none"
        BY <2>1, <2>2
    <2>6. QED
        BY <2>1, <2>3, <2>4, <2>5 DEF ArenaInv
<1>7. CASE CloseFlag
    BY <1>7 DEF CloseFlag, ArenaInv, Active
<1>8. CASE CloseArena
    <2>1. /\ region = "open" /\ region' = "closed"
          /\ free' = free /\ live' = live /\ released' = released
        BY <1>8 DEF CloseArena
    <2>2. Active' = Active
        BY <2>1 DEF Active
    <2>3. QED
        BY <2>1, <2>2 DEF ArenaInv
<1>9. CASE UNCHANGED arenaVars
    BY <1>9 DEF arenaVars, ArenaInv, Active
<1>10. QED
    BY <1>3, <1>4, <1>5, <1>6, <1>7, <1>8, <1>9, Zenon DEF ArenaNext

LEMMA ArenaInvHolds == ArenaSpec => []ArenaInv
BY ArenaInvInit, ArenaInvStep, PTL DEF ArenaSpec

(* Every byte of the arena is in one free block or one allocation, for     *)
(* every size, alignment and set of requests, after any history of         *)
(* allocations, releases and collections (BufferManager._allocate_arena,   *)
(* _release_arena, _collect).                                              *)
THEOREM EveryByteHasOneOwner == ArenaSpec => []Partitioned
<1>1. ArenaInv => Partitioned
    <2> SUFFICES ASSUME ArenaInv, region # "none" PROVE Partitioned
        BY DEF Partitioned
    <2>1. Layout(free, Active) /\ Active \subseteq Allocations
        BY DEF ArenaInv, Active, ToSet
    <2>2. \A i \in DOMAIN free : GoodBlock(free[i])
        BY <2>1 DEF Layout, FreeList
    <2>3. \A b \in Active : GoodBlock(Padded(b))
        BY <2>1 DEF Layout
    <2>4. ASSUME NEW b \in Active
          PROVE  /\ b.offset \in 0 .. ArenaBytes - 1
                 /\ b.offset % Alignment = 0
                 /\ b.length \in 1 .. ArenaBytes
        <3>1. b.offset \in Nat /\ b.length \in Nat \ {0}
            BY <2>1, ArenaAssumption DEF Allocations
        <3>2. Align(b.length) \in Nat /\ Align(b.length) >= b.length
            BY <3>1, AlignPads
        <3>3. GoodBlock(Block(b.offset, Align(b.length)))
            BY <2>3 DEF Padded
        <3>4. /\ OnGrid(b.offset) /\ b.offset + Align(b.length) <= ArenaBytes
            BY <3>3 DEF GoodBlock, Block, End
        <3>5. QED
            BY <3>1, <3>2, <3>4, ArenaAssumption DEF OnGrid
    <2>5. ASSUME NEW i \in DOMAIN free
          PROVE  /\ free[i].offset \in 0 .. ArenaBytes - 1
                 /\ free[i].offset % Alignment = 0
                 /\ free[i].length \in 1 .. ArenaBytes
                 /\ free[i].length % Alignment = 0
        <3>1. GoodBlock(free[i]) /\ free[i].offset \in Nat /\ free[i].length \in Nat
            BY <2>2 DEF GoodBlock, Blocks
        <3>2. QED
            BY <3>1, ArenaAssumption DEF GoodBlock, End, OnGrid
    <2>6. Aligned
        BY <2>4, <2>5 DEF Aligned, ToSet
    <2>7. \A c \in Blocks, x \in Nat : InBlock(c, x) => x \in BlockBytes(c)
        BY DEF Blocks, InBlock, BlockBytes, End
    <2>8. ASSUME NEW x \in 0 .. ArenaBytes - 1
          PROVE  \/ \E b \in ToSet(free) : x \in BlockBytes(b)
                 \/ \E b \in Active : x \in BlockBytes(Padded(b))
        <3>1. x \in Nat /\ x < ArenaBytes
            BY ArenaAssumption
        <3>2. CASE Holds(free, x)
            <4>1. PICK i \in DOMAIN free : InBlock(free[i], x)
                BY <3>2 DEF Holds
            <4>2. x \in BlockBytes(free[i])
                BY <2>2, <2>7, <3>1, <4>1 DEF GoodBlock
            <4>3. QED
                BY <4>2 DEF ToSet
        <3>3. CASE \E b \in Active : InBlock(Padded(b), x)
            BY <2>3, <2>7, <3>1, <3>3 DEF GoodBlock
        <3>4. QED
            BY <2>1, <3>1, <3>2, <3>3 DEF Layout
    <2>9. ASSUME NEW i \in DOMAIN free, NEW j \in DOMAIN free, i # j
          PROVE  Apart(free[i], free[j])
        <3>1. free[i] \in Blocks /\ free[j] \in Blocks /\ i \in Int /\ j \in Int
            BY <2>1 DEF Layout, FreeList
        <3>2. End(free[i]) < free[j].offset \/ End(free[j]) < free[i].offset
            BY <2>1, <2>9, <3>1 DEF Layout, FreeList
        <3>3. Clear(free[i], free[j])
            BY <3>1, <3>2 DEF Clear, Blocks, End
        <3>4. QED
            BY <2>2, <3>3, ClearOfBytes
    <2>10. ASSUME NEW b \in Active, NEW c \in Active, b # c
           PROVE  Apart(Padded(b), Padded(c))
        BY <2>1, <2>3, <2>10, ClearOfBytes DEF Layout
    <2>11. ASSUME NEW f \in ToSet(free), NEW b \in Active
           PROVE  Apart(f, Padded(b))
        <3>1. PICK i \in DOMAIN free : f = free[i]
            BY DEF ToSet
        <3>2. Clear(free[i], Padded(b))
            BY <2>1 DEF Layout
        <3>3. QED
            BY <2>2, <2>3, <3>1, <3>2, ClearOfBytes
    <2>12. QED
        BY <2>6, <2>8, <2>9, <2>10, <2>11 DEF Partitioned
<1>2. QED
    BY <1>1, ArenaInvHolds, PTL

(* MemoryError is raised only when no run of free bytes is long enough,    *)
(* because the free list has no two blocks that touch                      *)
(* (BufferManager._allocate_arena, _release_arena).                        *)
THEOREM NoFalseExhaustion == ArenaSpec => []FitsIfItCould
<1>1. ArenaInv => FitsIfItCould
    <2> SUFFICES ASSUME ArenaInv, region = "open",
                        NEW n \in Requests, NEW o \in 0 .. ArenaBytes,
                        o + Align(n) <= ArenaBytes,
                        \A b \in Active : Apart(Padded(b), Block(o, Align(n)))
                 PROVE  FirstFit(free, Align(n)) # 0
        BY DEF FitsIfItCould
    <2>a. PICK m : m = Align(n)
        OBVIOUS
    <2>1. m \in Nat /\ m > 0 /\ o \in Nat /\ o + m <= ArenaBytes
        <3>1. n \in Nat \ {0}
            BY ArenaAssumption
        <3>2. QED
            BY <2>a, <3>1, AlignPads, ArenaAssumption
    <2>2. Layout(free, Active) /\ FreeList(free)
        BY DEF ArenaInv, Layout
    <2>3. ASSUME NEW x \in Nat, o <= x, x < o + m PROVE Holds(free, x)
        <3>1. ASSUME NEW b \in Active, InBlock(Padded(b), x) PROVE FALSE
            <4>d. PICK d : d = Padded(b)
                OBVIOUS
            <4>1. d.offset \in Nat /\ d.length \in Nat
                BY <2>2, <4>d DEF Layout, GoodBlock, Blocks
            <4>2. x \in BlockBytes(d)
                BY <3>1, <4>d, <4>1 DEF InBlock, BlockBytes, End
            <4>3. x \in BlockBytes(Block(o, m))
                BY <2>1, <2>3 DEF BlockBytes, Block, End
            <4>4. QED
                BY <2>a, <4>d, <4>2, <4>3 DEF Apart
        <3>2. x < ArenaBytes
            BY <2>1, <2>3, ArenaAssumption
        <3>3. QED
            BY <2>2, <3>1, <3>2 DEF Layout
    <2>4. PICK i \in DOMAIN free : InBlock(free[i], o)
        BY <2>1, <2>3 DEF Holds
    <2>5. \A j \in DOMAIN free : /\ free[j].offset \in Nat /\ free[j].length \in Nat
                                 /\ End(free[j]) = free[j].offset + free[j].length
        <3>1. \A j \in DOMAIN free : free[j] \in Blocks
            BY <2>2 DEF FreeList
        <3>2. QED
            BY <3>1 DEF Blocks, End
    <2>6. End(free[i]) >= o + m
        <3> SUFFICES ASSUME End(free[i]) < o + m PROVE FALSE
            BY <2>1, <2>5
        <3>e. PICK e \in Nat : e = End(free[i])
            BY <2>5
        <3>1. o < e /\ free[i].offset <= o
            BY <2>4, <3>e DEF InBlock
        <3>2. PICK j \in DOMAIN free : InBlock(free[j], e)
            BY <2>1, <2>3, <3>e, <3>1 DEF Holds
        <3>3. i \in Nat /\ j \in Nat
            BY <2>2 DEF FreeList
        <3>4. CASE j = i
            BY <3>e, <3>2, <3>4 DEF InBlock
        <3>5. CASE i < j
            <4>1. e < free[j].offset
                BY <2>2, <3>e, <3>5 DEF FreeList
            <4>2. QED
                BY <2>5, <3>2, <4>1 DEF InBlock
        <3>6. CASE j < i
            <4>1. End(free[j]) < free[i].offset
                BY <2>2, <3>6 DEF FreeList
            <4>2. QED
                BY <2>1, <2>5, <3>1, <3>2, <4>1 DEF InBlock
        <3>7. QED
            BY <3>3, <3>4, <3>5, <3>6
    <2>7. free[i].length >= m
        BY <2>1, <2>4, <2>5, <2>6 DEF InBlock
    <2>8. QED
        BY <2>a, <2>1, <2>2, <2>7, FirstFits DEF FreeList
<1>2. QED
    BY <1>1, ArenaInvHolds, PTL

-----------------------------------------------------------------------------
(* The descriptors of control datagrams.                                   *)

(* One entry of a batch, as a step of a recursion.                         *)
TakeStep(g, k, entries, fds, raising) ==
    IF k = 0 THEN Untaken(fds)
    ELSE TakeEntry(g[k - 1], k, entries, fds, raising)

(* The loop of _serve as a recursion that has a solution.                  *)
LEMMA TakeEntriesIs ==
    ASSUME NEW E, NEW F, NEW R, NEW n \in Nat, Len(E) = n
    PROVE  \E g : /\ g = [k \in 0..n |-> TakeStep(g, k, E, F, R)]
                  /\ TakeEntries(E, F, R) = g[n]
<1> DEFINE Reached == {m \in Nat : \E g : g = [k \in 0..m |-> TakeStep(g, k, E, F, R)]}
<1>1. 0 \in Reached
    <2> DEFINE g == [k \in 0..0 |-> Untaken(F)]
    <2>1. g = [k \in 0..0 |-> TakeStep(g, k, E, F, R)]
        BY DEF TakeStep
    <2>2. QED
        BY <2>1
<1>2. ASSUME NEW m \in Nat, m \in Reached PROVE m + 1 \in Reached
    <2> PICK g : g = [k \in 0..m |-> TakeStep(g, k, E, F, R)]
        BY <1>2
    <2> DEFINE h == [k \in 0..(m + 1) |-> TakeStep(g, k, E, F, R)]
    <2>1. \A k \in 0..m : h[k] = g[k]
        <3> SUFFICES ASSUME NEW k \in 0..m PROVE h[k] = g[k]
            OBVIOUS
        <3>1. h[k] = TakeStep(g, k, E, F, R)
            OBVIOUS
        <3>2. g[k] = TakeStep(g, k, E, F, R)
            OBVIOUS
        <3>3. QED
            BY <3>1, <3>2, Zenon
    <2>2. ASSUME NEW k \in 0..(m + 1)
          PROVE  TakeStep(h, k, E, F, R) = TakeStep(g, k, E, F, R)
        <3>1. CASE k = 0
            BY <3>1 DEF TakeStep
        <3>2. CASE k # 0
            <4>1. k - 1 \in 0..m
                BY <3>2
            <4>2. h[k - 1] = g[k - 1]
                BY <2>1, <4>1
            <4> HIDE DEF h
            <4>3. QED
                BY <4>2 DEF TakeStep
        <3>3. QED
            BY <3>1, <3>2
    <2>3. h = [k \in 0..(m + 1) |-> TakeStep(h, k, E, F, R)]
        BY <2>2
    <2>4. \E f : f = [k \in 0..(m + 1) |-> TakeStep(f, k, E, F, R)]
        <3> HIDE DEF h
        <3>1. QED
            BY <2>3, Zenon
    <2>5. QED
        BY <2>4
<1>3. n \in Reached
    <2> HIDE DEF Reached
    <2>1. QED
        BY <1>1, <1>2, NaturalsReached
<1> DEFINE G == CHOOSE g : g = [k \in 0..n |-> TakeStep(g, k, E, F, R)]
<1>4. G = [k \in 0..n |-> TakeStep(G, k, E, F, R)]
    BY <1>3
<1>5. TakeEntries(E, F, R) = G[n]
    BY DEF TakeEntries, TakeStep
<1> HIDE DEF G
<1>6. QED
    BY <1>4, <1>5

(* The MAP entries among the first k.                                      *)
Maps(E, k) == {h \in 1..k : E[h].kind = "MAP"}

(* What the loop has done: the first descriptors are closed once and       *)
(* crossed out; after an entry that raised, all but the last of them are.  *)
Serving(a, k, E, F, R) ==
    /\ a = [next |-> a.next, failed |-> a.failed, crossed |-> a.crossed, closes |-> a.closes]
    /\ a.failed \in BOOLEAN
    /\ a.next \in 1 .. Len(F) + 1
    /\ a.closes \in [ToSet(F) -> 0..1]
    /\ \A j \in DOMAIN F : a.closes[F[j]] = IF j < a.next THEN 1 ELSE 0
    /\ ~a.failed =>
         /\ a.next = Cardinality(Maps(E, k)) + 1
         /\ \A j \in DOMAIN F : F[j] \in a.crossed <=> j < a.next
    /\ a.failed =>
         \/ \A j \in DOMAIN F : F[j] \in a.crossed <=> j < a.next
         \/ /\ \A j \in DOMAIN F : F[j] \in a.crossed <=> j < a.next - 1
            /\ \E i \in R : E[i].kind = "MAP" /\ a.next - 1 = Cardinality(Maps(E, i))

(* The number of MAP entries grows by one with each of them.               *)
LEMMA MapsGrow ==
    ASSUME NEW E, NEW k \in Nat
    PROVE  /\ Cardinality(Maps(E, k)) \in Nat
           /\ Maps(E, 0) = {} /\ Cardinality(Maps(E, 0)) = 0
           /\ E[k + 1].kind = "MAP" => Cardinality(Maps(E, k + 1)) = Cardinality(Maps(E, k)) + 1
           /\ E[k + 1].kind # "MAP" => Cardinality(Maps(E, k + 1)) = Cardinality(Maps(E, k))
           /\ \A m \in Nat : k <= m => Cardinality(Maps(E, k)) <= Cardinality(Maps(E, m))
<1>1. \A m \in Nat : IsFiniteSet(Maps(E, m)) /\ Cardinality(Maps(E, m)) \in Nat
    <2> SUFFICES ASSUME NEW m \in Nat PROVE IsFiniteSet(Maps(E, m)) /\ Cardinality(Maps(E, m)) \in Nat
        OBVIOUS
    <2>1. IsFiniteSet(1..m)
        BY FS_Interval
    <2>2. QED
        BY <2>1, FS_Subset, FS_CardinalityType DEF Maps
<1>2. Maps(E, 0) = {} /\ Cardinality(Maps(E, 0)) = 0
    BY FS_EmptySet DEF Maps
<1>3. E[k + 1].kind = "MAP" => Maps(E, k + 1) = Maps(E, k) \cup {k + 1} /\ k + 1 \notin Maps(E, k)
    BY DEF Maps
<1>4. E[k + 1].kind # "MAP" => Maps(E, k + 1) = Maps(E, k)
    BY DEF Maps
<1>5. \A m \in Nat : k <= m => Maps(E, k) \subseteq Maps(E, m)
    BY DEF Maps
<1>6. \A m \in Nat : k <= m => Cardinality(Maps(E, k)) <= Cardinality(Maps(E, m))
    BY <1>1, <1>5, FS_Subset
<1>7. E[k + 1].kind = "MAP" => Cardinality(Maps(E, k + 1)) = Cardinality(Maps(E, k)) + 1
    BY <1>1, <1>3, FS_AddElement
<1>8. QED
    BY <1>1, <1>2, <1>4, <1>6, <1>7

(* An entry is added, retired or raises, and descriptors stay accounted.   *)
LEMMA EntryTaken ==
    ASSUME NEW E, NEW F, NEW R, NEW a, NEW k \in Nat, Len(F) \in Nat,
           NEW S, F \in Seq(S), \A i, j \in DOMAIN F : F[i] = F[j] => i = j,
           E[k + 1].kind \in {"MAP", "RETIRE"},
           Cardinality(Maps(E, k + 1)) <= Len(F),
           Serving(a, k, E, F, R)
    PROVE  Serving(TakeEntry(a, k + 1, E, F, R), k + 1, E, F, R)
<1> DEFINE b == TakeEntry(a, k + 1, E, F, R)
<1> SUFFICES Serving(b, k + 1, E, F, R)
    OBVIOUS
<1>1. CASE a.failed
    <2>1. b = a
        BY <1>1 DEF TakeEntry
    <2>2. QED
        BY <1>1, <2>1 DEF Serving
<1>2. CASE ~a.failed /\ E[k + 1].kind = "RETIRE"
    <2>1. b = [a EXCEPT !.failed = k + 1 \in R]
        BY <1>2 DEF TakeEntry
    <2>2. /\ b = [next |-> a.next, failed |-> (k + 1 \in R), crossed |-> a.crossed, closes |-> a.closes]
        BY <2>1 DEF Serving
    <2>3. Cardinality(Maps(E, k + 1)) = Cardinality(Maps(E, k))
        BY <1>2, MapsGrow
    <2> HIDE DEF b
    <2>4. QED
        BY <1>2, <2>2, <2>3 DEF Serving
<1>3. CASE ~a.failed /\ E[k + 1].kind = "MAP"
    <2>1. /\ Cardinality(Maps(E, k)) \in Nat /\ k + 1 \in Nat
          /\ Cardinality(Maps(E, k + 1)) = Cardinality(Maps(E, k)) + 1
        BY <1>3, MapsGrow
    <2>2. /\ a.next = Cardinality(Maps(E, k + 1)) /\ a.next \in 1..Len(F)
          /\ a.next \in DOMAIN F
        BY <1>3, <2>1 DEF Serving
    <2> DEFINE fd == F[a.next]
    <2>3. b = [a EXCEPT !.next = @ + 1, !.closes[fd] = @ + 1, !.failed = k + 1 \in R,
                        !.crossed = IF k + 1 \in R THEN @ ELSE @ \cup {fd}]
        BY <1>3 DEF TakeEntry
    <2>4. b = [next |-> a.next + 1, failed |-> (k + 1 \in R),
               crossed |-> IF k + 1 \in R THEN a.crossed ELSE a.crossed \cup {fd},
               closes |-> [a.closes EXCEPT ![fd] = @ + 1]]
        BY <2>3 DEF Serving
    <2>5. fd \in ToSet(F) /\ a.closes \in [ToSet(F) -> 0..1] /\ a.closes[fd] = 0
        BY <2>2 DEF Serving, ToSet
    <2> DEFINE c == [a.closes EXCEPT ![fd] = @ + 1]
    <2>6. c \in [ToSet(F) -> 0..1]
        BY <2>5
    <2>7. \A j \in DOMAIN F : F[j] \in ToSet(F)
        BY DEF ToSet
    <2>8. \A j \in DOMAIN F : c[F[j]] = IF j < a.next + 1 THEN 1 ELSE 0
        <3> SUFFICES ASSUME NEW j \in DOMAIN F PROVE c[F[j]] = IF j < a.next + 1 THEN 1 ELSE 0
            OBVIOUS
        <3>1. DOMAIN F = 1..Len(F) /\ j \in Nat /\ a.next \in Nat
            BY <2>2
        <3>2. CASE j = a.next
            BY <2>5, <3>1, <3>2
        <3>3. CASE j # a.next
            <4>1. F[j] # fd
                BY <2>2, <3>3
            <4>2. c[F[j]] = a.closes[F[j]]
                BY <2>5, <2>7, <4>1
            <4>3. a.closes[F[j]] = IF j < a.next THEN 1 ELSE 0
                BY DEF Serving
            <4>4. QED
                BY <3>1, <3>3, <4>2, <4>3
        <3>4. QED
            BY <3>2, <3>3
    <2>9. \A j \in DOMAIN F : F[j] \in a.crossed <=> j < a.next
        BY <1>3 DEF Serving
    <2>10. \A j \in DOMAIN F : F[j] \in a.crossed \cup {fd} <=> j < a.next + 1
        <3> SUFFICES ASSUME NEW j \in DOMAIN F
                     PROVE  F[j] \in a.crossed \cup {fd} <=> j < a.next + 1
            OBVIOUS
        <3>1. DOMAIN F = 1..Len(F) /\ j \in Nat /\ a.next \in Nat
            BY <2>2
        <3>2. F[j] = fd <=> j = a.next
            BY <2>2
        <3>3. QED
            BY <2>9, <3>1, <3>2
    <2> HIDE DEF b, c, fd
    <2>f. /\ b.next = a.next + 1
          /\ b.failed <=> k + 1 \in R
          /\ b.crossed = IF k + 1 \in R THEN a.crossed ELSE a.crossed \cup {fd}
        BY <2>4
    <2>11. /\ b = [next |-> b.next, failed |-> b.failed, crossed |-> b.crossed, closes |-> b.closes]
           /\ b.failed \in BOOLEAN /\ b.next \in 1..Len(F) + 1 /\ b.closes \in [ToSet(F) -> 0..1]
           /\ \A j \in DOMAIN F : b.closes[F[j]] = IF j < b.next THEN 1 ELSE 0
        BY <2>2, <2>4, <2>6, <2>8 DEF c
    <2>12. CASE k + 1 \in R
        <3>1. /\ b.failed
              /\ \A j \in DOMAIN F : F[j] \in b.crossed <=> j < b.next - 1
              /\ b.next - 1 = Cardinality(Maps(E, k + 1))
            BY <2>2, <2>f, <2>9, <2>12
        <3>2. QED
            BY <1>3, <2>11, <2>12, <3>1 DEF Serving
    <2>13. CASE k + 1 \notin R
        <3>1. /\ ~b.failed
              /\ \A j \in DOMAIN F : F[j] \in b.crossed <=> j < b.next
              /\ b.next = Cardinality(Maps(E, k + 1)) + 1
            BY <2>2, <2>f, <2>10, <2>13
        <3>2. QED
            BY <2>11, <3>1 DEF Serving
    <2>14. QED
        BY <2>12, <2>13
<1>4. QED
    BY <1>1, <1>2, <1>3 DEF Serving

(* The whole batch, which has a descriptor for each of its MAP entries.    *)
LEMMA EntriesTaken ==
    ASSUME NEW E, NEW F, NEW R, NEW n \in Nat, Len(E) = n,
           NEW S, F \in Seq(S), \A i, j \in DOMAIN F : F[i] = F[j] => i = j,
           \A i \in 1..n : E[i].kind \in {"MAP", "RETIRE"},
           Cardinality(Maps(E, n)) = Len(F)
    PROVE  Serving(TakeEntries(E, F, R), n, E, F, R)
<1>1. PICK g : /\ g = [k \in 0..n |-> TakeStep(g, k, E, F, R)]
               /\ TakeEntries(E, F, R) = g[n]
    BY TakeEntriesIs
<1> DEFINE T == {k \in Nat : k <= n => Serving(g[k], k, E, F, R)}
<1>0. Len(F) \in Nat /\ DOMAIN F = 1..Len(F)
    OBVIOUS
<1>2. 0 \in T
    <2>1. g[0] = [next |-> 1, failed |-> FALSE, crossed |-> {}, closes |-> [fd \in ToSet(F) |-> 0]]
        BY <1>1 DEF TakeStep, Untaken, ToSet
    <2>2. Cardinality(Maps(E, 0)) = 0
        BY MapsGrow
    <2>3. \A j \in DOMAIN F : F[j] \in ToSet(F)
        BY DEF ToSet
    <2>4. Serving(g[0], 0, E, F, R)
        BY <1>0, <2>1, <2>2, <2>3 DEF Serving
    <2>5. QED
        BY <2>4
<1>3. ASSUME NEW k \in Nat, k \in T PROVE k + 1 \in T
    <2> SUFFICES ASSUME k + 1 <= n PROVE Serving(g[k + 1], k + 1, E, F, R)
        OBVIOUS
    <2>1. Serving(g[k], k, E, F, R)
        BY <1>3
    <2>2. k + 1 \in 0..n /\ k + 1 \in 1..n /\ k + 1 \in Nat
        OBVIOUS
    <2>3. g[k + 1] = TakeEntry(g[k], k + 1, E, F, R)
        BY <1>1, <2>2 DEF TakeStep
    <2>4. Cardinality(Maps(E, k + 1)) <= Len(F)
        BY <2>2, MapsGrow
    <2>5. QED
        BY <1>0, <2>1, <2>2, <2>3, <2>4, EntryTaken
<1>4. n \in T
    <2> HIDE DEF T
    <2>1. QED
        BY <1>2, <1>3, NaturalsReached
<1>5. QED
    BY <1>1, <1>4

(* At most one ancillary message: its descriptors.                         *)
LEMMA OneMessage ==
    ASSUME NEW A, NEW M, A \in Seq(M), Len(A) <= 1
    PROVE  FlattenSeq(A) = IF Len(A) = 0 THEN <<>> ELSE A[1]
<1>1. CASE Len(A) = 0
    BY <1>1 DEF FlattenSeq
<1>2. CASE Len(A) = 1
    <2> DEFINE P(f) == f = [i \in 1..1 |-> IF i = 1 THEN A[i] ELSE f[i - 1] \o A[i]]
    <2>1. P([i \in 1..1 |-> A[1]])
        OBVIOUS
    <2> DEFINE G == CHOOSE f : P(f)
    <2>2. P(G)
        BY <2>1
    <2>3. G[1] = A[1]
        BY <2>2
    <2>4. FlattenSeq(A) = G[1]
        BY <1>2 DEF FlattenSeq
    <2>5. QED
        BY <1>2, <2>3, <2>4
<1>3. Len(A) = 0 \/ Len(A) = 1
    <2>1. PICK m \in Nat : m = Len(A)
        OBVIOUS
    <2>2. m <= 1
        BY <2>1
    <2>3. m = 0 \/ m = 1
        BY <2>2
    <2>4. QED
        BY <2>1, <2>3
<1>4. QED
    BY <1>1, <1>2, <1>3

(* What recvmsg hands over: at most one control message, whose descriptors *)
(* are different, and a packet that was parsed into fields.                *)
Datagram(d, Entry) ==
    /\ d.ancillary \in Seq(Seq(Nat)) /\ Deliverable(d)
    /\ \A m \in DOMAIN d.ancillary :
         \A i, j \in DOMAIN d.ancillary[m] :
             d.ancillary[m][i] = d.ancillary[m][j] => i = j
    /\ d.truncated \in BOOLEAN
    /\ d.packet.kind = "FD_TRANSFER" => d.packet.payload.entries \in Seq(Entry)

(* A receive that succeeds returns all descriptors, one that fails has     *)
(* closed them all.                                                        *)
LEMMA ReceivedOnes ==
    ASSUME NEW d, NEW Entry, Datagram(d, Entry)
    PROVE  ReceivedAccounted(d)
<1> DEFINE A == d.ancillary
           got == recvmsg_strict(d)
           all == ToSet(FlattenSeq(A))
           x == _extract_fds(A)
<1> SUFFICES /\ got.ok => ToSet(got.fds) = all /\ got.closed = {}
             /\ ~got.ok => got.closed = all
    BY DEF ReceivedAccounted
<1>0. Len(A) <= 1 /\ ~(Len(A) > 1)
    BY DEF Datagram, Deliverable
<1>1. /\ x.ok => x.fds = FlattenSeq(A) /\ x.closed = {}
      /\ ~x.ok => x.closed = all
    BY <1>0 DEF _extract_fds
<1>2. \/ ~x.ok /\ got = [ok |-> FALSE, fds |-> <<>>, closed |-> x.closed]
      \/ x.ok /\ got = [ok |-> TRUE, packet |-> d.packet, fds |-> x.fds, closed |-> {}]
      \/ x.ok /\ got = [ok |-> FALSE, fds |-> <<>>, closed |-> ToSet(x.fds)]
    <2> HIDE DEF x
    <2>1. QED
        BY DEF recvmsg_strict, x
<1>3. QED
    <2> HIDE DEF x, got, all, A
    <2>1. QED
        BY <1>1, <1>2 DEF all

(* A datagram with a batch that was accepted has a descriptor for each of  *)
(* the MAP entries of the batch.                                           *)
LEMMA AcceptedBatch ==
    ASSUME NEW d, NEW Entry, Datagram(d, Entry),
           recvmsg_strict(d).ok, d.packet.kind = "FD_TRANSFER"
    PROVE  LET got == recvmsg_strict(d)
               E == d.packet.payload.entries
           IN  /\ got.packet = d.packet
               /\ got.fds \in Seq(Nat)
               /\ \A i, j \in DOMAIN got.fds : got.fds[i] = got.fds[j] => i = j
               /\ Cardinality(Maps(E, Len(E))) = Len(got.fds)
               /\ \A i \in 1..Len(E) : E[i].kind \in {"MAP", "RETIRE"}
               /\ decode_fd_batch(d.packet) =
                    [transfer_id |-> d.packet.payload.transfer_id,
                     generation |-> d.packet.payload.generation, entries |-> E]
<1> DEFINE A == d.ancillary
           got == recvmsg_strict(d)
           x == _extract_fds(A)
           p == d.packet.payload
           E == p.entries
<1>1. /\ x.ok
      /\ got = [ok |-> TRUE, packet |-> d.packet, fds |-> x.fds, closed |-> {}]
      /\ Len(x.fds) = _expected_fd_count(d.packet)
    <2> HIDE DEF x
    <2>1. QED
        BY DEF recvmsg_strict, x
<1>2. /\ x.fds = FlattenSeq(A)
      /\ ~(Len(A) > 1)
    BY <1>1 DEF _extract_fds
<1>3. A \in Seq(Seq(Nat))
    BY DEF Datagram
<1>4. /\ x.fds \in Seq(Nat)
      /\ \A i, j \in DOMAIN x.fds : x.fds[i] = x.fds[j] => i = j
    <2>1. PICK m \in Nat : m = Len(A)
        BY <1>3
    <2>2. m <= 1
        BY <1>2, <2>1
    <2>3. FlattenSeq(A) = IF m = 0 THEN <<>> ELSE A[1]
        BY <1>3, <2>1, <2>2, OneMessage
    <2>4. CASE m = 0
        BY <1>2, <2>3, <2>4
    <2>5. CASE m # 0
        <3>1. 1 \in DOMAIN A /\ A[1] \in Seq(Nat)
            BY <1>3, <2>1, <2>5
        <3>2. x.fds = A[1]
            BY <1>2, <2>3, <2>5
        <3>3. QED
            BY <3>1, <3>2 DEF Datagram
    <2>6. QED
        BY <2>4, <2>5
<1>5. decode_fd_batch(d.packet) # Malformed /\ Len(x.fds) = p.fd_count
    <2>1. Len(x.fds) \in Nat
        BY <1>4
    <2>2. _expected_fd_count(d.packet) = IF decode_fd_batch(d.packet) = Malformed THEN -1 ELSE p.fd_count
        BY DEF _expected_fd_count
    <2>3. QED
        BY <1>1, <2>1, <2>2
<1>6. /\ \A i \in DOMAIN E : EntryValid(E[i])
      /\ p.fd_count = fd_count(E)
      /\ decode_fd_batch(d.packet) = [transfer_id |-> p.transfer_id, generation |-> p.generation, entries |-> E]
    BY <1>5 DEF decode_fd_batch
<1>7. E \in Seq(Entry) /\ DOMAIN E = 1..Len(E)
    BY DEF Datagram
<1>8. fd_count(E) = Cardinality(Maps(E, Len(E)))
    BY <1>7 DEF fd_count, Maps
<1>9. \A i \in 1..Len(E) : E[i].kind \in {"MAP", "RETIRE"}
    BY <1>6, <1>7 DEF EntryValid
<1>10. got.packet = d.packet /\ got.fds = x.fds
    BY <1>1
<1> HIDE DEF x, got, E
<1>11. QED
    BY <1>4, <1>5, <1>6, <1>8, <1>9, <1>10 DEF got, E

(* No descriptor that came with a datagram is lost: recvmsg_strict         *)
(* returns or closes them all, and FdReceiver._serve closes every one of   *)
(* an accepted batch whichever entry raises, and twice only the one whose  *)
(* entry raised.                                                           *)
THEOREM DescriptorsAreClosed ==
    ASSUME NEW d, NEW Entry, Datagram(d, Entry), NEW generation
    PROVE  DatagramAccounted(d, generation)
<1> DEFINE got == recvmsg_strict(d)
           E == d.packet.payload.entries
<1>0. ReceivedAccounted(d)
    BY ReceivedOnes
<1> SUFFICES ASSUME got.ok, got.packet.kind = "FD_TRANSFER",
                    NEW R \in SUBSET DOMAIN got.packet.payload.entries
             PROVE  BatchAccounted(got, generation, R)
    BY <1>0 DEF DatagramAccounted
<1>1. got.packet = d.packet
    BY DEF recvmsg_strict
<1> DEFINE F == got.fds
           n == Len(E)
           batch == decode_fd_batch(d.packet)
<1>2. /\ F \in Seq(Nat)
      /\ \A i, j \in DOMAIN F : F[i] = F[j] => i = j
      /\ Cardinality(Maps(E, n)) = Len(F)
      /\ \A i \in 1..n : E[i].kind \in {"MAP", "RETIRE"}
      /\ batch.entries = E
    <2> d.packet.kind = "FD_TRANSFER"
        BY <1>1
    <2>1. /\ F \in Seq(Nat)
          /\ \A i, j \in DOMAIN F : F[i] = F[j] => i = j
          /\ Cardinality(Maps(E, n)) = Len(F)
          /\ \A i \in 1..n : E[i].kind \in {"MAP", "RETIRE"}
          /\ batch = [transfer_id |-> d.packet.payload.transfer_id,
                      generation |-> d.packet.payload.generation, entries |-> E]
        BY AcceptedBatch, Zenon
    <2>2. batch.entries = E
        <3> HIDE DEF batch, E
        <3>1. QED
            BY <2>1
    <2>3. QED
        BY <2>1, <2>2, Zenon
<1>3. E \in Seq(Entry) /\ n \in Nat
    BY <1>1 DEF Datagram
<1>4. \A j \in DOMAIN F : F[j] \in ToSet(F)
    BY DEF ToSet
<1> DEFINE served == ServeBatch(got, generation, R)
<1> HIDE DEF got, E, batch
<1> DEFINE begun == IF batch = Malformed \/ batch.generation # generation
                    THEN [Untaken(F) EXCEPT !.failed = TRUE] ELSE TakeEntries(E, F, R)
<1>5. served = IF ~begun.failed THEN begun
               ELSE [begun EXCEPT !.closes =
                        [fd \in ToSet(F) |-> IF fd \in begun.crossed THEN @[fd] ELSE @[fd] + 1]]
    BY <1>1, <1>2 DEF ServeBatch, batch
<1> HIDE DEF served
<1> SUFFICES ASSUME NEW j \in DOMAIN F
             PROVE  /\ served.closes[F[j]] >= 1
                    /\ served.closes[F[j]] > 1 =>
                         \E i \in R : E[i].kind = "MAP" /\ j = Cardinality(Maps(E, i))
    BY <1>1 DEF BatchAccounted, Maps, served, E
<1>6. CASE batch = Malformed \/ batch.generation # generation
    <2>1. begun = [next |-> 1, failed |-> TRUE, crossed |-> {}, closes |-> [fd \in ToSet(F) |-> 0]]
        BY <1>6 DEF Untaken
    <2>2. served.closes = [fd \in ToSet(F) |-> 0 + 1]
        BY <1>5, <2>1
    <2>3. QED
        BY <1>4, <2>2
<1>7. CASE ~(batch = Malformed \/ batch.generation # generation)
    <2>1. begun = TakeEntries(E, F, R)
        BY <1>7
    <2>2. Serving(begun, n, E, F, R)
        BY <1>2, <1>3, <2>1, EntriesTaken
    <2> HIDE DEF begun
    <2>3. DOMAIN F = 1..Len(F) /\ j \in 1..Len(F) /\ j \in Nat /\ Len(F) \in Nat
        BY <1>2
    <2>4. CASE ~begun.failed
        <3>1. served = begun /\ begun.next = Len(F) + 1
            BY <1>2, <1>5, <2>2, <2>4 DEF Serving
        <3>2. served.closes[F[j]] = 1
            BY <2>2, <2>3, <3>1 DEF Serving
        <3>3. QED
            BY <3>2
    <2>5. CASE begun.failed
        <3>1. served = [begun EXCEPT !.closes =
                [fd \in ToSet(F) |-> IF fd \in begun.crossed THEN @[fd] ELSE @[fd] + 1]]
            BY <1>5, <2>5
        <3>2. served.closes[F[j]] = IF F[j] \in begun.crossed THEN begun.closes[F[j]]
                                    ELSE begun.closes[F[j]] + 1
            BY <1>4, <2>2, <3>1 DEF Serving
        <3>3. begun.closes[F[j]] = (IF j < begun.next THEN 1 ELSE 0) /\ begun.next \in Nat
            BY <2>2, <2>3 DEF Serving
        <3>4. CASE F[j] \in begun.crossed <=> j < begun.next
            BY <2>3, <3>2, <3>3, <3>4
        <3>5. CASE /\ F[j] \in begun.crossed <=> j < begun.next - 1
                   /\ \E i \in R : E[i].kind = "MAP" /\ begun.next - 1 = Cardinality(Maps(E, i))
            <4>1. CASE j = begun.next - 1
                BY <2>3, <3>2, <3>3, <3>5, <4>1
            <4>2. CASE j # begun.next - 1
                BY <2>3, <3>2, <3>3, <3>5, <4>2
            <4>3. QED
                BY <4>1, <4>2
        <3>6. QED
            BY <2>2, <2>5, <3>4, <3>5 DEF Serving
    <2>6. QED
        BY <2>4, <2>5, <2>2 DEF Serving
<1>8. QED
    BY <1>6, <1>7

-----------------------------------------------------------------------------
(* Control frames from their encoder to their decoder.                     *)
(* A packet that passes the check of its header, with the descriptors it   *)
(* declares, is sent and received as it is.                                *)
LEMMA StrictRoundTrip ==
    ASSUME NEW packet, packet # Malformed, decode_frame(packet) # Malformed,
           NEW fds \in Seq(Nat), Len(fds) = _expected_fd_count(packet),
           Len(fds) <= MAX_FD_ENTRIES
    PROVE  /\ sendmsg_strict(packet, fds) # Malformed
           /\ recvmsg_strict(sendmsg_strict(packet, fds))
                = [ok |-> TRUE, packet |-> packet, fds |-> fds, closed |-> {}]
<1>a. PICK A : A = IF fds = <<>> THEN <<>> ELSE <<fds>>
    OBVIOUS
<1>d. PICK d : d = [packet |-> packet, ancillary |-> A, truncated |-> FALSE]
    OBVIOUS
<1>1. sendmsg_strict(packet, fds) = d
    BY <1>a, <1>d DEF sendmsg_strict
<1>2. d # Malformed
    <2>1. "packet" \in DOMAIN d
        BY <1>d
    <2>2. "packet" \notin DOMAIN Malformed
        BY DEF Malformed
    <2>3. QED
        BY <2>1, <2>2
<1>3. A \in Seq(Seq(Nat)) /\ Len(A) <= 1 /\ FlattenSeq(A) = fds
    <2>1. /\ A \in Seq(Seq(Nat)) /\ Len(A) <= 1
          /\ fds = IF Len(A) = 0 THEN <<>> ELSE A[1]
        <3>1. CASE fds = <<>>
            BY <1>a, <3>1
        <3>2. CASE fds # <<>>
            BY <1>a, <3>2
        <3>3. QED
            BY <3>1, <3>2
    <2>2. FlattenSeq(A) = IF Len(A) = 0 THEN <<>> ELSE A[1]
        BY <2>1, OneMessage, Zenon
    <2>3. QED
        BY <2>1, <2>2, Zenon
<1>4. ~(Len(A) > 1) /\ ~(Len(fds) > MAX_FD_ENTRIES)
    <2>1. Len(A) \in Nat /\ Len(fds) \in Nat
        BY <1>3
    <2>2. QED
        BY <1>3, <2>1 DEF MAX_FD_ENTRIES
<1> DEFINE x == _extract_fds(A)
<1>5. x.ok /\ x.fds = fds
    BY <1>3, <1>4 DEF _extract_fds
<1> HIDE DEF x
<1>6. d.ancillary = A /\ d.packet = packet /\ d.truncated = FALSE
    BY <1>d
<1>7. recvmsg_strict(d)
        = [ok |-> TRUE, packet |-> packet, fds |-> fds, closed |-> {}]
    BY <1>5, <1>6 DEF recvmsg_strict, x
<1>8. QED
    BY <1>1, <1>2, <1>7

(* What encode_frame makes passes the check of its header.                 *)
LEMMA HeaderAccepted ==
    ASSUME NEW kind \in FrameKinds, NEW request_id, NEW payload
    PROVE  LET packet == encode_frame(kind, request_id, payload)
           IN  /\ packet.kind = kind /\ packet.payload = payload
               /\ packet # Malformed /\ decode_frame(packet) = packet
<1>p. PICK packet : packet = encode_frame(kind, request_id, payload)
    OBVIOUS
<1>1. /\ packet.kind = kind /\ packet.payload = payload
      /\ packet.abi /\ packet.flags = 0 /\ packet.declared
      /\ "abi" \in DOMAIN packet
    BY <1>p DEF encode_frame
<1>2. "abi" \notin DOMAIN Malformed
    BY DEF Malformed
<1>3. packet # Malformed
    BY <1>1, <1>2
<1>4. decode_frame(packet) = packet
    BY <1>1 DEF decode_frame
<1>5. QED
    BY <1>p, <1>1, <1>3, <1>4

(* The messages of the control protocol: texts are valid UTF-8 because the *)
(* code encodes strings of Python, kinds, roles and statuses are members   *)
(* of its enumerations.                                                    *)
Startups(G, C) == [generation : G, config : {c \in C : Decodable(c)},
                   roles : Seq(Roles), status : ControlStatuses]
FdBatches(G, E) == [transfer_id : G, generation : G, entries : Seq(E)]
FdAcks(G, C) == [transfer_id : G, generation : G, status : ControlStatuses,
                 error : {c \in C : Decodable(c)}]
ErrorResponses(C) == [status : ControlStatuses,
                      message : {c \in C : Decodable(c)}]

LEMMA StartupArrives ==
    ASSUME NEW G, NEW C, NEW m \in Startups(G, C), NEW response \in BOOLEAN,
           NEW request_id, NEW fds \in Seq(Nat), Len(fds) = Len(m.roles)
    PROVE  LET packet == encode_startup(m, response, request_id)
           IN  FrameArrives(packet, fds, decode_startup(packet, response), m)
<1>p. PICK packet : packet = encode_startup(m, response, request_id)
    OBVIOUS
<1> SUFFICES ASSUME packet # Malformed
             PROVE  /\ sendmsg_strict(packet, fds) # Malformed
                    /\ recvmsg_strict(sendmsg_strict(packet, fds))
                         = [ok |-> TRUE, packet |-> packet, fds |-> fds,
                            closed |-> {}]
                    /\ decode_startup(packet, response) = m
    BY <1>p DEF FrameArrives
<1>k. PICK kind : kind = IF response THEN "STARTUP_RESPONSE"
                                     ELSE "STARTUP_REQUEST"
    OBVIOUS
<1>l. PICK payload : payload =
          [generation |-> m.generation, config |-> m.config,
           roles |-> m.roles, status |-> m.status,
           config_length |-> Bytes(m.config),
           role_count |-> Len(m.roles), role_flags |-> 0]
    OBVIOUS
<1>1. /\ Bytes(m.config) <= MAX_CONFIG_BYTES
      /\ Len(m.roles) <= MAX_DESCRIPTOR_ROLES
      /\ packet = encode_frame(kind, request_id, payload)
    BY <1>p, <1>k, <1>l DEF encode_startup
<1>2. kind \in FrameKinds
    BY <1>k DEF FrameKinds
<1>3. /\ packet.kind = kind /\ packet.payload = payload
      /\ decode_frame(packet) = packet
    BY <1>1, <1>2, HeaderAccepted
<1>4. /\ payload.generation = m.generation /\ payload.config = m.config
      /\ payload.roles = m.roles /\ payload.status = m.status
      /\ payload.config_length = Bytes(m.config)
      /\ payload.role_count = Len(m.roles) /\ payload.role_flags = 0
    BY <1>l
<1>5. /\ m.roles \in Seq(Roles) /\ m.status \in ControlStatuses
      /\ Decodable(m.config)
      /\ m = [generation |-> m.generation, config |-> m.config,
              roles |-> m.roles, status |-> m.status]
    BY DEF Startups
<1>6. ToSet(m.roles) \subseteq Roles
    BY <1>5 DEF ToSet
<1>7. OfKind(packet, {kind})
    BY <1>3 DEF OfKind
<1>8. decode_startup(packet, response) = m
    BY <1>1, <1>3, <1>4, <1>5, <1>6, <1>7, <1>k DEF decode_startup
<1>9. m # Malformed
    <2>1. "roles" \in DOMAIN m
        BY <1>5
    <2>2. "roles" \notin DOMAIN Malformed
        BY DEF Malformed
    <2>3. QED
        BY <2>1, <2>2
<1>10. _expected_fd_count(packet) = Len(fds)
    BY <1>3, <1>4, <1>8, <1>9, <1>k DEF _expected_fd_count
(* 16 descriptor roles and 240 entries in the code.                        *)
<1>11. Len(fds) <= MAX_FD_ENTRIES
    <2>1. Len(fds) \in Nat
        OBVIOUS
    <2>2. QED
        BY <1>1, <2>1 DEF MAX_FD_ENTRIES, MAX_DESCRIPTOR_ROLES
<1>12. QED
    BY <1>3, <1>8, <1>10, <1>11, StrictRoundTrip

LEMMA BatchArrives ==
    ASSUME NEW G, NEW E, NEW m \in FdBatches(G, E), NEW request_id,
           NEW fds \in Seq(Nat), Len(fds) = fd_count(m.entries)
    PROVE  LET packet == encode_fd_batch(m, request_id)
           IN  FrameArrives(packet, fds, decode_fd_batch(packet), m)
<1>p. PICK packet : packet = encode_fd_batch(m, request_id)
    OBVIOUS
<1> SUFFICES ASSUME packet # Malformed
             PROVE  /\ sendmsg_strict(packet, fds) # Malformed
                    /\ recvmsg_strict(sendmsg_strict(packet, fds))
                         = [ok |-> TRUE, packet |-> packet, fds |-> fds,
                            closed |-> {}]
                    /\ decode_fd_batch(packet) = m
    BY <1>p DEF FrameArrives
<1>l. PICK payload : payload =
          [transfer_id |-> m.transfer_id, generation |-> m.generation,
           entries |-> m.entries, count |-> Len(m.entries),
           fd_count |-> fd_count(m.entries),
           transactional |-> TRUE, reserved |-> 0]
    OBVIOUS
<1>1. /\ Len(m.entries) \in 1..MAX_FD_ENTRIES
      /\ \A i \in DOMAIN m.entries : EntryValid(m.entries[i])
      /\ packet = encode_frame("FD_TRANSFER", request_id, payload)
    BY <1>p, <1>l DEF encode_fd_batch
<1>2. "FD_TRANSFER" \in FrameKinds
    BY DEF FrameKinds
<1>3. /\ packet.kind = "FD_TRANSFER" /\ packet.payload = payload
      /\ decode_frame(packet) = packet
    BY <1>1, <1>2, HeaderAccepted
<1>4. /\ payload.transfer_id = m.transfer_id
      /\ payload.generation = m.generation /\ payload.entries = m.entries
      /\ payload.count = Len(m.entries)
      /\ payload.fd_count = fd_count(m.entries)
      /\ payload.transactional /\ payload.reserved = 0
    BY <1>l
<1>5. /\ m.entries \in Seq(E)
      /\ m = [transfer_id |-> m.transfer_id, generation |-> m.generation,
              entries |-> m.entries]
    BY DEF FdBatches
<1>6. OfKind(packet, {"FD_TRANSFER"})
    BY <1>3 DEF OfKind
<1>7. decode_fd_batch(packet) = m
    BY <1>1, <1>3, <1>4, <1>5, <1>6 DEF decode_fd_batch
<1>8. m # Malformed
    <2>1. "entries" \in DOMAIN m
        BY <1>5
    <2>2. "entries" \notin DOMAIN Malformed
        BY DEF Malformed
    <2>3. QED
        BY <2>1, <2>2
<1>9. _expected_fd_count(packet) = Len(fds)
    BY <1>3, <1>4, <1>7, <1>8 DEF _expected_fd_count
<1>10. Len(fds) <= MAX_FD_ENTRIES
    <2>n. PICK n \in Nat : n = Len(m.entries)
        BY <1>5
    <2> DEFINE M == {i \in DOMAIN m.entries : m.entries[i].kind = "MAP"}
    <2>1. DOMAIN m.entries = 1..n
        BY <1>5, <2>n
    <2>2. IsFiniteSet(1..n) /\ Cardinality(1..n) = n
        <3>1. 1 \in Int /\ n \in Int
            OBVIOUS
        <3>2. /\ IsFiniteSet(1..n)
              /\ Cardinality(1..n) = IF 1 > n THEN 0 ELSE n - 1 + 1
            BY <3>1, FS_Interval, Zenon
        <3>3. QED
            BY <3>2
    <2>3. Cardinality(M) <= n /\ Cardinality(M) \in Nat
        BY <2>1, <2>2, FS_Subset, FS_CardinalityType
    <2>4. Len(fds) <= n
        BY <2>3 DEF fd_count
    <2>5. QED
        <3>1. n \in 1..MAX_FD_ENTRIES /\ Len(fds) \in Nat
            BY <1>1, <2>n
        <3>2. QED
            BY <2>4, <3>1 DEF MAX_FD_ENTRIES
<1>11. QED
    BY <1>3, <1>7, <1>9, <1>10, StrictRoundTrip

(* The frames without descriptors.                                         *)
LEMMA PlainRoundTrip ==
    ASSUME NEW packet, NEW kind \in FrameKinds, NEW request_id, NEW payload,
           packet = encode_frame(kind, request_id, payload),
           kind \notin {"FD_TRANSFER", "STARTUP_REQUEST", "STARTUP_RESPONSE"}
    PROVE  /\ packet.payload = payload /\ OfKind(packet, {kind})
           /\ sendmsg_strict(packet, <<>>) # Malformed
           /\ recvmsg_strict(sendmsg_strict(packet, <<>>))
                = [ok |-> TRUE, packet |-> packet, fds |-> <<>>,
                   closed |-> {}]
<1>1. /\ packet.kind = kind /\ packet.payload = payload
      /\ packet # Malformed /\ decode_frame(packet) = packet
    BY HeaderAccepted
<1>2. OfKind(packet, {kind})
    BY <1>1 DEF OfKind
<1>3. _expected_fd_count(packet) = 0
    BY <1>1 DEF _expected_fd_count
<1>4. <<>> \in Seq(Nat) /\ Len(<<>>) = 0 /\ 0 <= MAX_FD_ENTRIES
    BY DEF MAX_FD_ENTRIES
<1>5. QED
    BY <1>1, <1>2, <1>3, <1>4, StrictRoundTrip

LEMMA AckArrives ==
    ASSUME NEW G, NEW C, NEW m \in FdAcks(G, C), NEW request_id
    PROVE  LET packet == encode_fd_ack(m, request_id)
           IN  FrameArrives(packet, <<>>, decode_fd_ack(packet), m)
<1>p. PICK packet : packet = encode_fd_ack(m, request_id)
    OBVIOUS
<1> SUFFICES ASSUME packet # Malformed
             PROVE  /\ sendmsg_strict(packet, <<>>) # Malformed
                    /\ recvmsg_strict(sendmsg_strict(packet, <<>>))
                         = [ok |-> TRUE, packet |-> packet, fds |-> <<>>,
                            closed |-> {}]
                    /\ decode_fd_ack(packet) = m
    BY <1>p DEF FrameArrives
<1>l. PICK payload : payload =
          [transfer_id |-> m.transfer_id, generation |-> m.generation,
           status |-> m.status, error |-> m.error,
           length |-> Bytes(m.error), reserved |-> 0]
    OBVIOUS
<1>1. /\ Bytes(m.error) <= MAX_ERROR_BYTES
      /\ packet = encode_frame("FD_TRANSFER_ACK", request_id, payload)
    BY <1>p, <1>l DEF encode_fd_ack
<1>2. "FD_TRANSFER_ACK" \in FrameKinds
    BY DEF FrameKinds
<1>3. /\ packet.payload = payload /\ OfKind(packet, {"FD_TRANSFER_ACK"})
      /\ sendmsg_strict(packet, <<>>) # Malformed
      /\ recvmsg_strict(sendmsg_strict(packet, <<>>))
           = [ok |-> TRUE, packet |-> packet, fds |-> <<>>, closed |-> {}]
    BY <1>1, <1>2, PlainRoundTrip
<1>4. /\ payload.transfer_id = m.transfer_id
      /\ payload.generation = m.generation /\ payload.status = m.status
      /\ payload.error = m.error /\ payload.length = Bytes(m.error)
      /\ payload.reserved = 0
    BY <1>l
<1>5. /\ m.status \in ControlStatuses /\ Decodable(m.error)
      /\ m = [transfer_id |-> m.transfer_id, generation |-> m.generation,
              status |-> m.status, error |-> m.error]
    BY DEF FdAcks
<1>6. decode_fd_ack(packet) = m
    BY <1>1, <1>3, <1>4, <1>5 DEF decode_fd_ack
<1>7. QED
    BY <1>3, <1>6

LEMMA ErrorArrives ==
    ASSUME NEW C, NEW m \in ErrorResponses(C), NEW request_id
    PROVE  LET packet == encode_error(m, request_id)
           IN  FrameArrives(packet, <<>>, decode_error(packet), m)
<1>p. PICK packet : packet = encode_error(m, request_id)
    OBVIOUS
<1> SUFFICES ASSUME packet # Malformed
             PROVE  /\ sendmsg_strict(packet, <<>>) # Malformed
                    /\ recvmsg_strict(sendmsg_strict(packet, <<>>))
                         = [ok |-> TRUE, packet |-> packet, fds |-> <<>>,
                            closed |-> {}]
                    /\ decode_error(packet) = m
    BY <1>p DEF FrameArrives
<1>l. PICK payload : payload =
          [status |-> m.status, message |-> m.message,
           length |-> Bytes(m.message)]
    OBVIOUS
<1>1. /\ m.status # "OK" /\ Bytes(m.message) <= MAX_ERROR_BYTES
      /\ packet = encode_frame("ERROR_RESPONSE", request_id, payload)
    BY <1>p, <1>l DEF encode_error
<1>2. "ERROR_RESPONSE" \in FrameKinds
    BY DEF FrameKinds
<1>3. /\ packet.payload = payload /\ OfKind(packet, {"ERROR_RESPONSE"})
      /\ sendmsg_strict(packet, <<>>) # Malformed
      /\ recvmsg_strict(sendmsg_strict(packet, <<>>))
           = [ok |-> TRUE, packet |-> packet, fds |-> <<>>, closed |-> {}]
    BY <1>1, <1>2, PlainRoundTrip
<1>4. /\ payload.status = m.status /\ payload.message = m.message
      /\ payload.length = Bytes(m.message)
    BY <1>l
<1>5. /\ m.status \in ControlStatuses /\ Decodable(m.message)
      /\ m = [status |-> m.status, message |-> m.message]
    BY DEF ErrorResponses
<1>6. decode_error(packet) = m
    BY <1>1, <1>3, <1>4, <1>5 DEF decode_error
<1>7. QED
    BY <1>3, <1>6

LEMMA EmptyArrives ==
    ASSUME NEW kind \in EmptyKinds, NEW request_id
    PROVE  LET packet == encode_empty(kind, request_id)
           IN  FrameArrives(packet, <<>>, decode_empty(packet, kind), NoPayload)
<1>p. PICK packet : packet = encode_empty(kind, request_id)
    OBVIOUS
<1>1. packet = encode_frame(kind, request_id, NoPayload)
    BY <1>p DEF encode_empty
<1>2. /\ kind \in FrameKinds
      /\ kind \notin {"FD_TRANSFER", "STARTUP_REQUEST", "STARTUP_RESPONSE"}
    BY DEF FrameKinds, EmptyKinds
<1>3. /\ packet.payload = NoPayload /\ OfKind(packet, {kind})
      /\ sendmsg_strict(packet, <<>>) # Malformed
      /\ recvmsg_strict(sendmsg_strict(packet, <<>>))
           = [ok |-> TRUE, packet |-> packet, fds |-> <<>>, closed |-> {}]
    BY <1>1, <1>2, PlainRoundTrip
<1>4. decode_empty(packet, kind) = NoPayload
    BY <1>3 DEF decode_empty
<1>5. QED
    BY <1>p, <1>3, <1>4 DEF FrameArrives

(* Every message of the control protocol that its encoder accepts crosses  *)
(* the socket: sendmsg_strict takes it with as many descriptors as the     *)
(* message has roles or MAP entries, recvmsg_strict returns the packet     *)
(* with those descriptors and closes none, and the decoder of the other    *)
(* package reads the message that was written.                             *)
THEOREM ControlFramesArrive ==
    ASSUME NEW Numbers_, NEW Texts_, NEW Entries_, NEW request_id,
           NEW fds \in Seq(Nat)
    PROVE  /\ \A m \in Startups(Numbers_, Texts_), response \in BOOLEAN :
                LET packet == encode_startup(m, response, request_id)
                IN  Len(fds) = Len(m.roles) =>
                      FrameArrives(packet, fds, decode_startup(packet, response), m)
           /\ \A m \in FdBatches(Numbers_, Entries_) :
                LET packet == encode_fd_batch(m, request_id)
                IN  Len(fds) = fd_count(m.entries) =>
                      FrameArrives(packet, fds, decode_fd_batch(packet), m)
           /\ \A m \in FdAcks(Numbers_, Texts_) :
                LET packet == encode_fd_ack(m, request_id)
                IN  FrameArrives(packet, <<>>, decode_fd_ack(packet), m)
           /\ \A m \in ErrorResponses(Texts_) :
                LET packet == encode_error(m, request_id)
                IN  FrameArrives(packet, <<>>, decode_error(packet), m)
           /\ \A kind \in EmptyKinds :
                LET packet == encode_empty(kind, request_id)
                IN  FrameArrives(packet, <<>>, decode_empty(packet, kind), NoPayload)
BY StartupArrives, BatchArrives, AckArrives, ErrorArrives, EmptyArrives, Zenon

-----------------------------------------------------------------------------
(* Tensor views.  A total is a sum over the dimensions.                    *)
LEMMA TotalIsSum ==
    ASSUME NEW S, IsFiniteSet(S), NEW w, DOMAIN w = S
    PROVE  Total(w) = SumOver(S, w)
<1> DEFINE Folds_(g) == g = [s \in SUBSET S |->
                               IF s = {} THEN 0
                               ELSE w[Picked(s)] + g[s \ {Picked(s)}]]
<1>1. Total(w) = (CHOOSE g : Folds_(g))[S]
    BY DEF Total, FoldFunction, FoldFunctionOnSet, MapThenFoldSet, Picked
<1>2. ASSUME NEW g PROVE Folds_(g) <=> Sums(g, S, w)
    BY DEF Sums, SumStep
<1>3. PICK g : g = (CHOOSE h : Folds_(h)) /\ Folds_(g)
    <2>1. \E h : Folds_(h)
        BY <1>2, SumExists
    <2> HIDE DEF Folds_
    <2>2. QED
        BY <2>1
<1>4. PICK h : Sums(h, S, w) /\ SumOver(S, w) = h[S]
    BY SumIsSum
<1>5. g[S] = h[S]
    <2> HIDE DEF Folds_
    <2>1. Sums(g, S, w)
        BY <1>2, <1>3, Zenon
    <2>2. QED
        BY <1>4, <2>1, SumAgrees, Zenon
<1>6. QED
    <2> HIDE DEF Folds_
    <2>1. QED
        BY <1>1, <1>3, <1>4, <1>5, Zenon

LEMMA ProductsGrow ==
    ASSUME NEW a \in Nat, NEW b \in Nat, NEW c \in Nat, a <= b
    PROVE  a * c \in Nat /\ b * c \in Nat /\ a * c <= b * c
OBVIOUS

LEMMA IndexesBounded ==
    ASSUME NEW k \in Nat, NEW shape, DOMAIN shape = 1..k,
           \A i \in 1..k : shape[i] \in Nat \ {0},
           NEW index \in Indexes(shape)
    PROVE  \A i \in 1..k : index[i] \in Nat /\ index[i] < shape[i]
<1>1. PICK U : U = UNION {0 .. shape[i] - 1 : i \in 1..k}
    OBVIOUS
<1>2. U \subseteq Nat
    <2> SUFFICES ASSUME NEW i \in 1..k, NEW x \in 0 .. shape[i] - 1
                 PROVE  x \in Nat
        BY <1>1
    <2>1. QED
        OBVIOUS
<1>3. index \in [1..k -> U] /\ \A i \in 1..k : index[i] < shape[i]
    BY <1>1, Zenon DEF Indexes
<1>4. QED
    BY <1>2, <1>3

(* A kernel touches the span of a view and nothing else.                   *)
LEMMA TouchedInSpan ==
    ASSUME NEW view, view.offset \in Nat, view.item \in Nat \ {0},
           NEW k \in Nat, DOMAIN view.shape = 1..k, DOMAIN view.strides = 1..k,
           \A i \in 1..k : /\ view.shape[i] \in Nat \ {0}
                           /\ view.strides[i] \in Nat
    PROVE  /\ Span(view.item, view.shape, view.strides) \in Nat \ {0}
           /\ Touched(view) \subseteq
                view.offset .. view.offset
                                 + Span(view.item, view.shape, view.strides) - 1
<1>1. PICK w : w = [i \in 1..k |-> (view.shape[i] - 1) * view.strides[i]]
    OBVIOUS
<1>2. \A i \in 1..k : w[i] = (view.shape[i] - 1) * view.strides[i]
    BY <1>1
<1>3. \A i \in 1..k : w[i] \in Nat
    <2> TAKE i \in 1..k
    <2>1. view.shape[i] - 1 \in Nat /\ view.strides[i] \in Nat
        OBVIOUS
    <2>2. QED
        BY <1>2, <2>1, ProductsGrow
<1>4. IsFiniteSet(1..k)
    BY FS_Interval
<1>5. PICK far \in Nat : far = Total(w)
    <2>1. Total(w) = SumOver(1..k, w)
        BY <1>1, <1>4, TotalIsSum
    <2>2. SumOver(1..k, w) \in Nat
        BY <1>3, <1>4, SumTyped
    <2>3. QED
        BY <2>1, <2>2
<1>6. Span(view.item, view.shape, view.strides) = view.item + far
    BY <1>1, <1>5, Zenon DEF Span
<1>7. ASSUME NEW index \in Indexes(view.shape)
      PROVE  \E near \in 0..far : Start(view, index) = view.offset + near
    <2>1. PICK v : v = [i \in 1..k |-> index[i] * view.strides[i]]
        OBVIOUS
    <2>2. \A i \in 1..k : index[i] \in Nat /\ index[i] < view.shape[i]
        BY IndexesBounded, Zenon
    <2>3. \A i \in 1..k : v[i] \in Nat /\ v[i] <= w[i]
        <3> TAKE i \in 1..k
        <3>1. index[i] \in Nat /\ view.shape[i] - 1 \in Nat
              /\ view.strides[i] \in Nat /\ index[i] <= view.shape[i] - 1
            BY <2>2
        <3>2. /\ index[i] * view.strides[i] \in Nat
              /\ index[i] * view.strides[i]
                   <= (view.shape[i] - 1) * view.strides[i]
            BY <3>1, ProductsGrow
        <3>3. v[i] = index[i] * view.strides[i]
            BY <2>1
        <3>4. QED
            BY <1>2, <3>2, <3>3
    <2>4. Total(v) = SumOver(1..k, v) /\ Total(w) = SumOver(1..k, w)
        BY <1>1, <1>4, <2>1, TotalIsSum
    <2>5. SumOver(1..k, v) \in Nat
        BY <1>4, <2>3, SumTyped
    <2>6. SumOver(1..k, v) <= SumOver(1..k, w)
        BY <1>3, <1>4, <2>3, SumMonotone
    <2>7. Start(view, index) = view.offset + Total(v)
        BY <2>1, Zenon DEF Start
    <2>8. Total(v) \in 0..far
        BY <1>5, <2>4, <2>5, <2>6
    <2>9. QED
        BY <2>7, <2>8, Zenon
<1>8. ASSUME NEW index \in Indexes(view.shape),
             NEW x \in Start(view, index) .. Start(view, index) + view.item - 1
      PROVE  x \in view.offset .. view.offset + (view.item + far) - 1
    BY <1>7
<1>9. QED
    BY <1>6, <1>8 DEF Touched

LEMMA SequenceEntries ==
    ASSUME NEW R, NEW s \in Seq(R)
    PROVE  /\ Len(s) \in Nat /\ DOMAIN s = 1..Len(s)
           /\ \A i \in 1..Len(s) : s[i] \in R
OBVIOUS

(* A descriptor as it comes off the wire: nothing is known of its numbers  *)
(* but that an element has a size.                                         *)
WireViews == [offset : Int, byte_length : Int, item : Nat \ {0},
              shape : Seq(Int), strides : Seq(Int)]

(* A view that passes _validate_view touches no byte outside the mapping   *)
(* it was checked against, for every rank, shape and strides, a stride of  *)
(* 0 included.                                                             *)
THEOREM AcceptedViewsAreInside ==
    ASSUME NEW buffer_length \in Nat, NEW view \in WireViews
    PROVE  ViewInside(buffer_length, view)
<1> SUFFICES ASSUME _validate_view(buffer_length, view)
             PROVE  Touched(view) \subseteq 0..buffer_length - 1
    BY DEF ViewInside
<1>1. /\ view.offset \in Int /\ view.byte_length \in Int
      /\ view.item \in Nat \ {0}
      /\ view.shape \in Seq(Int) /\ view.strides \in Seq(Int)
    BY DEF WireViews
<1>2. /\ view.offset >= 0 /\ Len(view.shape) = Len(view.strides)
      /\ \A i \in DOMAIN view.shape : view.shape[i] > 0
      /\ \A i \in DOMAIN view.strides : view.strides[i] >= 0
      /\ view.offset + view.byte_length <= buffer_length
      /\ Span(view.item, view.shape, view.strides) <= view.byte_length
    BY DEF _validate_view
<1>3. PICK k \in Nat : k = Len(view.shape)
    BY <1>1
<1>4. /\ DOMAIN view.shape = 1..k /\ DOMAIN view.strides = 1..k
      /\ view.offset \in Nat
      /\ \A i \in 1..k : view.shape[i] \in Nat \ {0} /\ view.strides[i] \in Nat
    <2>1. /\ DOMAIN view.shape = 1..k /\ DOMAIN view.strides = 1..k
          /\ \A i \in 1..k : view.shape[i] \in Int /\ view.strides[i] \in Int
        BY <1>1, <1>2, <1>3, SequenceEntries, Zenon
    <2>2. ASSUME NEW i \in 1..k
          PROVE  view.shape[i] \in Nat \ {0} /\ view.strides[i] \in Nat
        <3>1. /\ view.shape[i] \in Int /\ view.strides[i] \in Int
              /\ view.shape[i] > 0 /\ view.strides[i] >= 0
            BY <1>2, <2>1, Zenon
        <3>2. QED
            BY <3>1
    <2>3. view.offset \in Nat
        BY <1>1, <1>2
    <2>4. QED
        BY <2>1, <2>2, <2>3, Zenon
<1>5. /\ Span(view.item, view.shape, view.strides) \in Nat \ {0}
      /\ Touched(view) \subseteq
           view.offset .. view.offset
                            + Span(view.item, view.shape, view.strides) - 1
    BY <1>1, <1>4, TouchedInSpan
<1>6. PICK n \in Nat : n = Span(view.item, view.shape, view.strides)
    BY <1>5
<1>7. view.offset .. view.offset + n - 1 \subseteq 0..buffer_length - 1
    BY <1>1, <1>2, <1>4, <1>6
<1>8. QED
    BY <1>5, <1>6, <1>7

LEMMA ProductOfItem ==
    ASSUME NEW s \in Nat, NEW n \in Nat \ {0}
    PROVE  s * n \in Nat /\ (s * n) % n = 0
OBVIOUS

LEMMA MultipleOfItem ==
    ASSUME NEW a \in Nat, NEW n \in Nat \ {0}, NEW s \in Nat, a % n = 0
    PROVE  (a + s * n) % n = 0
<1>1. PICK q \in Nat : a = q * n
    <2>1. a \div n \in Nat /\ a = (a \div n) * n
        OBVIOUS
    <2>2. QED
        BY <2>1
<1>2. a + s * n = (q + s) * n
    BY <1>1
<1>3. q + s \in Nat
    OBVIOUS
<1>4. ((q + s) * n) % n = 0
    BY <1>3, ProductOfItem, Zenon
<1>5. QED
    BY <1>2, <1>4, Zenon

LEMMA IntervalWithin ==
    ASSUME NEW a \in Int, NEW b \in Int, NEW c \in Int, NEW d \in Int,
           a <= c, d <= b
    PROVE  c..d \subseteq a..b
OBVIOUS

(* What a managed tensor is: its strides and offset are in elements, its   *)
(* allocation starts at a multiple of the size of an element and ends      *)
(* inside the buffer.                                                      *)
Tensors == [item : Nat \ {0}, storage_offset : Nat,
            shape : Seq(Nat), stride : Seq(Int)]

(* Every view that BufferManager.managed describes of a tensor with        *)
(* elements stays inside the allocation of the tensor, and the worker      *)
(* accepts it: the checks of the two sides agree.                          *)
THEOREM DescribedViewsAreAccepted ==
    ASSUME NEW buffer_length \in Nat,
           NEW allocation \in [offset : Nat, length : Nat],
           NEW tensor \in Tensors,
           Len(tensor.shape) = Len(tensor.stride),
           MAX_RANK \in Nat, Len(tensor.shape) <= MAX_RANK,
           allocation.offset % tensor.item = 0,
           allocation.offset + allocation.length <= buffer_length
    PROVE  ViewAccepted(buffer_length, allocation, tensor)
<1>1. /\ tensor.item \in Nat \ {0} /\ tensor.storage_offset \in Nat
      /\ tensor.shape \in Seq(Nat) /\ tensor.stride \in Seq(Int)
    BY DEF Tensors
<1>2. allocation.offset \in Nat /\ allocation.length \in Nat
    OBVIOUS
<1>3. PICK k \in Nat : k = Len(tensor.shape)
    BY <1>1
<1>4. /\ DOMAIN tensor.shape = 1..k /\ DOMAIN tensor.stride = 1..k
      /\ \A i \in 1..k : tensor.shape[i] \in Nat /\ tensor.stride[i] \in Int
    BY <1>1, <1>3, SequenceEntries, Zenon
<1>5. PICK strides : strides = [i \in 1..k |-> tensor.stride[i] * tensor.item]
    OBVIOUS
<1>6. PICK offset : offset = allocation.offset
                               + tensor.storage_offset * tensor.item
    OBVIOUS
<1>7. PICK view : view = managed(allocation, tensor)
    OBVIOUS
<1> SUFFICES ASSUME view # NoView, ~Empty(tensor.shape), tensor.shape # <<>>
             PROVE  /\ _validate_view(buffer_length, view)
                    /\ Touched(view) \subseteq allocation.offset
                         .. allocation.offset + allocation.length - 1
    BY <1>7 DEF ViewAccepted
<1>8. PICK length : length = Span(tensor.item, tensor.shape, strides)
    OBVIOUS
<1>9. /\ \A i \in 1..k : tensor.stride[i] >= 0
      /\ ~(offset + length > allocation.offset + allocation.length)
      /\ view = [offset |-> offset, byte_length |-> length,
                 item |-> tensor.item, shape |-> tensor.shape,
                 strides |-> strides]
    <2>1. managed(allocation, tensor) =
             IF \/ \E i \in 1..k : tensor.stride[i] < 0
                \/ offset < allocation.offset
                \/ offset + length > allocation.offset + allocation.length
             THEN NoView
             ELSE [offset |-> offset, byte_length |-> length,
                   item |-> tensor.item, shape |-> tensor.shape,
                   strides |-> strides]
        BY <1>4, <1>5, <1>6, <1>8, Zenon DEF managed
    <2>2. /\ ~\E i \in 1..k : tensor.stride[i] < 0
          /\ ~(offset + length > allocation.offset + allocation.length)
          /\ view = [offset |-> offset, byte_length |-> length,
                     item |-> tensor.item, shape |-> tensor.shape,
                     strides |-> strides]
        BY <1>7, <2>1, Zenon
    <2>3. ASSUME NEW i \in 1..k PROVE tensor.stride[i] >= 0
        <3>1. tensor.stride[i] \in Int /\ ~(tensor.stride[i] < 0)
            BY <1>4, <2>2, Zenon
        <3>2. QED
            BY <3>1
    <2>4. QED
        BY <2>2, <2>3, Zenon
<1>10. /\ view.offset = offset /\ view.byte_length = length
       /\ view.item = tensor.item /\ view.shape = tensor.shape
       /\ view.strides = strides
    BY <1>9
<1>11. /\ DOMAIN strides = 1..k
       /\ \A i \in 1..k : /\ strides[i] \in Nat /\ strides[i] % tensor.item = 0
                          /\ tensor.shape[i] \in Nat \ {0}
    <2>1. DOMAIN strides = 1..k
        BY <1>5
    <2>2. ASSUME NEW i \in 1..k
          PROVE  /\ strides[i] \in Nat /\ strides[i] % tensor.item = 0
                 /\ tensor.shape[i] \in Nat \ {0}
        <3>1. PICK s \in Nat : s = tensor.stride[i]
            BY <1>4, <1>9
        <3>2. strides[i] = s * tensor.item
            BY <1>5, <3>1
        <3>3. s * tensor.item \in Nat /\ (s * tensor.item) % tensor.item = 0
            BY <1>1, ProductOfItem, Zenon
        <3>4. tensor.shape[i] # 0
            BY <1>4 DEF Empty
        <3>5. QED
            BY <1>4, <3>2, <3>3, <3>4
    <2>3. QED
        BY <2>1, <2>2
<1>12. /\ offset \in Nat /\ offset >= allocation.offset
       /\ offset % tensor.item = 0
    <2>1. tensor.storage_offset * tensor.item \in Nat
        BY <1>1
    <2>2. offset % tensor.item = 0
        BY <1>1, <1>2, <1>6, MultipleOfItem
    <2>3. QED
        BY <1>2, <1>6, <2>1, <2>2
<1>13. /\ length \in Nat \ {0}
       /\ Touched(view) \subseteq offset .. offset + length - 1
    <2>1. /\ view.offset \in Nat /\ view.item \in Nat \ {0}
          /\ DOMAIN view.shape = 1..k /\ DOMAIN view.strides = 1..k
          /\ \A i \in 1..k : /\ view.shape[i] \in Nat \ {0}
                             /\ view.strides[i] \in Nat
        BY <1>1, <1>4, <1>10, <1>11, <1>12
    <2>2. /\ Span(view.item, view.shape, view.strides) \in Nat \ {0}
          /\ Touched(view) \subseteq
               view.offset .. view.offset
                                + Span(view.item, view.shape, view.strides) - 1
        BY <2>1, TouchedInSpan
    <2>3. QED
        BY <1>8, <1>10, <2>2, Zenon
<1>14. offset .. offset + length - 1
         \subseteq allocation.offset .. allocation.offset + allocation.length - 1
    <2>1. PICK o \in Nat, l \in Nat : o = allocation.offset /\ l = allocation.length
        BY <1>2, Zenon
    <2>2. ~(offset + length > o + l) /\ offset >= o
        BY <1>9, <1>12, <2>1, Zenon
    <2>3. /\ offset \in Int /\ offset + length - 1 \in Int
          /\ o \in Int /\ o + l - 1 \in Int
          /\ o <= offset /\ offset + length - 1 <= o + l - 1
        BY <1>12, <1>13, <2>2
    <2>4. offset .. offset + length - 1 \subseteq o .. o + l - 1
        BY <2>3, IntervalWithin
    <2>5. QED
        BY <2>1, <2>4, Zenon
<1>15. _validate_view(buffer_length, view)
    <2>1. Len(view.shape) \in 1..MAX_RANK
        BY <1>1, <1>3, <1>10
    <2>2. Len(view.shape) = Len(view.strides)
        <3>1. strides \in Seq(Nat) /\ Len(strides) = k
            BY <1>5, <1>11
        <3>2. QED
            BY <1>3, <1>10, <3>1
    <2>3. \A i \in DOMAIN view.shape : view.shape[i] > 0
        BY <1>4, <1>10, <1>11
    <2>4. view.offset >= 0 /\ view.offset % view.item = 0
        BY <1>10, <1>12
    <2>5. /\ view.byte_length > 0
          /\ view.offset + view.byte_length <= buffer_length
        BY <1>2, <1>9, <1>10, <1>12, <1>13
    <2>6. \A i \in DOMAIN view.strides :
             view.strides[i] >= 0 /\ view.strides[i] % view.item = 0
        BY <1>10, <1>11
    <2>7. Span(view.item, view.shape, view.strides) <= view.byte_length
        BY <1>8, <1>10, <1>13
    <2>8. QED
        BY <2>1, <2>2, <2>3, <2>4, <2>5, <2>6, <2>7 DEF _validate_view
<1>16. QED
    BY <1>13, <1>14, <1>15
=============================================================================
