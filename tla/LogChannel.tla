----------------------------- MODULE LogChannel -----------------------------
(***************************************************************************)
(* The log service of a plugin session: a bounded queue that any thread of *)
(* the plugin logs into without ever blocking, a sender thread, the        *)
(* nonblocking socket to the runtime and the collector that reads it.      *)
(* wmfs_plugin.logging.AsyncLogger runs in a worker, InProcessLogger of    *)
(* wmfs.logging in the runtime itself: the same queue, whose sender writes *)
(* to Python logging or to a file.                                         *)
(*                                                                         *)
(* A record is its number and its level; the text, the fields and their    *)
(* truncation belong to the codec.                                         *)
(***************************************************************************)
EXTENDS Integers, Sequences, FiniteSets, SequencesExt

CONSTANTS
    Sinks,          \* among "socket", "file", "inprocess", "inprocess_file"
    LogLevels,      \* the levels of the records that are logged
    Threshold,      \* LoggingOptions.level
    QueueCapacity,  \* LoggingOptions.queue_capacity
    SocketCapacity, \* records the socket buffer holds
    MaxRecords      \* bound: records that are logged

ASSUME LogAssumption ==
    /\ Sinks \subseteq {"socket", "file", "inprocess", "inprocess_file"}
    /\ LogLevels \subseteq Nat /\ Threshold \in Nat
    /\ QueueCapacity \in Nat \ {0}
    /\ SocketCapacity \in Nat \ {0}
    /\ MaxRecords \in Nat

VARIABLES
    sink,        \* where _deliver writes
    sequence,    \* the records logged so far
    queue,       \* _queue
    dropped,     \* _dropped
    bound,       \* a logger was derived with bind()
    boundDropped, \* its own _dropped
    sender,      \* the sender thread: waiting, reporting, sending or done
    hand,        \* the record it has taken, with the count it took
    logClosing,  \* _closing
    sinkOpen,    \* the descriptor of the sink is open
    packets,     \* the socket: sent and not yet received
    emitted,     \* the sequence numbers that reached their destination
    reported,    \* the losses announced by synthetic records
    refused,     \* the records lost where they arrived, which nobody counts
    collector    \* LogCollector: running, stopping or done

logVars == <<sink, sequence, queue, dropped, bound, boundDropped, sender,
             hand, logClosing, sinkOpen, packets, emitted, reported, refused,
             collector>>

boundVars == <<bound, boundDropped>>

NoRecord == [record |-> [sequence |-> 0, level |-> 0], dropped |-> 0]

LogInit ==
    /\ sink \in Sinks
    /\ sequence = 0 /\ queue = <<>> /\ dropped = 0
    /\ bound = FALSE /\ boundDropped = 0
    /\ sender = "waiting" /\ hand = NoRecord
    /\ logClosing = FALSE /\ sinkOpen = TRUE
    /\ packets = <<>> /\ emitted = <<>> /\ reported = 0
    /\ refused = 0
    /\ collector = "running"

-----------------------------------------------------------------------------
(* The oldest of the least severe records.                                 *)
Lowest == CHOOSE i \in DOMAIN queue : \A j \in DOMAIN queue :
    \/ queue[j].level > queue[i].level
    \/ queue[j].level = queue[i].level /\ i <= j

Evicted(record) == Append(RemoveAt(queue, Lowest), record)

(* bind() copies the attributes: the queue and its lock are shared, the    *)
(* counters go their own ways from here on.                                *)
Bind ==
    /\ ~bound /\ bound' = TRUE
    /\ boundDropped' = dropped
    /\ UNCHANGED <<sink, sequence, queue, dropped, sender, hand, logClosing,
                   sinkOpen, packets, emitted, reported, refused, collector>>

(* log(): never blocks.  At the limit the least severe record goes, which  *)
(* may be the new one; the logger that was called counts it.               *)
Log(level, derived) ==
    LET record == [sequence |-> sequence + 1, level |-> level] IN
    /\ sequence < MaxRecords
    /\ level >= Threshold
    /\ derived => bound
    /\ sequence' = sequence + 1
    /\ IF Len(queue) < QueueCapacity
       THEN /\ queue' = Append(queue, record)
            /\ UNCHANGED <<dropped, boundDropped>>
       ELSE /\ queue' = IF queue[Lowest].level <= level
                        THEN Evicted(record) ELSE queue
            /\ dropped' = dropped + IF derived THEN 0 ELSE 1
            /\ boundDropped' = boundDropped + IF derived THEN 1 ELSE 0
    /\ UNCHANGED <<sink, bound, sender, hand, logClosing, sinkOpen, packets,
                   emitted, reported, refused, collector>>

(* The sender takes the oldest record and the count of losses ...          *)
Take ==
    /\ sender = "waiting" /\ queue # <<>>
    /\ hand' = [record |-> Head(queue), dropped |-> dropped]
    /\ queue' = Tail(queue)
    /\ dropped' = 0
    /\ sender' = IF dropped > 0 THEN "reporting" ELSE "sending"
    /\ UNCHANGED <<boundVars, sink, sequence, logClosing, sinkOpen, packets,
                   emitted, reported, refused, collector>>

(* A record reaches Python logging or a file, which shows it.              *)
Emitted(packet) ==
    /\ emitted' = IF packet.sequence = 0 THEN emitted
                  ELSE Append(emitted, packet.sequence)
    /\ reported' = reported + packet.dropped
    /\ UNCHANGED refused

(* The collector skips a packet that is too long or cannot be decoded, and *)
(* emit_python_record a record that Python logging raises on, such as one  *)
(* with a field of a reserved name.  The announcement of losses is lost in *)
(* the same way.                                                           *)
Refused(packet) ==
    /\ refused' = refused + packet.dropped
                    + IF packet.sequence = 0 THEN 0 ELSE 1
    /\ UNCHANGED <<emitted, reported>>

(* _deliver: a socket takes a packet while its buffer has room and the     *)
(* other end is open.                                                      *)
Delivered(packet) ==
    /\ sinkOpen \/ sink = "inprocess"
    /\ \/ /\ sink = "socket"
          /\ Len(packets) < SocketCapacity /\ collector = "running"
          /\ packets' = Append(packets, packet)
          /\ UNCHANGED <<emitted, reported, refused>>
       \/ sink # "socket" /\ Emitted(packet) /\ UNCHANGED packets
       \/ sink = "inprocess" /\ Refused(packet) /\ UNCHANGED packets

(* ... announces the losses before the record,                             *)
SendReport ==
    /\ sender = "reporting"
    /\ Delivered([sequence |-> 0, dropped |-> hand.dropped])
    /\ sender' = "sending"
    /\ UNCHANGED <<boundVars, sink, sequence, queue, dropped, hand, logClosing,
                   sinkOpen, collector>>

SendRecord ==
    /\ sender = "sending"
    /\ Delivered([sequence |-> hand.record.sequence, dropped |-> 0])
    /\ sender' = "waiting" /\ hand' = NoRecord
    /\ UNCHANGED <<boundVars, sink, sequence, queue, dropped, logClosing,
                   sinkOpen, collector>>

(* Fault: the losses that could not be announced are not counted again.    *)
Recounted_RecordOnly == dropped + 1

(* ... and counts everything again when either cannot be delivered: the    *)
(* buffer is full, the sink was closed, the record cannot be encoded.  The *)
(* in-process sender swallows the failure, and the counts with it.         *)
Recounted == IF sink \in {"socket", "file"} THEN dropped + hand.dropped + 1
             ELSE dropped

SendFails ==
    /\ sender \in {"reporting", "sending"}
    /\ sink # "inprocess"
    /\ dropped' = Recounted
    /\ sender' = "waiting" /\ hand' = NoRecord
    /\ UNCHANGED <<boundVars, sink, sequence, queue, logClosing, sinkOpen,
                   packets, emitted, reported, refused, collector>>

(* Fault: the sender stops at close() with records in its queue.           *)
SenderStops_AtOnce == logClosing

SenderStops == logClosing /\ queue = <<>>

SenderEnds ==
    /\ sender = "waiting" /\ SenderStops
    /\ sender' = "done"
    /\ UNCHANGED <<boundVars, sink, sequence, queue, dropped, hand, logClosing,
                   sinkOpen, packets, emitted, reported, refused, collector>>

(* close() asks the sender to finish, joins it for a second at most ...    *)
LogClose ==
    /\ ~logClosing
    /\ logClosing' = TRUE
    /\ UNCHANGED <<boundVars, sink, sequence, queue, dropped, sender, hand,
                   sinkOpen, packets, emitted, reported, refused, collector>>

(* ... and closes the sink, also below a sender that is late.              *)
CloseSink ==
    /\ logClosing /\ sinkOpen
    /\ sinkOpen' = FALSE
    /\ UNCHANGED <<boundVars, sink, sequence, queue, dropped, sender, hand,
                   logClosing, packets, emitted, reported, refused, collector>>

(* LogCollector._run receives a packet and emits it, if it can.            *)
Collect ==
    /\ sink = "socket" /\ collector # "done" /\ packets # <<>>
    /\ packets' = Tail(packets)
    /\ Emitted(Head(packets)) \/ Refused(Head(packets))
    /\ UNCHANGED <<boundVars, sink, sequence, queue, dropped, sender, hand,
                   logClosing, sinkOpen, collector>>

(* LogCollector.close shuts the socket down: what is still in it may be    *)
(* lost.  At the end of the stream, or once told to stop, it ends.         *)
StopCollector ==
    /\ sink = "socket" /\ collector = "running"
    /\ collector' = "stopping"
    /\ UNCHANGED <<boundVars, sink, sequence, queue, dropped, sender, hand,
                   logClosing, sinkOpen, packets, emitted, reported, refused>>

CollectorEnds ==
    /\ sink = "socket" /\ collector # "done"
    /\ collector = "stopping" \/ (~sinkOpen /\ packets = <<>>)
    /\ collector' = "done"
    /\ UNCHANGED <<boundVars, sink, sequence, queue, dropped, sender, hand,
                   logClosing, sinkOpen, packets, emitted, reported, refused>>

-----------------------------------------------------------------------------
SenderStep == Take \/ SendReport \/ SendRecord \/ SendFails \/ SenderEnds
CollectorStep == Collect \/ CollectorEnds

LogNext ==
    \/ \E level \in LogLevels, derived \in BOOLEAN : Log(level, derived)
    \/ Bind
    \/ SenderStep
    \/ LogClose \/ CloseSink
    \/ CollectorStep \/ StopCollector

LogSpec == LogInit /\ [][LogNext]_logVars

(* The sender and the collector are threads that run.                      *)
LogFairness ==
    WF_logVars(SenderStep) /\ WF_logVars(CollectorStep)

LogFairSpec == LogSpec /\ LogFairness

-----------------------------------------------------------------------------
InQueue == {queue[i].sequence : i \in DOMAIN queue}
InHand == {hand.record.sequence} \ {0}
InSocket == {packets[i].sequence : i \in DOMAIN packets} \ {0}
Missing == (1..sequence)
             \ (InQueue \cup InHand \cup InSocket \cup ToSet(emitted))
Announced(packed) == FoldSeq(LAMBDA p, n : p.dropped + n, 0, packed)
Counted == dropped + boundDropped + reported + Announced(packets)
             + (IF sender = "reporting" THEN hand.dropped ELSE 0)

(* Nothing is lost in silence on the way: the records that are neither     *)
(* waiting nor delivered are counted, in the counter of the logger that    *)
(* dropped them, in the sender's hand, on their way or in what was         *)
(* announced, but for those that their reader refused.  InProcessLogger    *)
(* keeps this only for a sink that cannot fail: its handler of a failed    *)
(* write drops the counts (log, _send and _deliver of the loggers,         *)
(* LogCollector._run).                                                     *)
LossesCounted ==
    sink # "inprocess_file" => Cardinality(Missing) <= Counted + refused

(* The sender leaves nothing in its queue: whatever is queued while it     *)
(* runs is taken out, also after close().                                  *)
QueueDrains ==
    \A i \in 1..MaxRecords :
        sender # "done" /\ i \in InQueue ~> i \notin InQueue
=============================================================================
