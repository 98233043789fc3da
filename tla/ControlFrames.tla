--------------------------- MODULE ControlFrames ----------------------------
(***************************************************************************)
(* The control protocol: frames for startup, lifecycle and descriptor      *)
(* transfer, their codecs (one copy in the runtime, one in the plugin      *)
(* package), the strict send and receive of a frame with its descriptors,  *)
(* and what the worker's FdReceiver does with a received batch.            *)
(*                                                                         *)
(* A packet is its header and its payload.  The payload keeps the counts   *)
(* and lengths that its encoder declares beside the fields themselves; the *)
(* limits of the protocol are scaled down.                                 *)
(***************************************************************************)
EXTENDS WireText, FiniteSets

MAX_CONFIG_BYTES == 3           \* 65536
MAX_ERROR_BYTES == 3            \* 1024
MAX_DESCRIPTOR_ROLES == 2       \* 16
MAX_FD_ENTRIES == 2             \* 240

EmptyKinds == {"PING", "PONG", "SHUTDOWN", "SHUTDOWN_ACK"}
FrameKinds == EmptyKinds \cup {"STARTUP_REQUEST", "STARTUP_RESPONSE",
                               "ERROR_RESPONSE", "FD_TRANSFER", "FD_TRANSFER_ACK"}
Roles == {"COMMAND_RING", "COMPLETION_RING", "LOG"}
ControlStatuses == {"OK", "INVALID_ARGUMENT", "IDENTITY_MISMATCH"}
Malformed == [malformed |-> TRUE]
NoPayload == [empty |-> TRUE]

----------------------------------------------------------------------------
(* encode_frame: the header declares the size of its payload.  Every       *)
(* payload the encoders below accept is within the packet limit.           *)
encode_frame(kind, request, payload) ==
    [abi |-> TRUE, flags |-> 0, declared |-> TRUE, kind |-> kind,
     request_id |-> request, payload |-> payload]

decode_frame(packet) ==
    IF packet.abi /\ packet.flags = 0 /\ packet.declared /\ packet.kind \in FrameKinds
    THEN packet ELSE Malformed

OfKind(packet, kinds) ==
    decode_frame(packet) # Malformed /\ packet.kind \in kinds

encode_startup(startup, response, request) ==
    IF /\ Decodable(startup.config)
       /\ Bytes(startup.config) <= MAX_CONFIG_BYTES
       /\ Len(startup.roles) <= MAX_DESCRIPTOR_ROLES
    THEN encode_frame(IF response THEN "STARTUP_RESPONSE" ELSE "STARTUP_REQUEST",
                      request,
                      [generation |-> startup.generation, config |-> startup.config,
                       roles |-> startup.roles, status |-> startup.status,
                       config_length |-> Bytes(startup.config),
                       role_count |-> Len(startup.roles), role_flags |-> 0])
    ELSE Malformed

decode_startup(packet, response) ==
    LET p == packet.payload
        kind == IF response THEN "STARTUP_RESPONSE" ELSE "STARTUP_REQUEST"
    IN  IF /\ OfKind(packet, {kind})
           /\ p.config_length <= MAX_CONFIG_BYTES
           /\ p.role_count <= MAX_DESCRIPTOR_ROLES
           /\ p.role_count = Len(p.roles) /\ p.config_length = Bytes(p.config)
           /\ p.role_flags = 0 /\ ToSet(p.roles) \subseteq Roles
           /\ Decodable(p.config)
           /\ p.status \in ControlStatuses
        THEN [generation |-> p.generation, config |-> p.config,
              roles |-> p.roles, status |-> p.status]
        ELSE Malformed

(* FdBatch.fd_count: one descriptor for every MAP entry.                   *)
fd_count(entries) == Cardinality({i \in DOMAIN entries : entries[i].kind = "MAP"})

EntryValid(entry) ==
    /\ entry.kind \in {"MAP", "RETIRE"}
    /\ entry.flags \subseteq {"WRITABLE", "ARENA"}
    /\ entry.kind = "RETIRE" => entry.flags = {}

encode_fd_batch(batch, request) ==
    IF /\ Len(batch.entries) \in 1..MAX_FD_ENTRIES
       /\ \A i \in DOMAIN batch.entries : EntryValid(batch.entries[i])
    THEN encode_frame("FD_TRANSFER", request,
                      [transfer_id |-> batch.transfer_id,
                       generation |-> batch.generation, entries |-> batch.entries,
                       count |-> Len(batch.entries),
                       fd_count |-> fd_count(batch.entries),
                       transactional |-> TRUE, reserved |-> 0])
    ELSE Malformed

decode_fd_batch(packet) ==
    LET p == packet.payload IN
    IF /\ OfKind(packet, {"FD_TRANSFER"})
       /\ p.count = Len(p.entries) /\ p.count \in 1..MAX_FD_ENTRIES
       /\ p.transactional /\ p.reserved = 0
       /\ \A i \in DOMAIN p.entries : EntryValid(p.entries[i])
       /\ p.fd_count = fd_count(p.entries)
    THEN [transfer_id |-> p.transfer_id, generation |-> p.generation,
          entries |-> p.entries]
    ELSE Malformed

encode_fd_ack(ack, request) ==
    IF Bytes(ack.error) <= MAX_ERROR_BYTES
    THEN encode_frame("FD_TRANSFER_ACK", request,
                      [transfer_id |-> ack.transfer_id, generation |-> ack.generation,
                       status |-> ack.status, error |-> ack.error,
                       length |-> Bytes(ack.error), reserved |-> 0])
    ELSE Malformed

decode_fd_ack(packet) ==
    LET p == packet.payload IN
    IF /\ OfKind(packet, {"FD_TRANSFER_ACK"})
       /\ p.reserved = 0 /\ p.length <= MAX_ERROR_BYTES
       /\ p.length = Bytes(p.error) /\ Decodable(p.error)
       /\ p.status \in ControlStatuses
    THEN [transfer_id |-> p.transfer_id, generation |-> p.generation,
          status |-> p.status, error |-> p.error]
    ELSE Malformed

encode_error(error, request) ==
    IF error.status # "OK" /\ Bytes(error.message) <= MAX_ERROR_BYTES
    THEN encode_frame("ERROR_RESPONSE", request,
                      [status |-> error.status, message |-> error.message,
                       length |-> Bytes(error.message)])
    ELSE Malformed

decode_error(packet) ==
    LET p == packet.payload IN
    IF /\ OfKind(packet, {"ERROR_RESPONSE"})
       /\ p.status # "OK" /\ p.status \in ControlStatuses
       /\ p.length <= MAX_ERROR_BYTES /\ p.length = Bytes(p.message)
       /\ Decodable(p.message)
    THEN [status |-> p.status, message |-> p.message]
    ELSE Malformed

encode_empty(kind, request) ==
    IF kind \in EmptyKinds THEN encode_frame(kind, request, NoPayload) ELSE Malformed

(* _empty_request, by which the worker reads PING and SHUTDOWN.            *)
decode_empty(packet, kind) ==
    IF OfKind(packet, {kind}) /\ packet.payload = NoPayload
    THEN NoPayload ELSE Malformed

----------------------------------------------------------------------------
(* _expected_fd_count: -1 when the payload does not decode.                *)
_expected_fd_count(packet) ==
    CASE packet.kind = "FD_TRANSFER" ->
            IF decode_fd_batch(packet) = Malformed THEN -1
            ELSE packet.payload.fd_count
      [] packet.kind = "STARTUP_REQUEST" ->
            IF decode_startup(packet, FALSE) = Malformed THEN -1
            ELSE Len(packet.payload.roles)
      [] packet.kind = "STARTUP_RESPONSE" ->
            IF decode_startup(packet, TRUE) = Malformed THEN -1
            ELSE Len(packet.payload.roles)
      [] OTHER -> 0

(* sendmsg_strict: what leaves the process, a datagram or nothing.         *)
sendmsg_strict(packet, fds) ==
    IF /\ packet # Malformed /\ decode_frame(packet) # Malformed
       /\ Len(fds) = _expected_fd_count(packet) /\ Len(fds) <= MAX_FD_ENTRIES
    THEN [packet |-> packet, ancillary |-> IF fds = <<>> THEN <<>> ELSE <<fds>>,
          truncated |-> FALSE]
    ELSE Malformed

(* _extract_fds: [fds, ok].  More than one control message is refused      *)
(* before any of them has been read.                                       *)
_extract_fds(ancillary) ==
    IF Len(ancillary) > 1 THEN [ok |-> FALSE, fds |-> <<>>, closed |-> {}]
    ELSE LET fds == FlattenSeq(ancillary) IN
         IF Len(fds) > MAX_FD_ENTRIES
         THEN [ok |-> FALSE, fds |-> <<>>, closed |-> ToSet(fds)]
         ELSE [ok |-> TRUE, fds |-> fds, closed |-> {}]

(* recvmsg_strict: the packet with exactly its descriptors, or an error    *)
(* after which all of them are closed.                                     *)
recvmsg_strict(datagram) ==
    LET taken == _extract_fds(datagram.ancillary)
        packet == datagram.packet
    IN  IF ~taken.ok THEN [ok |-> FALSE, fds |-> <<>>, closed |-> taken.closed]
        ELSE IF /\ ~datagram.truncated
                /\ decode_frame(packet) # Malformed
                /\ Len(taken.fds) = _expected_fd_count(packet)
             THEN [ok |-> TRUE, packet |-> packet, fds |-> taken.fds, closed |-> {}]
             ELSE [ok |-> FALSE, fds |-> <<>>, closed |-> ToSet(taken.fds)]

----------------------------------------------------------------------------
(* FdReceiver._serve, one entry of a batch.  An entry in raising is one    *)
(* that the cache refuses.  add closes its descriptor whether or not it    *)
(* raises; only after a success is the descriptor crossed out of the list  *)
(* that the error path closes.                                             *)
TakeEntry_Kept(acc, i, entries, fds, raising) ==
    LET fd == fds[acc.next] IN
    IF acc.failed THEN acc
    ELSE IF entries[i].kind = "RETIRE" THEN [acc EXCEPT !.failed = i \in raising]
    ELSE [acc EXCEPT !.next = @ + 1, !.closes[fd] = @ + 1, !.failed = i \in raising]

TakeEntry(acc, i, entries, fds, raising) ==
    LET fd == fds[acc.next] IN
    IF acc.failed THEN acc
    ELSE IF entries[i].kind = "RETIRE" THEN [acc EXCEPT !.failed = i \in raising]
    ELSE [acc EXCEPT !.next = @ + 1, !.closes[fd] = @ + 1, !.failed = i \in raising,
                     !.crossed = IF i \in raising THEN @ ELSE @ \cup {fd}]

Untaken(fds) ==
    [next |-> 1, failed |-> FALSE, crossed |-> {}, closes |-> [fd \in ToSet(fds) |-> 0]]

(* The entries in their order, up to the first that raises.                *)
TakeEntries(entries, fds, raising) ==
    LET taken[k \in 0 .. Len(entries)] ==
            IF k = 0 THEN Untaken(fds)
            ELSE TakeEntry(taken[k - 1], k, entries, fds, raising)
    IN  taken[Len(entries)]

(* The error path: whatever is not crossed out is closed, the descriptor   *)
(* whose add raised a second time.                                         *)
ServeBatch(received, generation, raising) ==
    LET fds == received.fds
        batch == decode_fd_batch(received.packet)
        begun == IF batch = Malformed \/ batch.generation # generation
                 THEN [Untaken(fds) EXCEPT !.failed = TRUE]
                 ELSE TakeEntries(batch.entries, fds, raising)
    IN  IF ~begun.failed THEN begun
        ELSE [begun EXCEPT !.closes =
                [fd \in ToSet(fds) |->
                    IF fd \in begun.crossed THEN @[fd] ELSE @[fd] + 1]]

----------------------------------------------------------------------------
(* A frame that its encoder accepts is sent with the descriptors of its    *)
(* message, received with the same ones, and read as it was written.       *)
FrameArrives(packet, fds, decoded, original) ==
    packet # Malformed =>
        /\ sendmsg_strict(packet, fds) # Malformed
        /\ recvmsg_strict(sendmsg_strict(packet, fds))
             = [ok |-> TRUE, packet |-> packet, fds |-> fds, closed |-> {}]
        /\ decoded = original

(* What the kernel hands to these sockets, which ask for no credentials    *)
(* and no timestamps: the descriptors of a datagram come in one control    *)
(* message.  Of two messages _extract_fds would close nothing.             *)
Deliverable(datagram) == Len(datagram.ancillary) <= 1

(* Of the descriptors that came with a datagram none is lost: they are all *)
(* returned with a frame that declares as many, or all closed.             *)
ReceivedAccounted(datagram) ==
    LET all == ToSet(FlattenSeq(datagram.ancillary))
        got == recvmsg_strict(datagram)
    IN  /\ got.ok => ToSet(got.fds) = all /\ got.closed = {}
        /\ ~got.ok => got.closed = all

(* A served batch closes every descriptor, and twice only the one whose   *)
(* own entry, the one with as many MAP entries up to it, raised.           *)
BatchAccounted(received, generation, raising) ==
    LET served == ServeBatch(received, generation, raising)
        entries == received.packet.payload.entries
    IN  \A j \in DOMAIN received.fds :
            /\ served.closes[received.fds[j]] >= 1
            /\ served.closes[received.fds[j]] > 1 =>
                 \E i \in raising :
                     /\ entries[i].kind = "MAP"
                     /\ j = Cardinality({h \in 1..i : entries[h].kind = "MAP"})

(* Both, from the socket to the end of the batch.                          *)
DatagramAccounted(datagram, generation) ==
    LET got == recvmsg_strict(datagram) IN
    /\ ReceivedAccounted(datagram)
    /\ got.ok /\ got.packet.kind = "FD_TRANSFER" =>
         \A raising \in SUBSET DOMAIN got.packet.payload.entries :
             BatchAccounted(got, generation, raising)
=============================================================================
