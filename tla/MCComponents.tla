--------------------------- MODULE MCComponents ----------------------------
(***************************************************************************)
(* The parts of WMFS that share no state with each other, in one run:      *)
(* part says which of them a behaviour is about.  Startup, log channel,    *)
(* arena and pool are specifications of their own; the codecs and the      *)
(* metadata are functions, and a step of theirs tries one of the inputs    *)
(* below.                                                                  *)
(***************************************************************************)
EXTENDS SessionStartup, LogChannel, Arena

VARIABLES
    part,       \* the part of the system that moves
    trial,      \* the input that was tried, None before
    place, length, generation, recipients, cachedBytes, closing,
    collection, phase, unasked, failedRegions, chosen   \* the pool's

poolVars == <<place, length, generation, recipients, cachedBytes, closing,
              collection, phase, unasked, failedRegions, chosen>>
others == <<part, trial>>
all == <<vars, logVars, arenaVars, poolVars, others>>

(* Two regions: a batch of both, a cache that a second small one overfills *)
(* in number and a large one in bytes, and a generation that runs out.     *)
Pool == INSTANCE BufferPool WITH
            collector <- collection, failed <- failedRegions,
            Regions <- {"r1", "r2"}, Sessions <- {"s1"}, Lengths <- {1, 3}, MaxGeneration <- 2,
            MaxCachedBuffers <- 1, MaxCachedBytes <- 2, NoRegion <- "none"

Log_ == INSTANCE LogCodec
Ring == INSTANCE RingRecords
Control == INSTANCE ControlFrames
Views == INSTANCE TensorViews WITH MAX_RANK <- 2
Calls == INSTANCE Invocations
Catalog == INSTANCE Manifests

None == [of |-> "none"]
SeqsUpTo(set, n) == UNION {[1..k -> set] : k \in 0..n}
Orders(set) == {s \in [1..Cardinality(set) -> set] : IsInjective(s)}

----------------------------------------------------------------------------
(* Log records: texts around every limit, names that are cut, integers at  *)
(* both ends of their range, and every limit from too small to too large.  *)
LogTexts == {<<>>, <<"a", "e">>, <<"e", "e">>, <<"a", "a", "a", "a">>}
FieldNames == {<<>>, <<"a">>, <<"a", "e">>, <<"e", "a">>}
FieldValues ==
    [type : {"int"}, n : {-5, -1, 7, 8}, text : {<<>>}]
      \cup [type : {"bool", "float", "other"}, n : {1}, text : {<<>>}]
      \cup [type : {"text"}, n : {0}, text : {<<"a", "e">>, <<"e", "e", "e">>}]

TryLogRecord ==
    \E side \in {"worker", "runtime"}, limit \in {1, 2, 5, 8, 12, 13},
       text \in LogTexts, level \in {20, 25},
       fields \in SeqsUpTo([name : FieldNames, value : FieldValues], 1)
                  \cup [1..2 -> [name : {<<"a">>, <<"e", "a">>}, value : FieldValues]]
                  \cup [1..3 -> [name : {<<"a">>, <<"e">>}, value :
                                    [type : {"bool"}, n : {1}, text : {<<>>}]]] :
        trial' = [of |-> "log", side |-> side, limit |-> limit,
                  record |-> [level |-> level, category |-> text, message |-> text,
                              fields |-> fields]]

----------------------------------------------------------------------------
(* Ring records.                                                           *)
Entries ==
    {[buffer_id |-> 1, generation |-> 7, offset |-> o, byte_length |-> 4, dtype |-> d,
      shape |-> s, strides |-> t, kind |-> k, parameter |-> 1, writable |-> k = 2] :
        o \in {0, 8}, d \in {"bool", "float32", "other"}, s \in {<<>>, <<2>>, <<2, 3>>, <<1, 1, 1>>},
        t \in {<<1>>, <<-4, 1>>}, k \in {1, 2}}
Scalars ==
    [parameter : {1}, kind : {"int64"}, value : {-5, -1, 3, 4, 8}, text : {<<>>}]
      \cup [parameter : {0}, kind : {"boolean"}, value : {0, 1}, text : {<<>>}]
      \cup [parameter : {8}, kind : {"float64"}, value : {5}, text : {<<>>}]
      \cup [parameter : {2}, kind : {"text"}, value : {0}, text : {<<>>, <<"a", "e">>, <<"e", "e">>}]
Outputs ==
    [output : {1}, dtype : {"int64", "other"}, shape : {<<>>, <<1>>, <<3, 2>>}]

Record_(tensors, scalars, outputs, text, submission) ==
    [kind |-> IF text = <<>> THEN 1 ELSE 257,      \* COMMAND_INVOKE, COMPLETION_INVOKE
     status |-> IF text = <<>> THEN 0 ELSE 4,      \* UNSET, OPERATION_ERROR
     generation |-> 1, submission_id |-> submission, invocation_id |-> 1,
     operation_id |-> 2, tensors |-> tensors, scalars |-> scalars,
     outputs |-> outputs, error_type |-> text, error_message |-> text]

TryRingRecord ==
    \E record \in {Record_(t, <<>>, <<>>, <<>>, 1) : t \in SeqsUpTo(Entries, 1)}
            \cup {Record_(<<>>, s, <<>>, <<>>, 1) : s \in SeqsUpTo(Scalars, 3)}
            \cup {Record_(<<>>, <<>>, o, <<>>, 1) : o \in SeqsUpTo(Outputs, 3)}
            \cup {Record_(<<>>, <<>>, <<>>, x, n) : x \in SeqsUpTo({"a", "e"}, 4), n \in {0, 1}} :
        trial' = [of |-> "ring", record |-> record]

----------------------------------------------------------------------------
(* Control frames and the datagrams that carry them.                       *)
Texts == SeqsUpTo({"a", "e"}, 3)
Batches ==
    [transfer_id : {1}, generation : {1, 2},
     entries : SeqsUpTo([kind : {"MAP", "RETIRE"}, flags : {{}, {"WRITABLE"}, {"OTHER"}}], 3)]
Frames ==
    [kind : {"startup"}, body : [generation : {1}, config : Texts, status : {"OK"},
        roles : SeqsUpTo({"COMMAND_RING", "LOG"}, 3)], response : BOOLEAN]
      \cup [kind : {"batch"}, body : Batches]
      \cup [kind : {"ack"}, body : [transfer_id : {1}, generation : {1},
                status : {"OK", "INVALID_ARGUMENT"}, error : Texts]]
      \cup [kind : {"error"}, body : [status : {"OK", "IDENTITY_MISMATCH"}, message : Texts]]
      \cup [kind : Control!EmptyKinds \cup {"OTHER"}, body : {Control!NoPayload}]

Packet(frame) ==
    CASE frame.kind = "startup" -> Control!encode_startup(frame.body, frame.response, 1)
      [] frame.kind = "batch"   -> Control!encode_fd_batch(frame.body, 1)
      [] frame.kind = "ack"     -> Control!encode_fd_ack(frame.body, 1)
      [] frame.kind = "error"   -> Control!encode_error(frame.body, 1)
      [] OTHER                  -> Control!encode_empty(frame.kind, 1)

(* The descriptors that go with a message.                                 *)
Attached(frame) ==
    CASE frame.kind = "startup" -> [i \in 1..Len(frame.body.roles) |-> 10 + i]
      [] frame.kind = "batch"   -> [i \in 1..Control!fd_count(frame.body.entries) |-> 10 + i]
      [] OTHER                  -> <<>>

ReadAs(frame, packet) ==
    CASE frame.kind = "startup" -> Control!decode_startup(packet, frame.response)
      [] frame.kind = "batch"   -> Control!decode_fd_batch(packet)
      [] frame.kind = "ack"     -> Control!decode_fd_ack(packet)
      [] frame.kind = "error"   -> Control!decode_error(packet)
      [] OTHER                  -> Control!decode_empty(packet, frame.kind)

TryControlFrame == \E frame \in Frames : trial' = [of |-> "control", frame |-> frame]

(* Datagrams with the wrong number of descriptors, truncated, with damaged *)
(* counts, and batches whose descriptors cannot be mapped.                 *)
TryDatagram ==
    \E frame \in {f \in Frames : f.kind \in {"startup", "batch", "ack"} /\ Packet(f) # Control!Malformed},
       fds \in {<<>>, <<11>>, <<11, 12>>, <<11, 12, 13>>}, truncated \in BOOLEAN, count \in {0, 1} :
        LET packet == Packet(frame) IN
        trial' = [of |-> "datagram",
                  datagram |->
                    [packet |-> IF frame.kind = "batch"
                                THEN [packet EXCEPT !.payload.fd_count = @ + count] ELSE packet,
                     ancillary |-> IF fds = <<>> THEN <<>> ELSE <<fds>>, truncated |-> truncated]]

----------------------------------------------------------------------------
(* Views: a 32-byte buffer and an allocation inside it.                    *)
TryView ==
    \E item \in {1, 4}, offset \in {0, 8, 28}, bytes \in {0, 4, 8, 28},
       shape \in {<<>>, <<1>>, <<3>>, <<2, 3>>, <<2, 0>>}, strides \in {<<4>>, <<-4>>, <<0, 4>>, <<12, 4>>, <<8, 1>>} :
        trial' = [of |-> "view",
                  view |-> [offset |-> offset, byte_length |-> bytes, item |-> item,
                            shape |-> shape, strides |-> strides]]

TryTensor ==
    \E item \in {1, 4}, start \in {0, 1, 3}, bytes \in {4, 16, 24},
       dims \in {[shape |-> s, stride |-> t] : s \in {<<1>>, <<3>>}, t \in {<<0>>, <<2>>, <<-1>>}}
            \cup {[shape |-> s, stride |-> t] : s \in {<<2, 2>>, <<2, 0>>}, t \in {<<2, 1>>, <<0, 1>>}} :
        trial' = [of |-> "tensor", allocation |-> [offset |-> 8, length |-> bytes],
                  tensor |-> [item |-> item, storage_offset |-> start] @@ dims]

----------------------------------------------------------------------------
(* Operations: every dimension and dtype expression, right and wrong, over *)
(* inputs of two ranks and scalars of every kind.                          *)
Input(access, variable, dtypes) == [access |-> access, variable |-> variable, dtypes |-> dtypes]
Inputs ==
    {<<Input("readOnly", "T", {})>>,
     <<Input("readWrite", "none", {}), Input("readOnly", "none", {"float32"})>>,
     <<Input("readOnly", "T", {}), Input("readOnly", "T", {})>>}
Value(type, n) == [type |-> type, n |-> n]
Parameter(name, kind, default, enum) ==
    [name |-> name, kind |-> kind, required |-> default = Calls!NoValue, default |-> default,
     enum |-> enum]
Flag == Parameter("keepDim", "boolean", Value("bool", 0), <<>>)
Factor == Parameter("factor", "float64", Calls!NoValue, <<>>)
Mode == Parameter("mode", "int64", Value("str", 6), <<5, 6>>)
Parameters == {<<>>, <<Flag, Factor>>, <<Mode>>}

Constant(n) == [kind |-> "constant", value |-> n]
Axis(i, a) == [kind |-> "inputAxis", input |-> i, axis |-> a]
Smallest(items) == [kind |-> "minimum", items |-> items]
Select(s, y, n) == [kind |-> "select", scalar |-> s, yes |-> y, no |-> n]
Simple == {Constant(2), Constant(0), Axis(0, 0), Axis(0, 1), Axis(1, 0), Axis(0, 2)}
Dimensions ==
    Simple \cup {Smallest(<<a, b>>) : a \in {Constant(2), Axis(0, 1)}, b \in Simple}
           \cup {Smallest(<<>>), Smallest(<<Smallest(<<Constant(1)>>)>>)}
           \cup {Select(i, a, Constant(1)) : i \in {0, 1, 2}, a \in Simple}
DTypes ==
    {[kind |-> "fixed", value |-> d] : d \in {"float64", "bool"}}
      \cup {[kind |-> "input", input |-> i, value |-> "none"] : i \in {0, 1}}
      \cup {[kind |-> "variable", value |-> v] : v \in {"T", "U"}}
      \cup {[kind |-> "promote", input |-> 0, scalar |-> i, value |-> "none"] : i \in {0, 1, 2}}
Known(shape, dtype) == [kind |-> "known", shape |-> shape, dtype |-> dtype]
Float == [kind |-> "fixed", value |-> "float64"]
Plans ==
    {<<Known([kind |-> "dimensions", items |-> <<d>>], Float)>> : d \in Dimensions}
      \cup {<<Known([kind |-> "sameShapeAsInput", input |-> i], t), [kind |-> "dynamic"]>> :
                i \in {0, 1}, t \in DTypes}
      \cup {<<[kind |-> "dynamic"], [kind |-> "dynamic"]>>}

Operation(inputs, scalars, plans) ==
    [inputs |-> inputs, scalars |-> scalars, plans |-> plans,
     variables |-> [T |-> {"float32", "int64"}], internal |-> FALSE, derived |-> FALSE]
Tensor(dtype, shape, alloc, grad) ==
    [dtype |-> dtype, shape |-> shape, alloc |-> alloc, grad |-> grad]
Planned == [shape |-> <<1, 2>>, dtype |-> "int64"]

(* The ways to pass scalars, some of them wrong.                           *)
Passed ==
    {[args |-> <<>>, named |-> <<>>], [args |-> <<Value("str", 5)>>, named |-> <<>>],
     [args |-> <<Value("int", 2)>>, named |-> <<>>],
     [args |-> <<Value("bool", 1), Value("int", 3)>>, named |-> <<>>],
     [args |-> <<>>, named |-> [keep_dim |-> Value("bool", 1), factor |-> Value("float", 2)]],
     [args |-> <<>>, named |-> [keepDim |-> Value("bool", 1), factor |-> Value("int", 2)]],
     [args |-> <<Value("bool", 1)>>, named |-> [keepDim |-> Value("bool", 0), factor |-> Value("int", 2)]]}

TryCall ==
    \E inputs \in Inputs, scalars \in Parameters, plans \in Plans, passed \in Passed,
       d \in {"float32", "int64"}, shape \in {<<3>>, <<3, 2>>, <<3, 0>>},
       default, workerDefault \in {"float32", "float64"} :
        trial' = [of |-> "call", op |-> Operation(inputs, scalars, plans), passed |-> passed,
                  default |-> default, workerDefault |-> workerDefault,
                  tensors |-> [i \in DOMAIN inputs |->
                                Tensor(IF i = 1 THEN d ELSE "float32", shape, i, FALSE)]]

(* What a planner may answer for an operation with a known output and two  *)
(* dynamic ones.                                                           *)
TryPlan ==
    \E planned \in SeqsUpTo([output : -1..3, shape : {<<1>>}, dtype : {"int64"}], 3)
                   \cup [1..1 -> [output : 1..2, shape : {<<>>, <<0>>, <<1, 1, 1>>}, dtype : {"int64", "other"}]],
       second \in {Planned, Calls!Pending.value} :
        trial' = [of |-> "plan", planned |-> planned, known |-> <<Planned, second, Calls!Pending.value>>]

(* The tensors of a call and the outputs it is to reuse, in the same and   *)
(* in different allocations.                                               *)
TryLeases ==
    \E a, b \in 0..2, outs \in SeqsUpTo([alloc : 0..3, grad : BOOLEAN], 2), shape \in {<<1>>, <<1, 2>>} :
        trial' = [of |-> "leases",
                  op |-> Operation(<<Input("readWrite", "none", {}), Input("readOnly", "none", {})>>, <<>>, <<>>),
                  tensors |-> <<Tensor("int64", <<1>>, a, FALSE), Tensor("int64", <<1>>, b, FALSE)>>,
                  specs |-> [i \in DOMAIN outs |-> Planned],
                  out |-> [i \in DOMAIN outs |-> Tensor("int64", shape, outs[i].alloc, outs[i].grad)]]

(* Derivatives: the lists of a VJP in every order, and targets whose enum  *)
(* is shorter than the operation's.                                        *)
TryBackward ==
    \E saved \in SeqsUpTo({0, 1, 2}, 2), gradients \in SeqsUpTo({0, 1, 2}, 2), used \in SeqsUpTo({0, 1, 2}, 2),
       needed \in SUBSET {1, 2}, internal \in BOOLEAN, narrow \in {Mode, Parameter("mode", "int64", Calls!NoValue, <<5>>)},
       values \in {<<Value("float", 2), Value("int", 1)>>, <<Value("int", 2), Value("str", 6)>>} :
        trial' = [of |-> "backward", needed |-> needed, scalars |-> values,
                  op |-> Operation(<<Input("readOnly", "none", {}), Input("readOnly", "none", {})>>,
                                   <<Factor, Mode>>, <<[kind |-> "dynamic"]>>),
                  vjp |-> [saved_inputs |-> saved, saved_outputs |-> <<>>, cotangents |-> <<0>>,
                           gradients |-> gradients, scalars |-> used],
                  target |-> [Operation([i \in 1..Len(saved) + 1 |-> Input("readOnly", "none", {})],
                                        [i \in DOMAIN used |-> IF used[i] = 1 THEN narrow ELSE Factor],
                                        [i \in DOMAIN gradients |-> [kind |-> "dynamic"]])
                              EXCEPT !.internal = internal]]

----------------------------------------------------------------------------
(* Plugins that share names, in every order and also twice.                *)
Plugins_ ==
    [name : {"p"}, ops : {{[name |-> "add", internal |-> FALSE], [name |-> "mul", internal |-> FALSE]},
                          {[name |-> "add", internal |-> TRUE]}}]
      \cup [name : {"q", "r", "s"}, ops : {{[name |-> "add", internal |-> FALSE]}, {[name |-> "mul", internal |-> FALSE]}}]

TryPlugins == \E plugins \in SeqsUpTo(Plugins_, 3) : trial' = [of |-> "plugins", plugins |-> plugins]

(* Documents of both formats, each with one field changed.                 *)
Document(format) ==
    [f \in Catalog!ManifestFields |->
        CASE f = "formatVersion" -> format
          [] f = "generator"     -> format
          [] f = "operations"    -> [count |-> 2, core |-> 1, dtypes |-> 1]
          [] f = "operationCount" -> 2
          [] OTHER -> IF format = 1 /\ f \in Catalog!FormatTwoFields THEN 0 ELSE 1]

TryManifest ==
    \E format \in {1, 2}, field \in Catalog!ManifestFields :
    \E value \in IF field = "operations" THEN [count : 1..2, core : 1..2, dtypes : 1..2] ELSE 0..3 :
        trial' = [of |-> "manifest", format |-> format, field |-> field, value |-> value]

(* Output declarations.                                                    *)
DimensionDocs ==
    {[kind |-> "constant", axis |-> 2], [kind |-> "input_axis", input |-> 0, axis |-> 1],
     [kind |-> "minimum", operands |-> <<[kind |-> "constant", axis |-> 0], [kind |-> "input_axis", input |-> 1, axis |-> 0]>>],
     [kind |-> "select", scalar |-> 0, when_true |-> [kind |-> "constant", axis |-> 1],
      when_false |-> [kind |-> "constant", axis |-> 2]]}
TypeDocs ==
    {[kind |-> "null"], [kind |-> "fixed", value |-> "int64"], [kind |-> "input", input |-> 0],
     [kind |-> "variable", variable |-> "T"], [kind |-> "promote_tensor_scalar", input |-> 1, scalar |-> 0]}

OperationDocs ==
    [inputs : SeqsUpTo([access : {"read_only", "read_write", "other"}, dtype_variable : {Catalog!NoKey, 1},
                        dtypes : {<<"int64">>}], 2),
     outputs : SeqsUpTo([allocation : {"dynamic", "other"}, dimensions : {<<>>}, dtype : {[kind |-> "null"]},
                         same_shape_as_input : {Catalog!NoKey}], 1),
     scalars : SeqsUpTo([kind : {"boolean", "int64"}, required : {Value("bool", 0), Value("bool", 1), Value("int", 1)},
                         default : {Calls!NoValue}, enum : {Catalog!NoKey, 1}, enum_values : {<<5>>}], 1),
     internal : {Value("bool", 0), Value("bool", 1), Value("int", 1)},
     vjp : {Catalog!NoVjp, [operation_id |-> 2, saved_inputs |-> <<0>>, saved_outputs |-> <<>>,
                            output_cotangents |-> <<0>>, input_gradients |-> <<0>>, scalar_parameters |-> <<>>]},
     dtype_variables : {<<>>, <<[name |-> 1, dtypes |-> <<"int64">>]>>}]

TryOperation == \E doc \in OperationDocs : trial' = [of |-> "operation", doc |-> doc]

TryOutput ==
    \E doc \in [allocation : {"dynamic", "known", "other"}, dimensions : SeqsUpTo(DimensionDocs, 2),
                dtype : TypeDocs, same_shape_as_input : {Catalog!NoKey, 0, 1}] :
        trial' = [of |-> "output", doc |-> doc]

(* Configurations: the same names in every order, values of every type at  *)
(* and beyond their bounds.                                                *)
Schema(type, low, high, enum, default) ==
    [type |-> type, minimum |-> low, maximum |-> high, enum |-> enum, default |-> default]
Properties ==
    [p \in 1..3 |->
        CASE p = 1 -> Schema("integer", Value("int", 1), Value("int", 3), {}, Value("int", 2))
          [] p = 2 -> Schema("number", Value("int", 1), Catalog!Absent, {Value("int", 1), Value("float", 2)}, Catalog!Absent)
          [] p = 3 -> Schema("string", Value("int", 1), Value("int", 1), {}, Value("str", 1))]

TryConfiguration ==
    \E order \in SeqsUpTo({1, 2, 3, 4}, 3), values \in [1..3 -> {Value("int", 1), Value("float", 2), Value("bool", 1), Value("str", 1)}],
       required \in {{}, {1}}, given \in BOOLEAN, high \in {0, 3} :
        /\ IsInjective(order)
        /\ trial' = [of |-> "configuration", required |-> required,
                     properties |-> [Properties EXCEPT ![1].maximum = Value("int", high)],
                     config |-> [given |-> given, items |-> [i \in DOMAIN order |-> <<order[i], values[i]>>]]]

----------------------------------------------------------------------------
Try ==
    /\ part = "functions" /\ trial = None
    /\ \/ TryLogRecord \/ TryRingRecord \/ TryControlFrame \/ TryDatagram
       \/ TryView \/ TryTensor \/ TryCall \/ TryPlan \/ TryLeases \/ TryBackward
       \/ TryPlugins \/ TryManifest \/ TryOperation \/ TryOutput \/ TryConfiguration
    /\ UNCHANGED <<vars, logVars, arenaVars, poolVars, part>>

StartupAlone(A) == part = "startup" /\ A /\ UNCHANGED <<logVars, arenaVars, poolVars, others>>
LogAlone(A) == part = "log" /\ A /\ UNCHANGED <<vars, arenaVars, poolVars, others>>
ArenaAlone(A) == part = "arena" /\ A /\ UNCHANGED <<vars, logVars, poolVars, others>>
PoolAlone(A) == part = "pool" /\ A /\ UNCHANGED <<vars, logVars, arenaVars, others>>

(* A part that does not move stays in one of its initial states.           *)
ComponentsInit ==
    /\ part \in {"startup", "log", "arena", "pool", "functions"} /\ trial = None
    /\ Init /\ LogInit /\ ArenaInit /\ Pool!Init
    /\ part # "startup" => mode = "disabled" /\ declared = {}
    /\ part # "log" => sink = "socket"

ComponentsNext ==
    \/ StartupAlone(Next) \/ LogAlone(LogNext) \/ ArenaAlone(ArenaNext) \/ PoolAlone(Pool!Next)
    \/ Try

(* The fairness of the parts, as in their own modules.                     *)
ComponentsSpec ==
    /\ ComponentsInit /\ [][ComponentsNext]_all
    /\ WF_all(StartupAlone(ConnectionStep)) /\ WF_all(StartupAlone(ConstructorStep))
    /\ WF_all(LogAlone(SenderStep)) /\ WF_all(LogAlone(CollectorStep))

----------------------------------------------------------------------------
(* Nothing the memory manager hands out is lost or handed out too early:   *)
(* no region is stranded between the lists of the pool, although a reset   *)
(* that raises ends a collection in the middle of its batch; the cache     *)
(* keeps its limits and stays empty after close(), although both are       *)
(* tested by hand between two locked sections; the counter of idle bytes   *)
(* is the sum of what is cached; and the arena goes only after the last    *)
(* storage on it (BufferManager._collect, _reset_or_release_region,        *)
(* _release_arena, close).                                                 *)
MemoryAccounted == Pool!PoolInv /\ Pool!BytesAccounted /\ ArenaOutlivesStorages

(* Every startup comes to an end, and a constructor whose deadline expires *)
(* is followed by the end of the connection (WorkerSession.__init__,       *)
(* _abort_startup; stated in SessionStartup).                              *)
StartupsEnd == part = "startup" => StartupEnds

(* What one side encodes the other side reads: a log record whose names    *)
(* differ after they were cut, marked when something of it is missing; a   *)
(* ring record none of whose error texts is cut inside a character, and    *)
(* none whose layout was damaged; a control frame, which is sent and       *)
(* received with the descriptors of its message (the codecs of the runtime *)
(* and of the plugin package are written independently of each other).     *)
MessagesReadBack ==
    CASE trial.of = "log"     -> Log_!LogArrives(trial.side, trial.record, trial.limit)
      [] trial.of = "ring"    -> Ring!RecordArrives(trial.record) /\ Ring!DamageRefused(trial.record)
      [] trial.of = "control" ->
            LET packet == Packet(trial.frame) IN
            Control!FrameArrives(packet, Attached(trial.frame),
                                 ReadAs(trial.frame, packet), trial.frame.body)
      [] OTHER -> TRUE

(* A worker's error reaches the caller whatever its length: the texts are  *)
(* shortened and the flags say so.  The code cuts them at a byte, and no   *)
(* reader takes half a character: ErrorTexts.cfg shows the record that is  *)
(* refused.                                                                *)
ErrorTextsArrive ==
    trial.of = "ring" => Ring!RecordReadBack(trial.record)

(* No descriptor that came with a control datagram is lost: recvmsg_strict *)
(* returns or closes them all, and FdReceiver closes every one it was      *)
(* handed, and twice none but the one whose entry it refused.              *)
DescriptorsAccounted ==
    trial.of = "datagram" => Control!DatagramAccounted(trial.datagram, 1)

(* The worker accepts the call that was tried.                             *)
CallAccepted ==
    Calls!CallAccepted(trial.op, trial.tensors, trial.passed.args, trial.passed.named,
                       Planned, trial.default, trial.workerDefault)

(* Runtime and worker agree on a call: metadata that was validated never   *)
(* leads to an index out of range, the worker accepts what the runtime     *)
(* bound and planned as long as both processes have the same Torch default *)
(* dtype, a planner's answer covers the dynamic outputs and nothing else,  *)
(* the leases cover what is touched, and the backward call binds what the  *)
(* forward call bound.  The views the runtime describes are accepted and   *)
(* stay inside their allocation, and a view that the worker builds a       *)
(* tensor on stays inside its mapping.                                     *)
CallsAgree ==
    CASE trial.of = "call"     ->
            /\ Calls!CallPlanned(trial.op, trial.tensors, trial.passed.args,
                                 trial.passed.named, Planned, trial.default)
            /\ trial.default = trial.workerDefault => CallAccepted
      [] trial.of = "plan"     -> Calls!PlanGuarded(trial.known, trial.planned)
      [] trial.of = "leases"   -> Calls!LeasesCover(trial.op, trial.tensors, trial.specs, trial.out)
      [] trial.of = "backward" -> Calls!BackwardAgrees(trial.op, trial.vjp, trial.target,
                                                       trial.scalars, trial.needed)
      [] trial.of = "view"     -> Views!ViewInside(32, trial.view)
      [] trial.of = "tensor"   -> Views!ViewAccepted(32, trial.allocation, trial.tensor)
      [] OTHER -> TRUE

(* What the runtime believes about a plugin is what the worker was         *)
(* generated from: a short name leads to its only owner, a changed         *)
(* manifest is refused or its worker is, declarations of operations and of *)
(* outputs mean the same on both sides, and a configuration survives its   *)
(* encoding.                                                               *)
CatalogAgrees ==
    CASE trial.of = "plugins"  -> Catalog!NamesUnambiguous(trial.plugins)
      [] trial.of = "manifest" -> Catalog!ManifestGuarded(Document(trial.format), trial.field, trial.value)
      [] trial.of = "operation" -> Catalog!OperationAgrees(trial.doc)
      [] trial.of = "output"   -> Catalog!OutputAgrees(trial.doc)
      [] trial.of = "configuration" ->
            Catalog!ConfigurationArrives(trial.config, trial.properties, trial.required)
      [] OTHER -> TRUE
=============================================================================
