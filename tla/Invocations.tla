---------------------------- MODULE Invocations -----------------------------
(***************************************************************************)
(* One call of an isolated operation, as pure functions: the validation of *)
(* the operation's metadata, the binding of arguments, the evaluation of   *)
(* the output plans, the binding of reusable outputs, the leases that are  *)
(* reserved, the checks the worker repeats on what it receives, and the    *)
(* backward call of a VJP.                                                 *)
(*                                                                         *)
(* Metadata indexes count from 0 as in the code.  A scalar value is        *)
(* [type, n]; the names of an enum are numbers.  A failed computation      *)
(* yields a record whose ok is FALSE; an index beyond a list, which the    *)
(* code would meet as an IndexError or a KeyError, yields Crash.           *)
(***************************************************************************)
EXTENDS Integers, Sequences, FiniteSets, SequencesExt

SUPPORTED_OUTPUT_DTYPES == {"float32", "float64", "int64"}
MaxOutputs == 2             \* _MAX_OUTPUTS
MaxTensorRank == 2          \* _MAX_RANK
MaxExpressionDepth == 2     \* _MAX_EXPRESSION_DEPTH

NoValue == [type |-> "none", n |-> 0]
Failed(why) == [ok |-> FALSE, why |-> why]
Crash == Failed("crash")
Done(value) == [ok |-> TRUE, value |-> value]

Has(list, i) == 0 <= i /\ i < Len(list)
Item(list, i) == list[i + 1]
IndexesOf(list) == 0..Len(list) - 1

----------------------------------------------------------------------------
(* Validation of operation metadata.                                       *)
_scalar_matches_kind(value, kind) ==
    CASE kind = "boolean" -> value.type = "bool"
      [] kind = "float64" -> value.type \in {"float", "int"}
      [] kind = "int64"   -> value.type = "int"
      [] kind = "text"    -> value.type = "str"

ValidScalar(scalar) ==
    /\ scalar.name # "out"
    /\ scalar.kind \in {"boolean", "float64", "int64", "text"}
    /\ scalar.required <=> scalar.default = NoValue
    /\ IF scalar.enum = <<>>
       THEN scalar.default = NoValue \/ _scalar_matches_kind(scalar.default, scalar.kind)
       ELSE /\ scalar.kind = "int64" /\ IsInjective(scalar.enum)
            /\ \/ scalar.default = NoValue
               \/ scalar.default.type = "str" /\ scalar.default.n \in ToSet(scalar.enum)

_validate_dtypes(dtypes) == dtypes # {} /\ dtypes \subseteq SUPPORTED_OUTPUT_DTYPES

RECURSIVE _validate_dimension(_, _, _)
_validate_dimension(e, op, depth) ==
    /\ depth < MaxExpressionDepth
    /\ CASE e.kind = "constant"  -> e.value > 0
         [] e.kind = "inputAxis" -> Has(op.inputs, e.input) /\ e.axis \in 0..MaxTensorRank - 1
         [] e.kind = "minimum"   ->
                e.items # <<>> /\ \A i \in DOMAIN e.items :
                    _validate_dimension(e.items[i], op, depth + 1)
         [] e.kind = "select"    ->
                /\ Has(op.scalars, e.scalar)
                /\ Item(op.scalars, e.scalar).kind = "boolean"
                /\ _validate_dimension(e.yes, op, depth + 1)
                /\ _validate_dimension(e.no, op, depth + 1)

_validate_known_output(known, op) ==
    /\ CASE known.shape.kind = "sameShapeAsInput" -> Has(op.inputs, known.shape.input)
         [] known.shape.kind = "dimensions" ->
                /\ Len(known.shape.items) \in 1..MaxTensorRank
                /\ \A i \in DOMAIN known.shape.items :
                        _validate_dimension(known.shape.items[i], op, 0)
    /\ CASE known.dtype.kind = "fixed" -> known.dtype.value \in SUPPORTED_OUTPUT_DTYPES
         [] known.dtype.kind = "input" -> Has(op.inputs, known.dtype.input)
         [] known.dtype.kind = "variable" -> known.dtype.value \in DOMAIN op.variables
         [] known.dtype.kind = "promote" ->
                /\ Has(op.inputs, known.dtype.input) /\ Has(op.scalars, known.dtype.scalar)
                /\ Item(op.scalars, known.dtype.scalar).kind # "text"

Dynamic(op) == {i \in IndexesOf(op.plans) : Item(op.plans, i).kind = "dynamic"}

validate_operation_metadata(op) ==
    /\ Len(op.plans) <= MaxOutputs
    /\ Dynamic(op) # {} => \A i \in DOMAIN op.inputs : op.inputs[i].access # "readWrite"
    /\ \A i \in DOMAIN op.scalars : ValidScalar(op.scalars[i])
    /\ \A v \in DOMAIN op.variables : _validate_dtypes(op.variables[v])
    /\ \A i \in DOMAIN op.inputs :
        IF op.inputs[i].variable # "none"
        THEN op.inputs[i].variable \in DOMAIN op.variables
        ELSE op.inputs[i].dtypes = {} \/ _validate_dtypes(op.inputs[i].dtypes)
    /\ \A i \in IndexesOf(op.plans) \ Dynamic(op) : _validate_known_output(Item(op.plans, i), op)

(* _validate_vjp: the operation, the plan of its derivative and the target *)
(* the plan names; derived says that an operation has a VJP of its own.    *)
_validate_vjp(op, vjp, target) ==
    LET Refers(list, count) == IsInjective(list) /\ ToSet(list) \subseteq 0..count - 1 IN
    /\ target # op /\ ~target.derived /\ target.internal
    /\ \A i \in DOMAIN target.inputs : target.inputs[i].access = "readOnly"
    /\ vjp.cotangents # <<>> /\ vjp.gradients # <<>>
    /\ Refers(vjp.saved_inputs, Len(op.inputs)) /\ Refers(vjp.saved_outputs, Len(op.plans))
    /\ Refers(vjp.cotangents, Len(op.plans)) /\ Refers(vjp.gradients, Len(op.inputs))
    /\ Refers(vjp.scalars, Len(op.scalars))
    /\ Len(target.inputs) = Len(vjp.saved_inputs) + Len(vjp.saved_outputs) + Len(vjp.cotangents)
    /\ Len(target.plans) = Len(vjp.gradients)
    /\ Len(target.scalars) = Len(vjp.scalars)
    /\ \A i \in DOMAIN vjp.scalars : target.scalars[i].kind = Item(op.scalars, vjp.scalars[i]).kind

----------------------------------------------------------------------------
(* Binding of the arguments.                                               *)

(* _python_parameter_name: camelCase to snake_case.                        *)
_python_parameter_name(name) == IF name = "keepDim" THEN "keep_dim" ELSE name

_coerce_scalar(parameter, value) ==
    IF parameter.enum # <<>>
    THEN CASE value.type = "str" /\ value.n \in ToSet(parameter.enum) ->
                Done([type |-> "int",
                      n |-> (CHOOSE i \in DOMAIN parameter.enum : parameter.enum[i] = value.n) - 1])
           [] value.type = "int" /\ Has(parameter.enum, value.n) -> Done(value)
           [] OTHER -> Failed("enum")
    ELSE IF ~_scalar_matches_kind(value, parameter.kind) THEN Failed("kind")
    ELSE Done(IF parameter.kind = "float64" THEN [value EXCEPT !.type = "float"] ELSE value)

(* One parameter: positional, by its Python name, by its own name, by      *)
(* default, or missing.                                                    *)
BindOne(acc, parameter, positional) ==
    LET index == Len(acc.values)
        py == _python_parameter_name(parameter.name)
        named == {py, parameter.name} \cap DOMAIN acc.remaining
        key == IF py \in named THEN py ELSE parameter.name
        value == IF index < Len(positional) THEN Item(positional, index)
                 ELSE IF named # {} THEN acc.remaining[key]
                 ELSE parameter.default
        rest == IF index < Len(positional) \/ named = {} THEN acc.remaining
                ELSE [k \in DOMAIN acc.remaining \ {key} |-> acc.remaining[k]]
        coerced == _coerce_scalar(parameter, value)
    IN  IF ~acc.ok THEN acc
        ELSE IF \/ index < Len(positional) /\ named # {}
                \/ value = NoValue
                \/ ~coerced.ok
             THEN [acc EXCEPT !.ok = FALSE]
             ELSE [acc EXCEPT !.values = Append(@, coerced.value), !.remaining = rest]

bind_scalars(op, positional, kwargs) ==
    LET bound == FoldLeft(LAMBDA acc, p : BindOne(acc, p, positional),
                          [ok |-> TRUE, values |-> <<>>, remaining |-> kwargs], op.scalars)
    IN  IF Len(positional) > Len(op.scalars) \/ ~bound.ok \/ DOMAIN bound.remaining # {}
        THEN Failed("scalars") ELSE Done(bound.values)

(* A tensor is [dtype, shape, alloc, grad]; alloc 0 is memory that the     *)
(* buffer manager does not know.                                           *)
_validate_tensor_dtypes(op, tensors) ==
    \A i \in DOMAIN tensors :
        LET p == op.inputs[i] IN
        IF p.variable # "none"
        THEN /\ tensors[i].dtype \in op.variables[p.variable]
             /\ \A j \in 1..i : op.inputs[j].variable = p.variable
                                => tensors[j].dtype = tensors[i].dtype
        ELSE p.dtypes = {} \/ tensors[i].dtype \in p.dtypes

(* out is a sequence of tensors; <<>> when the caller passed none.         *)
bind_invocation(op, tensors, positional, kwargs, out) ==
    LET scalars == bind_scalars(op, positional, kwargs) IN
    IF \/ Len(tensors) # Len(op.inputs)
       \/ out # <<>> /\ \E i \in DOMAIN tensors : tensors[i].grad
       \/ ~scalars.ok \/ ~_validate_tensor_dtypes(op, tensors)
    THEN Failed("arguments")
    ELSE Done([scalars |-> scalars.value,
               writable |-> [i \in DOMAIN tensors |-> op.inputs[i].access = "readWrite"]])

(* reserve_invocation_access: the leases of the call.                      *)
reserve_invocation_access(tensors, bound, out) ==
    [reads |-> {tensors[i].alloc : i \in {j \in DOMAIN tensors : ~bound.writable[j]}} \ {0},
     writes |-> ({tensors[i].alloc : i \in {j \in DOMAIN tensors : bound.writable[j]}}
                 \cup {out[i].alloc : i \in DOMAIN out}) \ {0}]

----------------------------------------------------------------------------
(* Output plans.                                                           *)
RECURSIVE _evaluate_dimension(_, _, _)
_evaluate_dimension(e, inputs, scalars) ==
    CASE e.kind = "constant" -> Done(e.value)
      [] e.kind = "inputAxis" ->
            IF ~Has(inputs, e.input) THEN Crash
            ELSE IF ~Has(Item(inputs, e.input).shape, e.axis) THEN Failed("axis")
            ELSE Done(Item(Item(inputs, e.input).shape, e.axis))
      [] e.kind = "minimum" ->
            LET all == {_evaluate_dimension(e.items[i], inputs, scalars) : i \in DOMAIN e.items}
                bad == {r \in all : ~r.ok}
            IN  IF all = {} THEN Crash
                ELSE IF bad # {} THEN CHOOSE r \in bad : TRUE
                ELSE CHOOSE r \in all : \A s \in all : r.value <= s.value
      [] e.kind = "select" ->
            IF ~Has(scalars, e.scalar) THEN Crash
            ELSE _evaluate_dimension(IF Item(scalars, e.scalar).n # 0 THEN e.yes ELSE e.no,
                                     inputs, scalars)

(* torch.result_type of a tensor and a Python number (external).           *)
result_type(dtype, value, default) ==
    IF dtype = "int64" /\ value.type = "float" THEN default ELSE dtype

_evaluate_dtype(e, op, inputs, scalars, default) ==
    LET users == {i \in DOMAIN op.inputs : op.inputs[i].variable = e.value} IN
    CASE e.kind = "fixed" -> Done(e.value)
      [] e.kind = "input" -> IF Has(inputs, e.input) THEN Done(Item(inputs, e.input).dtype) ELSE Crash
      [] e.kind = "variable" ->
            IF users = {} THEN Failed("unbound")
            ELSE Done(inputs[CHOOSE i \in users : \A j \in users : i <= j].dtype)
      [] e.kind = "promote" ->
            IF ~Has(inputs, e.input) \/ ~Has(scalars, e.scalar) THEN Crash
            ELSE IF Item(scalars, e.scalar).type = "str" THEN Failed("text")
            ELSE Done(result_type(Item(inputs, e.input).dtype, Item(scalars, e.scalar), default))

GoodShape(shape) ==
    Len(shape) \in 1..MaxTensorRank /\ \A i \in DOMAIN shape : shape[i] > 0

(* evaluate_outputs, for one plan: a specification, a failure, or the mark *)
(* of an output that the worker plans.                                     *)
Pending == Done([shape |-> <<>>, dtype |-> "dynamic"])

EvaluatePlan(plan, op, inputs, scalars, default) ==
    IF plan.kind = "dynamic" THEN Pending
    ELSE LET dims == IF plan.shape.kind = "sameShapeAsInput" THEN <<>>
                     ELSE [i \in DOMAIN plan.shape.items |->
                            _evaluate_dimension(plan.shape.items[i], inputs, scalars)]
             bad == {i \in DOMAIN dims : ~dims[i].ok}
             shape == IF plan.shape.kind = "sameShapeAsInput"
                      THEN Item(inputs, plan.shape.input).shape
                      ELSE [i \in DOMAIN dims |-> dims[i].value]
             dtype == _evaluate_dtype(plan.dtype, op, inputs, scalars, default)
         IN  IF plan.shape.kind = "sameShapeAsInput" /\ ~Has(inputs, plan.shape.input) THEN Crash
             ELSE IF bad # {} THEN dims[CHOOSE i \in bad : \A j \in bad : i <= j]
             ELSE IF ~GoodShape(shape) THEN Failed("shape")
             ELSE IF ~dtype.ok THEN dtype
             ELSE Done([shape |-> shape, dtype |-> dtype.value])

evaluate_outputs(op, inputs, scalars, default) ==
    [i \in DOMAIN op.plans |-> EvaluatePlan(op.plans[i], op, inputs, scalars, default)]

(* Fault: a planned output may replace one that is already there.          *)
CompleteOne_Overwrites(acc, planned) ==
    IF ~acc.ok \/ ~Has(acc.value, planned.output)
       \/ ~GoodShape(planned.shape) \/ planned.dtype \notin SUPPORTED_OUTPUT_DTYPES
    THEN Failed("planned")
    ELSE Done([acc.value EXCEPT ![planned.output + 1] =
                [shape |-> planned.shape, dtype |-> planned.dtype]])

CompleteOne(acc, planned) ==
    IF \/ ~acc.ok \/ ~Has(acc.value, planned.output)
       \/ Item(acc.value, planned.output) # Pending.value
       \/ ~GoodShape(planned.shape) \/ planned.dtype \notin SUPPORTED_OUTPUT_DTYPES
    THEN Failed("planned")
    ELSE Done([acc.value EXCEPT ![planned.output + 1] =
                [shape |-> planned.shape, dtype |-> planned.dtype]])

complete_outputs(known, planned) ==
    LET all == FoldLeft(CompleteOne, Done(known), planned) IN
    IF all.ok /\ \E i \in DOMAIN all.value : all.value[i] = Pending.value
    THEN Failed("unplanned") ELSE all

(* bind_reusable_outputs: the caller's tensors fit, are managed and alias  *)
(* neither an input nor each other.                                        *)
BindsReusable(specs, inputs, out) ==
    /\ Len(out) = Len(specs)
    /\ \A i \in DOMAIN out :
        /\ ~out[i].grad /\ out[i].alloc # 0
        /\ out[i].shape = specs[i].shape /\ out[i].dtype = specs[i].dtype
        /\ \A j \in DOMAIN inputs : inputs[j].alloc # out[i].alloc
        /\ \A j \in 1..i - 1 : out[j].alloc # out[i].alloc

----------------------------------------------------------------------------
(* The worker's side.                                                      *)

(* _invocation_record: the scalars of the command.                         *)
ScalarArguments(op, scalars) ==
    [i \in DOMAIN scalars |->
        [parameter |-> i - 1, kind |-> op.scalars[i].kind, value |-> scalars[i]]]

_decode_scalars(arguments, op) ==
    IF /\ \A i \in DOMAIN arguments :
            /\ Has(op.scalars, arguments[i].parameter)
            /\ Item(op.scalars, arguments[i].parameter).kind = arguments[i].kind
            /\ \A j \in 1..i - 1 : arguments[j].parameter # arguments[i].parameter
       /\ Len(arguments) = Len(op.scalars)
    THEN Done([i \in DOMAIN op.scalars |->
                arguments[CHOOSE j \in DOMAIN arguments :
                            arguments[j].parameter = i - 1].value])
    ELSE Failed("scalars")

(* InvocationContext: the dtypes of the inputs, the ranges of the enums    *)
(* and the dtypes of the outputs are checked again.                        *)
ContextAccepts(op, inputs, outputs, scalars, default) ==
    /\ _validate_tensor_dtypes(op, inputs)
    /\ \A i \in DOMAIN op.scalars :
        op.scalars[i].enum # <<>> => scalars[i].type = "int" /\ Has(op.scalars[i].enum, scalars[i].n)
    /\ \A i \in IndexesOf(op.plans) \ Dynamic(op) :
        LET expected == _evaluate_dtype(Item(op.plans, i).dtype, op, inputs, scalars, default)
        IN  expected.ok /\ Item(outputs, i).dtype = expected.value

(* _invoke_known_direct and _invoke_known_profiled up to the handler.      *)
WorkerAccepts(op, inputs, outputs, arguments, default) ==
    LET scalars == _decode_scalars(arguments, op) IN
    /\ Len(inputs) = Len(op.inputs) /\ Len(outputs) = Len(op.plans)
    /\ scalars.ok
    /\ ContextAccepts(op, inputs, outputs, scalars.value, default)

(* _plan_outputs: the planner must name the dynamic outputs, each once.    *)
PlannerAccepted(op, named) == named = Dynamic(op)

----------------------------------------------------------------------------
(* _VjpFunction: the arguments of the backward call.                       *)
BackwardScalars(vjp, scalars) == [i \in DOMAIN vjp.scalars |-> Item(scalars, vjp.scalars[i])]

(* What reaches Torch: one gradient per input, in the input's place.       *)
InputGradients(op, vjp, needed) ==
    [i \in DOMAIN op.inputs |->
        IF \E k \in DOMAIN vjp.gradients : vjp.gradients[k] = i - 1 /\ i \in needed
        THEN CHOOSE k \in DOMAIN vjp.gradients : vjp.gradients[k] = i - 1 ELSE 0]

----------------------------------------------------------------------------
AllOk(results) == \A i \in DOMAIN results : results[i].ok
Values(results) == [i \in DOMAIN results |-> results[i].value]

(* A planner that answers for every dynamic output of the operation.       *)
PlannedBy(op, spec) ==
    [k \in 1..Cardinality(Dynamic(op)) |->
        [output |-> SetToSortSeq(Dynamic(op), <)[k], shape |-> spec.shape, dtype |-> spec.dtype]]

(* A call of an operation whose metadata was accepted, once its arguments  *)
(* are bound, either fails for the reasons the plans may fail for or gets  *)
(* its output specifications: no expression meets an index the validation  *)
(* let through, and the planner's answer completes what is known.          *)
CallPlanned(op, tensors, positional, kwargs, spec, default) ==
    LET bound == bind_invocation(op, tensors, positional, kwargs, <<>>) IN
    validate_operation_metadata(op) /\ bound.ok =>
        LET scalars == bound.value.scalars
            known == evaluate_outputs(op, tensors, scalars, default)
            planned == PlannedBy(op, spec)
            specs == complete_outputs(Values(known), planned)
        IN  /\ \A i \in DOMAIN known : known[i].ok \/ known[i].why \in {"axis", "shape", "unbound"}
            /\ bind_scalars(op, scalars, <<>>) = Done(scalars)
            /\ AllOk(known) =>
                /\ PlannerAccepted(op, {planned[k].output : k \in DOMAIN planned})
                /\ specs.ok
                /\ \A i \in DOMAIN known : known[i] # Pending => specs.value[i] = known[i].value

(* And the worker accepts it: what the runtime derived from the metadata,  *)
(* with the default dtype of its process, is what the worker derives again *)
(* with that of its own.                                                   *)
CallAccepted(op, tensors, positional, kwargs, spec, default, workerDefault) ==
    LET bound == bind_invocation(op, tensors, positional, kwargs, <<>>)
        scalars == bound.value.scalars
        known == evaluate_outputs(op, tensors, scalars, default)
        specs == complete_outputs(Values(known), PlannedBy(op, spec))
    IN  validate_operation_metadata(op) /\ bound.ok /\ AllOk(known) =>
            WorkerAccepts(op, tensors, specs.value,
                          ScalarArguments(op, scalars), workerDefault)

(* A planner's answer is used only if it names every dynamic output once   *)
(* and no other: one that does not is refused, whatever else is right.     *)
PlanGuarded(known, planned) ==
    LET full == complete_outputs(known, planned) IN
    full.ok <=>
        /\ \A k \in DOMAIN planned : /\ GoodShape(planned[k].shape)
                                     /\ planned[k].dtype \in SUPPORTED_OUTPUT_DTYPES
        /\ \A i \in IndexesOf(known) :
            Cardinality({k \in DOMAIN planned : planned[k].output = i})
                = IF Item(known, i) = Pending.value THEN 1 ELSE 0
        /\ \A k \in DOMAIN planned : planned[k].output \in IndexesOf(known)

(* The leases of a call cover whatever it touches, for writing if it is    *)
(* written, and an output that is bound is no input of the call.           *)
LeasesCover(op, tensors, specs, out) ==
    LET bound == bind_invocation(op, tensors, <<>>, <<>>, out)
        leases == reserve_invocation_access(tensors, bound.value, out)
    IN  bound.ok /\ BindsReusable(specs, tensors, out) =>
            /\ \A i \in DOMAIN tensors : tensors[i].alloc # 0 =>
                    tensors[i].alloc \in (IF op.inputs[i].access = "readWrite"
                                         THEN leases.writes ELSE leases.reads)
            /\ {out[i].alloc : i \in DOMAIN out} \subseteq leases.writes \ leases.reads
            /\ \A i, j \in DOMAIN out : i # j => out[i].alloc # out[j].alloc

(* The backward call of an accepted VJP binds the scalars that were bound  *)
(* for the forward call, unless an enum of the target is shorter, and each *)
(* gradient reaches the input it was declared for.                         *)
BackwardAgrees(op, vjp, target, scalars, needed) ==
    LET given == BackwardScalars(vjp, scalars)
        gradients == InputGradients(op, vjp, needed)
        fits == \A i \in DOMAIN given :
                    target.scalars[i].enum = <<>> \/ Has(target.scalars[i].enum, given[i].n)
    IN  _validate_vjp(op, vjp, target) /\ bind_scalars(op, scalars, <<>>) = Done(scalars) =>
            /\ fits => bind_scalars(target, given, <<>>) = Done(given)
            /\ \A i \in DOMAIN op.inputs : gradients[i] # 0 =>
                    i \in needed /\ vjp.gradients[gradients[i]] = i - 1
            /\ \A k \in DOMAIN vjp.gradients :
                    vjp.gradients[k] + 1 \in needed => gradients[vjp.gradients[k] + 1] = k
=============================================================================
