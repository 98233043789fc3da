----------------------------- MODULE Manifests ------------------------------
(***************************************************************************)
(* What the runtime believes about plugins: the registry that resolves     *)
(* operation names, the manifest with its three fingerprints and the       *)
(* identity check of a starting worker, the two translations of an output  *)
(* declaration (the runtime's from the manifest, the worker's from its     *)
(* generated declarations), and the configuration on its way to a worker.  *)
(*                                                                         *)
(* A digest is modelled by what it covers: two digests are equal when the  *)
(* covered fields are.                                                     *)
(***************************************************************************)
EXTENDS Invocations, Functions

----------------------------------------------------------------------------
(* OperationRegistry.  A plugin is [name, ops], ops a set of [name,        *)
(* internal]; an alias leads to the plugin that declares it.               *)
EmptyRegistry == [plugins |-> {}, aliases |-> <<>>]
Ambiguous == "ambiguous"

register(r, plugin) ==
    LET names == {op.name : op \in plugin.ops} IN
    [plugins |-> r.plugins \cup {plugin},
     aliases |-> [n \in DOMAIN r.aliases \cup names |->
        IF n \notin names THEN r.aliases[n]
        ELSE IF n \in DOMAIN r.aliases THEN Ambiguous ELSE plugin.name]]

_resolve_name(r, name) == IF name \in DOMAIN r.aliases THEN r.aliases[name] ELSE "unknown"

operation_names(r) ==
    {n \in DOMAIN r.aliases :
        \E p \in r.plugins : \E op \in p.ops :
            p.name = r.aliases[n] /\ op.name = n /\ ~op.internal}

(* Two plugins of one name: the discovery as a whole fails.                *)
discover_plugin_manifests(plugins) ==
    IF \E i, j \in DOMAIN plugins : i # j /\ plugins[i].name = plugins[j].name
    THEN Failed("already registered")
    ELSE Done(FoldLeft(register, EmptyRegistry, plugins))

(* A short name leads to the one plugin that declares it, whatever the     *)
(* order of registration, and is ambiguous as soon as two declare it.      *)
NamesUnambiguous(plugins) ==
    LET found == discover_plugin_manifests(plugins)
        r == found.value
        Declaring(n) == {p \in ToSet(plugins) : \E op \in p.ops : op.name = n}
    IN  found.ok => \A n \in {op.name : op \in UNION {p.ops : p \in ToSet(plugins)}} :
            /\ _resolve_name(r, n) =
                IF Cardinality(Declaring(n)) = 1
                THEN (CHOOSE p \in Declaring(n) : TRUE).name ELSE Ambiguous
            /\ n \in operation_names(r) => Cardinality(Declaring(n)) = 1

----------------------------------------------------------------------------
(* The manifest.  Every field is a small number; operations is [count,     *)
(* core, dtypes], dtypes what format 2 adds to the metadata.               *)
ManifestFields ==
    {"abiVersion", "controlAbiVersion", "deployment", "enums", "formatVersion",
     "generator", "lifecycle", "operationCount", "operations", "plugin",
     "protocolVersion", "startupCapabilities", "schema", "examples"}

(* The fields of format 2, which _keys_with_optional refuses in format 1;  *)
(* a field that is not there is 0.                                         *)
FormatTwoFields ==
    {"controlAbiVersion", "enums", "lifecycle", "startupCapabilities", "schema", "examples"}

(* Fault: the lifecycle hooks are left out of the digest.                  *)
InterfaceCovers_NoHooks ==
    {"abiVersion", "enums", "formatVersion", "operations", "plugin", "protocolVersion"}

(* _validate_interface_fingerprint                                         *)
InterfaceCovers ==
    {"abiVersion", "enums", "formatVersion", "lifecycle", "operations", "plugin",
     "protocolVersion"}

interface_fingerprint(doc) == [f \in InterfaceCovers |-> doc[f]]

(* canonical_metadata_bytes: format 1 knows no dtype variables and enums.  *)
metadata_fingerprint(doc) ==
    [plugin |-> doc.plugin, protocol |-> doc.protocolVersion, core |-> doc.operations.core,
     dtypes |-> IF doc.formatVersion = 1 THEN 0 ELSE doc.operations.dtypes]

configuration_fingerprint(doc) == [schema |-> doc.schema]

(* The generator seals a document with its digests.                        *)
Sealed(doc) ==
    doc @@ [interfaceFingerprint |-> interface_fingerprint(doc),
            metadataFingerprint |-> metadata_fingerprint(doc),
            configurationFingerprint |-> configuration_fingerprint(doc)]

load_manifest(m) ==
    /\ m.formatVersion \in {1, 2}
    /\ m.formatVersion = 1 => \A f \in FormatTwoFields : m[f] = 0
    /\ m.abiVersion = 1 /\ m.protocolVersion = 1
    /\ m.generator = m.formatVersion
    /\ m.formatVersion = 2 => m.controlAbiVersion = 1
    /\ m.operationCount = m.operations.count
    /\ m.interfaceFingerprint = interface_fingerprint(m)
    /\ m.metadataFingerprint = metadata_fingerprint(m)
    /\ m.formatVersion = 2 => m.configurationFingerprint = configuration_fingerprint(m)

(* The request a session sends and _validate_startup_identity, by which    *)
(* the worker compares it with what it was generated from; the two low     *)
(* bits of the capabilities stand for those that announce the hooks.       *)
StartupIdentity(m) ==
    [interface |-> m.interfaceFingerprint, metadata |-> m.metadataFingerprint,
     configuration |-> m.configurationFingerprint,
     capabilities |-> m.startupCapabilities, count |-> m.operations.count,
     protocol |-> m.protocolVersion]

_validate_startup_identity(m, generated) ==
    /\ generated.lifecycle = generated.startupCapabilities % 4
    /\ StartupIdentity(m) = StartupIdentity(generated)

(* A manifest that differs in one field from the one it was generated as   *)
(* is refused, or its worker refuses to start; what neither notices is     *)
(* where the plugin lies, the examples, and numbers that say nothing else. *)
ManifestGuarded(doc, field, value) ==
    LET sealed == Sealed(doc)
        changed == [sealed EXCEPT ![field] = value]
    IN  load_manifest(sealed) /\ changed # sealed
        /\ load_manifest(changed) /\ _validate_startup_identity(changed, sealed)
            => field \in {"deployment", "examples"}

----------------------------------------------------------------------------
(* Output declarations.  A document has every key; a key that does not     *)
(* apply is NoKey (JSON null).                                             *)
NoKey == -9

RECURSIVE _dimension(_)
_dimension(doc) ==
    CASE doc.kind = "constant"   -> [kind |-> "constant", value |-> doc.axis]
      [] doc.kind = "input_axis" -> [kind |-> "inputAxis", input |-> doc.input, axis |-> doc.axis]
      [] doc.kind = "minimum"    -> [kind |-> "minimum",
                                     items |-> [i \in DOMAIN doc.operands |-> _dimension(doc.operands[i])]]
      [] doc.kind = "select"     -> [kind |-> "select", scalar |-> doc.scalar,
                                     yes |-> _dimension(doc.when_true), no |-> _dimension(doc.when_false)]

_dtype(doc) ==
    CASE doc.kind = "fixed"    -> [kind |-> "fixed", value |-> doc.value]
      [] doc.kind = "input"    -> [kind |-> "input", input |-> doc.input]
      [] doc.kind = "variable" -> [kind |-> "variable", value |-> doc.variable]
      [] doc.kind = "promote_tensor_scalar" ->
            [kind |-> "promote", input |-> doc.input, scalar |-> doc.scalar]

(* The worker keeps the document's own kind; InvocationContext takes any   *)
(* kind that is none of the first three for a promotion.                   *)
DTypeDeclaration(doc) ==
    CASE doc.kind \in {"fixed", "input", "variable"} -> _dtype(doc)
      [] OTHER -> [kind |-> doc.kind, input |-> doc.input, scalar |-> doc.scalar]

(* _output: plugins.py refuses documents that say two things at once.      *)
Refused == [kind |-> "refused"]

_output(doc) ==
    LET same == doc.same_shape_as_input # NoKey IN
    CASE doc.allocation = "dynamic" ->
            IF doc.dimensions # <<>> \/ doc.dtype.kind # "null" \/ same
            THEN Refused ELSE [kind |-> "dynamic"]
      [] doc.allocation = "known" ->
            IF doc.dtype.kind = "null" \/ (same /\ doc.dimensions # <<>>) THEN Refused
            ELSE [kind |-> "known", dtype |-> _dtype(doc.dtype),
                  shape |-> IF same
                            THEN [kind |-> "sameShapeAsInput", input |-> doc.same_shape_as_input]
                            ELSE [kind |-> "dimensions",
                                  items |-> [i \in DOMAIN doc.dimensions |-> _dimension(doc.dimensions[i])]]]
      [] OTHER -> Refused

_output_declaration(doc) ==
    IF doc.allocation = "dynamic" THEN [kind |-> "dynamic"]
    ELSE [kind |-> "known", dtype |-> DTypeDeclaration(doc.dtype),
          shape |-> IF doc.same_shape_as_input # NoKey
                    THEN [kind |-> "sameShapeAsInput", input |-> doc.same_shape_as_input]
                    ELSE [kind |-> "dimensions",
                          items |-> [i \in DOMAIN doc.dimensions |-> _dimension(doc.dimensions[i])]]]

(* Operations: plugins.py refuses accesses and Booleans of another kind,   *)
(* the worker takes whatever is true.  NoVjp is JSON null.                 *)
NoVjp == [operation_id |-> 0]

_tensor(doc) ==
    CASE doc.access = "read_only"  -> [access |-> "readOnly", variable |-> doc.dtype_variable, dtypes |-> doc.dtypes]
      [] doc.access = "read_write" -> [access |-> "readWrite", variable |-> doc.dtype_variable, dtypes |-> doc.dtypes]
      [] OTHER -> Refused

_scalar(doc) ==
    IF doc.required.type # "bool" THEN Refused
    ELSE [doc EXCEPT !.required = @.n = 1]

_operation(doc) ==
    LET inputs == [i \in DOMAIN doc.inputs |-> _tensor(doc.inputs[i])]
        plans == [i \in DOMAIN doc.outputs |-> _output(doc.outputs[i])]
        scalars == [i \in DOMAIN doc.scalars |-> _scalar(doc.scalars[i])]
    IN  IF Refused \in Range(inputs) \cup Range(plans) \cup Range(scalars)
           \/ doc.internal.type # "bool"
        THEN Refused
        ELSE [inputs |-> inputs, plans |-> plans, scalars |-> scalars, vjp |-> doc.vjp,
              internal |-> doc.internal.n = 1, variables |-> doc.dtype_variables]

_operation_declaration(doc) ==
    [inputs |-> [i \in DOMAIN doc.inputs |->
                    [access |-> IF doc.inputs[i].access = "read_write" THEN "readWrite" ELSE "readOnly",
                     variable |-> doc.inputs[i].dtype_variable, dtypes |-> doc.inputs[i].dtypes]],
     plans |-> [i \in DOMAIN doc.outputs |-> _output_declaration(doc.outputs[i])],
     scalars |-> [i \in DOMAIN doc.scalars |-> [doc.scalars[i] EXCEPT !.required = @.n # 0]],
     vjp |-> doc.vjp, internal |-> doc.internal.n # 0, variables |-> doc.dtype_variables]

----------------------------------------------------------------------------
(* Configuration.  A value is [type, n]: n is the number, or the length of *)
(* a string.  A configuration is the sequence of its <<name, value>> pairs *)
(* in the order of the dictionary; arrays and nested objects are left out. *)
ConfigurationLimit == 3     \* MAX_CONFIGURATION_BYTES, MAX_CONFIG_BYTES
EnvironmentBytes == 1       \* what the response adds to the configuration

_validate_scalar(value, kind) ==
    CASE kind = "boolean" -> value.type = "bool"
      [] kind = "integer" -> value.type = "int"
      [] kind = "number"  -> value.type = "int" \/ (value.type = "float" /\ value.n # 99)
      [] kind = "string"  -> value.type = "str"

(* _equal keeps Booleans apart from the numbers Python equates them with.  *)
_equal(a, b) ==
    \/ a = b
    \/ {a.type, b.type} = {"int", "float"} /\ a.n = b.n

Absent == [type |-> "absent", n |-> 0]

_validate_value(value, schema) ==
    /\ _validate_scalar(value, schema.type)
    /\ schema.enum # {} => \E candidate \in schema.enum : _equal(value, candidate)
    /\ schema.minimum # Absent => value.n >= schema.minimum.n
    /\ schema.maximum # Absent => value.n <= schema.maximum.n

(* _validate_schema, for a property: bounds of its type in order, enum     *)
(* members of its type and distinct, a default that the schema accepts and *)
(* that a required property may not have.                                  *)
_validate_schema(schema, required) ==
    /\ \A bound \in {schema.minimum, schema.maximum} \ {Absent} :
            \/ schema.type \in {"integer", "number"} /\ _validate_scalar(bound, schema.type)
            \/ schema.type = "string" /\ bound.type = "int" /\ bound.n >= 0
    /\ schema.minimum # Absent /\ schema.maximum # Absent => schema.minimum.n <= schema.maximum.n
    /\ \A e \in schema.enum : _validate_scalar(e, schema.type)
    /\ \A e, f \in schema.enum : e # f => ~_equal(e, f)
    /\ schema.default # Absent => ~required /\ _validate_value(schema.default, schema)

NamesIn(config) == {config[i][1] : i \in DOMAIN config}

(* validate_and_canonicalize: the fields of the object, then the keys in   *)
(* order, then the limit.  "{}" is sent for None whatever is required.     *)
KeyOrder(a, b) == a[1] < b[1]

Canonical_Inserted(items) == items
Canonical(items) == SortSeq(items, KeyOrder)

validate_and_canonicalize(config, properties, required) ==
    IF ~config.given THEN Done(<<>>)
    ELSE IF /\ NamesIn(config.items) \subseteq DOMAIN properties
            /\ required \subseteq NamesIn(config.items)
            /\ \A i \in DOMAIN config.items :
                    _validate_value(config.items[i][2], properties[config.items[i][1]])
            /\ Len(config.items) <= ConfigurationLimit
    THEN Done(Canonical(config.items)) ELSE Failed("configuration")

(* The worker parses the bytes, encodes them again and compares; it then   *)
(* echoes them inside its response, which has the same limit.              *)
WorkerCanonical(bytes) == SortSeq(bytes, KeyOrder) = bytes
EchoFits(bytes) == Len(bytes) + EnvironmentBytes <= ConfigurationLimit

(* What an accepted output declaration means to the runtime it means to    *)
(* the worker.                                                             *)
Meaning(plan) ==
    IF plan.kind = "known" /\ plan.dtype.kind = "promote_tensor_scalar"
    THEN [plan EXCEPT !.dtype.kind = "promote"] ELSE plan

OutputAgrees(doc) == _output(doc) # Refused => Meaning(_output_declaration(doc)) = _output(doc)

(* The same for the whole declaration of an operation.                     *)
OperationAgrees(doc) == _operation(doc) # Refused => _operation_declaration(doc) = _operation(doc)

(* A configuration that the runtime accepts is one that the worker's own   *)
(* encoding reproduces and a second validation leaves alone, in whatever   *)
(* order it was written down; short of the limit by what the response      *)
(* adds, it is acknowledged as well.  A default that a schema declares is  *)
(* itself a value that it accepts.                                         *)
ConfigurationArrives(config, properties, required) ==
    LET accepted == validate_and_canonicalize(config, properties, required)
        bytes == accepted.value
        again == validate_and_canonicalize([config EXCEPT !.items = bytes], properties, required)
    IN  /\ \A name \in DOMAIN properties : _validate_schema(properties[name], name \in required) =>
            \A v \in {properties[name].default} \ {Absent} :
                _validate_value(v, properties[name])
        /\ accepted.ok =>
            /\ WorkerCanonical(bytes) /\ again = accepted
            /\ config.given => ToSet(bytes) = ToSet(config.items)
            /\ Len(bytes) <= ConfigurationLimit - EnvironmentBytes => EchoFits(bytes)
=============================================================================
