------------------------ MODULE PluginCompatibility ------------------------
(***************************************************************************)
(* What the subprocess host decides about a plugin before it starts a      *)
(* process for it: is the manifest one this runtime can serve, is its      *)
(* config schema well formed, does the instance config fit the schema, and *)
(* which config does the process get.                                      *)
(*                                                                         *)
(* JSON trees are flattened: a schema maps paths (sequences of property    *)
(* names, <<>> for the root) to nodes, a config maps the paths at which a  *)
(* value was given to that value.  An object is the value at its own path, *)
(* its members are values at longer paths.                                 *)
(***************************************************************************)
EXTENDS Integers, Sequences, FiniteSets

(* Values.  A number is counted in halves: a Go float64 that holds a whole *)
(* number passes for an integer.  Strings are numbered.                    *)
Text(s) == [type |-> "string", value |-> s]
Flag(b) == [type |-> "boolean", value |-> IF b THEN 1 ELSE 0]
Halves(n) == [type |-> "number", value |-> n]
Object == [type |-> "object", value |-> 0]
Array == [type |-> "array", value |-> 0]

Whole(v) == v.type = "number" /\ v.value % 2 = 0

subprocessConfigValueMatchesDeclaredType(type, v) ==
  CASE type = "integer" -> Whole(v)
    [] type \in {"string", "boolean", "number"} -> v.type = type
    [] OTHER -> TRUE

subprocessConfigValuesEqual(type, v, w) ==
  CASE type = "integer" -> Whole(v) /\ Whole(w) /\ v = w
    [] type \in {"string", "boolean", "number"} ->
         v.type = type /\ w.type = type /\ v = w
    [] OTHER -> v = w

(* Schemas.  shape tells how the raw JSON is broken: "scalar" is no schema *)
(* at all, "looseProperties" and "looseRequired" have a container of the   *)
(* wrong kind.  default holds at most one value; enum is <<>> when the     *)
(* schema has none, else <<set>>.  A name of required that is blank or no  *)
(* string is Blank; properties that are absent are no longer paths.        *)
Blank == ""
Untyped == ""
Leaf(type, default, enum) ==
  [type |-> type, shape |-> "schema", required |-> {}, default |-> default, enum |-> enum]
Node(required) ==
  [type |-> "object", shape |-> "schema", required |-> required, default |-> {}, enum |-> <<>>]

\* What a schema is made of: an enum is one set of values, if there is one.
ConfigValue == [type : STRING, value : Int]
IsConfigSchema(schema) ==
  /\ DOMAIN schema \subseteq Seq(STRING)
  /\ \A p \in DOMAIN schema :
        schema[p].enum \in Seq(SUBSET ConfigValue) /\ Len(schema[p].enum) <= 1

Parent(p) == SubSeq(p, 1, Len(p) - 1)
Name(p) == p[Len(p)]
Children(schema, p) == {q \in DOMAIN schema : Len(q) = Len(p) + 1 /\ Parent(q) = p}
IsObjectSchema(node) == node.type = "object"

subprocessConfigEnumContainsDefault(node, v) ==
  \E e \in node.enum[1] : subprocessConfigValuesEqual(node.type, e, v)

(* The schema below an object node is looked at, the one below another is not. *)
Visited(schema) ==
  {p \in DOMAIN schema : \A i \in 0 .. Len(p) - 1 : IsObjectSchema(schema[SubSeq(p, 1, i)])}

validateSubprocessRequiredFields(schema, p) ==
  \A name \in schema[p].required : name # Blank /\ Append(p, name) \in DOMAIN schema

validateSubprocessConfigPropertyEnumValues(node) ==
  node.enum # <<>> =>
    \A e \in node.enum[1] : subprocessConfigValueMatchesDeclaredType(node.type, e)

validateSubprocessConfigPropertyEnumDefault(node) ==
  node.enum # <<>> =>
    \A v \in node.default :
       subprocessConfigValueMatchesDeclaredType(node.type, v)
         => subprocessConfigEnumContainsDefault(node, v)

validateSubprocessConfigPropertySchema(node) ==
  /\ node.shape # "scalar"
  /\ node.type # Untyped
  /\ \A v \in node.default : subprocessConfigValueMatchesDeclaredType(node.type, v)
  /\ validateSubprocessConfigPropertyEnumValues(node)
  /\ validateSubprocessConfigPropertyEnumDefault(node)

validateSubprocessNestedConfigPropertySchema(schema, p) ==
  IsObjectSchema(schema[p]) =>
    /\ schema[p].shape \notin {"looseProperties", "looseRequired"}
    /\ validateSubprocessRequiredFields(schema, p)

validateSubprocessConfigSchema(schema) ==
  /\ IsObjectSchema(schema[<<>>])
  /\ \A p \in Visited(schema) : validateSubprocessNestedConfigPropertySchema(schema, p)
  /\ \A p \in Visited(schema) \ {<<>>} : validateSubprocessConfigPropertySchema(schema[p])

(* Version ranges: one or two clauses, each a comparator and a version of  *)
(* three numbers; anything else is Malformed.                              *)
Malformed == <<>>
currentRuntimeVersion == <<0, 1, 0>>

compareRuntimeVersions(v, w) ==
  IF v[1] # w[1] THEN v[1] - w[1] ELSE IF v[2] # w[2] THEN v[2] - w[2] ELSE v[3] - w[3]

runtimeVersionMatchesComparator(v, comparator, w) ==
  LET comparison == compareRuntimeVersions(v, w)
  IN  \/ comparator = ">" /\ comparison > 0
      \/ comparator = ">=" /\ comparison >= 0
      \/ comparator = "=" /\ comparison = 0
      \/ comparator = "<=" /\ comparison <= 0
      \/ comparator = "<" /\ comparison < 0

parseRuntimeVersionRangeClauses(range) == Len(range) \in 1 .. 2

ValidateRuntimeVersionRange(range) ==
  /\ parseRuntimeVersionRangeClauses(range)
  /\ \A i \in DOMAIN range : range[i].version # Malformed

RuntimeVersionSatisfiesRange(v, range) ==
  /\ ValidateRuntimeVersionRange(range)
  /\ \A i \in DOMAIN range : runtimeVersionMatchesComparator(v, range[i].comparator, range[i].version)

(* Manifests.  publish holds at most one version range, schema at most one *)
(* config schema; entry says which entry targets are named.                *)
ModeSubprocess == "subprocess"
SupportedAPI == "v0"

(* What registering a plugin accepts. *)
PluginManifestValidate(manifest) ==
  /\ manifest.mode \in {"inproc", ModeSubprocess, "remote"}
  /\ manifest.entry # {}
  /\ \A range \in manifest.publish : ValidateRuntimeVersionRange(range)

(* What the subprocess host accepts. *)
validateSubprocessManifestCompatibility(manifest) ==
  /\ manifest.mode = ModeSubprocess
  /\ manifest.apiVersion = SupportedAPI
  /\ \A range \in manifest.publish : RuntimeVersionSatisfiesRange(currentRuntimeVersion, range)
  /\ manifest.entry \cap {"binary", "module"} # {}
  /\ \A schema \in manifest.schema : validateSubprocessConfigSchema(schema)

(* The objects the normalisation goes into: given ones, and on the third   *)
(* level also those left out, which it makes.                              *)
Made(schema, config, p) ==
  Len(p) = 3 /\ IsObjectSchema(schema[p]) /\ p \notin DOMAIN config
Entered(schema, config, p) ==
  \A i \in 1 .. Len(p) :
     LET q == SubSeq(p, 1, i)
     IN  /\ IsObjectSchema(schema[q])
         /\ \/ q \in DOMAIN config /\ config[q] = Object
            \/ Made(schema, config, q)

(* The properties whose place in the config is reached. *)
Reached(schema, config) ==
  {p \in DOMAIN schema \ {<<>>} : Entered(schema, config, Parent(p))}

(* Defaults are filled in from the fourth level down. *)
subprocessConfigLeafDefaultValue(node) ==
  {v \in node.default :
     /\ ~IsObjectSchema(node)
     /\ subprocessConfigValueMatchesDeclaredType(node.type, v)
     /\ node.enum # <<>> => subprocessConfigEnumContainsDefault(node, v)}

Filled(schema, config, p) ==
  Len(p) >= 4 /\ p \notin DOMAIN config /\ subprocessConfigLeafDefaultValue(schema[p]) # {}

(* A required property has to be given on the first and the third level;   *)
(* on the second nobody asks, and further down only for leaves that have   *)
(* no default.                                                             *)
InstanceConfigMissing(schema, config, p) ==
  /\ p \notin DOMAIN config
  /\ Name(p) \in schema[Parent(p)].required
  /\ \/ Len(p) \in {1, 3}
     \/ Len(p) >= 4 /\ ~IsObjectSchema(schema[p]) /\ ~Filled(schema, config, p)

(* An object is only asked to be one from the third level down. *)
InstanceConfigMistyped(schema, config, p) ==
  /\ p \in DOMAIN config
  /\ IF IsObjectSchema(schema[p])
     THEN Len(p) >= 3 /\ config[p] # Object
     ELSE ~subprocessConfigValueMatchesDeclaredType(schema[p].type, config[p])

\* Mutant of InstanceConfigOutOfEnum: the enum is not looked at.
EnumNotEnforced(schema, config, p) == FALSE

InstanceConfigOutOfEnum(schema, config, p) ==
  /\ Len(p) >= 3
  /\ p \in DOMAIN config
  /\ ~IsObjectSchema(schema[p])
  /\ schema[p].enum # <<>>
  /\ schema[p].enum[1] # {}
  /\ ~subprocessConfigEnumContainsDefault(schema[p], config[p])

InstanceConfigFits(schema, config) ==
  \A p \in Reached(schema, config) :
     /\ ~InstanceConfigMissing(schema, config, p)
     /\ ~InstanceConfigMistyped(schema, config, p)
     /\ ~InstanceConfigOutOfEnum(schema, config, p)

(* The config a process gets: what was given, the third-level objects that *)
(* were left out, and the defaults.                                        *)
WithDefaults(schema, config) ==
  LET made == {p \in Reached(schema, config) : Made(schema, config, p)}
      filled == {p \in Reached(schema, config) : Filled(schema, config, p)}
  IN  [p \in DOMAIN config \cup made \cup filled |->
         IF p \in DOMAIN config THEN config[p]
         ELSE IF p \in made THEN Object
         ELSE CHOOSE v \in subprocessConfigLeafDefaultValue(schema[p]) : TRUE]

normalizeSubprocessInstanceConfig(manifest, config) ==
  IF manifest.schema = {} THEN config
  ELSE WithDefaults(CHOOSE s \in manifest.schema : TRUE, config)

(* A request is built only for a manifest and a config that pass. *)
evaluatePluginCompatibilityPreflight(definition) ==
  /\ validateSubprocessManifestCompatibility(definition.manifest)
  /\ \A schema \in definition.manifest.schema : InstanceConfigFits(schema, definition.config)

(***************************************************************************)
(* The reference: what a config declared by a schema is.  Levels below the *)
(* given depth are held to all of it.                                      *)
(***************************************************************************)
Present(config, p) == p \in DOMAIN config
Holds(config, p) == p = <<>> \/ (Present(config, p) /\ config[p] = Object)

TypeDeclared(schema, config, p) ==
  Present(config, p) =>
    IF IsObjectSchema(schema[p]) THEN config[p] = Object
    ELSE subprocessConfigValueMatchesDeclaredType(schema[p].type, config[p])

EnumDeclared(schema, config, p) ==
  Present(config, p) /\ schema[p].enum # <<>> =>
    \E e \in schema[p].enum[1] : subprocessConfigValuesEqual(schema[p].type, e, config[p])

RequiredPresent(schema, config, p) ==
  Name(p) \in schema[Parent(p)].required => Present(config, p)
=============================================================================
