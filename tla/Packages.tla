------------------------------- MODULE Packages -------------------------------
(***************************************************************************)
(* The binary program (wmvm: program.rs) and the version 2 package that    *)
(* carries one (wmarchive: v2.rs), written as units like a Container.      *)
(*                                                                         *)
(* A decoder has a cursor and fails where the units end.  A read is its    *)
(* value and the position behind it, which is 0 after a failure: a failed  *)
(* read makes those behind it fail.                                        *)
(***************************************************************************)
EXTENDS Container, Values

CONSTANTS
    MaxId,          \* the largest function id: u16::MAX in the code
    ConstantValue,  \* the values that constants of programs are made of
    Nesting         \* how deep each of them is nested

\* What an array or a table holds.
Parts(v) ==
    CASE v.tag = "array" -> {v.items[i] : i \in DOMAIN v.items}
      [] v.tag = "table" -> {v.fields[k] : k \in DOMAIN v.fields}
      [] OTHER -> {}

ASSUME MaxIdAssumption == MaxId \in Nat
ASSUME ConstantsAssumption ==
    /\ Nesting \in [ConstantValue -> Nat]
    /\ \A v \in ConstantValue :
          /\ v.tag = "array" => v = Array(v.items) /\ IsList(v.items)
          /\ v.tag = "table" => /\ v = Table([k \in DOMAIN v.fields |-> v.fields[k]])
                                /\ IsFiniteSet(DOMAIN v.fields)
                                /\ DOMAIN v.fields \subseteq Nat
          /\ \A w \in Parts(v) : w \in ConstantValue /\ Nesting[w] < Nesting[v]

NoEntry == MaxId + 1

\* A program whose constants are ConstantValue.
IsProgram(p) ==
    /\ p = [entry |-> p.entry, constants |-> p.constants, functions |-> p.functions]
    /\ p.entry \in 0..NoEntry
    /\ IsList(p.constants) /\ \A i \in DOMAIN p.constants : p.constants[i] \in ConstantValue
    /\ p.functions = [id \in DOMAIN p.functions |-> p.functions[id]]
    /\ IsFiniteSet(DOMAIN p.functions) /\ DOMAIN p.functions \subseteq 0..MaxId
    /\ \A id \in DOMAIN p.functions : LET f == p.functions[id] IN
          /\ f = [args |-> f.args, locals |-> f.locals, stack |-> f.stack, code |-> f.code]
          /\ IsList(f.code)

Failed  == [value |-> <<>>, next |-> 0]

\* n units; where one unit is wanted its value is the unit.
ReadUnits(units, at, n) ==
    IF at = 0 \/ at + n - 1 > Len(units) THEN Failed
    ELSE [value |-> SubSeq(units, at, at + n - 1), next |-> at + n]

(***************************************************************************)
(* Program::encode_binary and decode_binary.                               *)
(***************************************************************************)

Scalar(v) == [unit |-> "scalar", value |-> v]
Key(k)    == [unit |-> "key", key |-> k]

\* A value; `parts` has the units of what it holds.
EncodedValue(v, parts) ==
    CASE v.tag = "array" ->
            <<[unit |-> "array", count |-> Len(v.items)]>>
                \o FlattenSeq([i \in DOMAIN v.items |-> parts[v.items[i]]])
      [] v.tag = "table" ->
            LET keys == Ascending(DOMAIN v.fields)
            IN  <<[unit |-> "table", count |-> Len(keys)]>>
                    \o FlattenSeq([i \in DOMAIN keys |->
                                      <<Key(keys[i])>> \o parts[v.fields[keys[i]]]])
      [] OTHER -> <<Scalar(v)>>

encode_program_value[v \in ConstantValue] ==
    EncodedValue(v, [w \in Parts(v) |-> encode_program_value[w]])

EncodedFunction(id, f) ==
    <<[unit |-> "function", id |-> id, args |-> f.args, locals |-> f.locals,
       stack |-> f.stack, size |-> Len(f.code)]>> \o f.code

encode_binary(program) ==
    LET ids == Ascending(DOMAIN program.functions)
    IN  <<[unit |-> "program",
           entry |-> IF program.entry = NoEntry THEN MaxId ELSE program.entry,
           constants |-> Len(program.constants), functions |-> Len(ids)]>>
            \o FlattenSeq([i \in DOMAIN program.constants |->
                              encode_program_value[program.constants[i]]])
            \o FlattenSeq([i \in DOMAIN ids |->
                              EncodedFunction(ids[i], program.functions[ids[i]])])

\* `reads` has what is read at each position.
ReadAt(reads, at) == IF at \in DOMAIN reads THEN reads[at] ELSE Failed

\* The values of n reads, each behind the one before it.
ReadAll(reads, at, n) ==
    LET all[k \in 0..n] ==
            IF k = 0 THEN [value |-> <<>>, next |-> at]
            ELSE LET before == all[k - 1]
                     one    == ReadAt(reads, before.next)
                 IN  IF one.next = 0 THEN Failed
                     ELSE [value |-> Append(before.value, one.value), next |-> one.next]
    IN  all[n]

\* A read with its value put to use.
Using(read, value) == IF read.next = 0 THEN Failed ELSE [read EXCEPT !.value = value]

\* From `first` on, a key and the value behind it.
Pairs(units, values, first) ==
    [at \in first..Len(units) |->
        IF units[at].unit # "key" THEN Failed
        ELSE LET v == ReadAt(values, at + 1)
             IN  Using(v, [key |-> units[at].key, value |-> v.value])]

TableOf(pairs) == Table([k \in {pairs[i].key : i \in DOMAIN pairs} |->
                            pairs[Max({i \in DOMAIN pairs : pairs[i].key = k})].value])

\* The value that begins at a position; `behind` has those that begin behind it.
ValueAt(units, at, behind) ==
    LET u     == units[at]
        items == ReadAll(behind, at + 1, u.count)
        pairs == ReadAll(Pairs(units, behind, at + 1), at + 1, u.count)
    IN  CASE u.unit = "scalar" -> [value |-> u.value, next |-> at + 1]
          [] u.unit = "array"  -> Using(items, Array(items.value))
          [] u.unit = "table"  -> Using(pairs, TableOf(pairs.value))
          [] OTHER -> Failed

decode_program_value(units) ==
    LET value[at \in 1..Len(units)] ==
            ValueAt(units, at, [p \in at + 1..Len(units) |-> value[p]])
    IN  value

ReadFunction(units, at) ==
    LET u    == units[at]
        code == ReadUnits(units, at + 1, u.size)
    IN  IF u.unit # "function" THEN Failed
        ELSE Using(code, [id |-> u.id, function |-> [args |-> u.args, locals |-> u.locals,
                                                   stack |-> u.stack, code |-> code.value]])

\* What follows the functions is not looked at.
decode_binary(units) ==
    IF units = <<>> \/ units[1].unit # "program" THEN NotRead
    ELSE LET head       == units[1]
             functionAt == [at \in 1..Len(units) |-> ReadFunction(units, at)]
             constants  == ReadAll(decode_program_value(units), 2, head.constants)
             functions  == ReadAll(functionAt, constants.next, head.functions)
             ids        == {functions.value[i].id : i \in DOMAIN functions.value}
         IN  IF functions.next = 0 THEN NotRead
             ELSE [entry     |-> IF head.entry = MaxId THEN NoEntry ELSE head.entry,
                   constants |-> constants.value,
                   functions |-> [id \in ids |->
                       functions.value[Max({i \in DOMAIN functions.value :
                                               functions.value[i].id = id})].function]]

(***************************************************************************)
(* ArchiveV2::encode and decode.                                           *)
(***************************************************************************)

validate_assets(assets) ==
    \A i, j \in DOMAIN assets :
        (assets[i].id = assets[j].id \/ assets[i].name = assets[j].name) => i = j

Blob(units) == <<[unit |-> "blob", size |-> Len(units)]>> \o units

EncodedAsset(a) ==
    <<[unit |-> "asset", id |-> a.id, kind |-> a.kind, name |-> a.name]>> \o Blob(a.units)

\* A package whose assets are valid.
EncodePackage(p) ==
    <<[unit |-> "package", manifest |-> p.manifest, capabilities |-> Len(p.capabilities)]>>
        \o p.capabilities
        \o Blob(p.program) \o Blob(p.schema)
        \o <<Count(p.assets)>> \o FlattenSeq([i \in DOMAIN p.assets |-> EncodedAsset(p.assets[i])])

ReadBlob(units, at) ==
    LET size == ReadUnits(units, at, 1)
    IN  ReadUnits(units, size.next, IF size.next = 0 THEN 0 ELSE size.value[1].size)

ReadAsset(units, at) ==
    LET u    == units[at]
        blob == ReadBlob(units, at + 1)
    IN  IF u.unit # "asset" THEN Failed
        ELSE Using(blob, [id |-> u.id, kind |-> u.kind, name |-> u.name, units |-> blob.value])

\* The package has to end with its last asset.
DecodePackage(units) ==
    IF units = <<>> \/ units[1].unit # "package" THEN NotRead
    ELSE LET capabilities == ReadUnits(units, 2, units[1].capabilities)
             program == ReadBlob(units, capabilities.next)
             schema  == ReadBlob(units, program.next)
             count   == ReadUnits(units, schema.next, 1)
             assetAt == [at \in 1..Len(units) |-> ReadAsset(units, at)]
             assets  == ReadAll(assetAt, count.next,
                                IF count.next = 0 THEN 0 ELSE count.value[1].count)
         IN  IF assets.next # Len(units) + 1 \/ ~validate_assets(assets.value) THEN NotRead
             ELSE [manifest |-> units[1].manifest, capabilities |-> capabilities.value,
                   program |-> program.value, schema |-> schema.value, assets |-> assets.value]

=============================================================================
