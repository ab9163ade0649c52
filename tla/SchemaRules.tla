---------------------------- MODULE SchemaRules ----------------------------
(***************************************************************************)
(* How the generators of scripts/ read a JSON schema: references, unions,  *)
(* which schemas are objects, which fields a body or a command has and     *)
(* which of them are required, and how a wire name becomes a Perl name.    *)
(*                                                                         *)
(* A schema is a record; a part it does not have is empty.  "types" is its *)
(* type as a list (a plain type is a list of one); "props" is a sequence   *)
(* of <<name, schema>> in the order of the specification.  "defs" is the   *)
(* table a reference is looked up in: components/schemas, or $defs.        *)
(***************************************************************************)
EXTENDS Naturals, Sequences, SequencesExt

CONSTANTS
  Depth,      \* bound: the steps of a chain of references and lone allOfs
  Fold,       \* names with a character Perl allows no name to have, to the
              \* name with that character replaced by "_"
  Snake,      \* the same for the "-" and "." of a path parameter
  Hidden,     \* rules of the overlay: <<field, schema>>, or <<field, "">>
  Deprecated  \* to hide a field, or to flag it

ASSUME DepthIsNumber == Depth \in Nat

Plain == [ref |-> "", types |-> <<>>, props |-> <<>>, req |-> {},
          allOf |-> <<>>, anyOf |-> <<>>, oneOf |-> <<>>, items |-> <<>>]

Keys(props) == {props[i][1] : i \in DOMAIN props}
At(props, name) == props[CHOOSE i \in DOMAIN props : props[i][1] = name][2]
Lookup(defs, name) == IF name \in DOMAIN defs THEN defs[name] ELSE Plain

\* The entries of a sequence that stand at the positions I, in their order.
Picked(s, I) ==
  [k \in 1 .. Cardinality(I) |-> s[CHOOSE i \in I : Cardinality({j \in I : j <= i}) = k]]

\* The dictionary setdefault builds: the first entry of a name counts.
FirstOfEach(props) ==
  Picked(props, {i \in DOMAIN props : \A j \in 1 .. i - 1 : props[j][1] # props[i][1]})

JsonType(schema) ==
  LET others == SelectSeq(schema.types, LAMBDA t : t # "null")
  IN  IF others = <<>> THEN "none" ELSE others[1]

---------------------------------------------------------------------------
(* References.  A lone allOf around a schema is that schema.  The code      *)
(* marks the references it has seen; a chain that takes more than Depth    *)
(* steps runs in a circle, and means nothing.                              *)
IsWrapper(schema) == /\ Len(schema.allOf) = 1
                     /\ schema.props = <<>> /\ schema.types = <<>>

Follow(defs, schema) ==
  IF schema.ref # "" THEN Lookup(defs, schema.ref)
  ELSE IF IsWrapper(schema) THEN schema.allOf[1] ELSE schema

Followed(defs, schema) ==
  LET after[n \in 0 .. Depth] == IF n = 0 THEN schema ELSE Follow(defs, after[n - 1])
  IN  after

Resolve(defs, schema) ==
  LET end == Followed(defs, schema)[Depth]
  IN  IF end.ref = "" /\ ~IsWrapper(end) THEN end ELSE Plain

\* A reference, or one inside lone allOfs; no reference is looked up.
IsNamedRef(schema) == \E n \in 0 .. Depth : Followed(<<>>, schema)[n].ref # ""

(* The type the audit compares: optional parameters and named types are    *)
(* not told apart.                                                         *)
ScalarCanon == [string |-> "string", integer |-> "int", number |-> "float",
                boolean |-> "bool"]

CanonicalType(defs, schema, required) ==
  LET t == JsonType(Resolve(defs, schema))
  IN  CASE ~required -> "optional<any>"
        [] required /\ ~IsNamedRef(schema) /\ t \in DOMAIN ScalarCanon -> ScalarCanon[t]
        [] required /\ ~IsNamedRef(schema) /\ t = "array" -> "list<any>"
        [] OTHER -> "dict<string,any>"

---------------------------------------------------------------------------
(* Fields of bodies and commands, as <<name, schema, required>>.           *)
WithRequired(props, req) ==
  [i \in DOMAIN props |-> <<props[i][1], props[i][2], props[i][1] \in req>>]

ObjectBodyFields(defs, body) ==
  LET whole == Resolve(defs, body)
      parts == <<whole>> \o [i \in DOMAIN whole.allOf |-> Resolve(defs, whole.allOf[i])]
  IN  WithRequired(FirstOfEach(FlattenSeq([i \in DOMAIN parts |-> parts[i].props])),
                   UNION {parts[i].req : i \in DOMAIN parts})

IsObjectBody(defs, body) ==
  LET whole == Resolve(defs, body)
  IN  /\ body # Plain
      /\ body.anyOf \o body.oneOf \o whole.anyOf \o whole.oneOf = <<>>
      /\ whole.props \o whole.allOf # <<>> \/ JsonType(whole) = "object"

(* A command takes the fields of all variants of its params; a field is    *)
(* required when every variant requires it.                                *)
CommandVariants(defs, command) ==
  LET ps == Resolve(defs, At(Resolve(defs, command).props, "params"))
      union == IF ps.anyOf # <<>> THEN ps.anyOf ELSE ps.oneOf
  IN  IF union = <<>> THEN <<ps>>
      ELSE [i \in DOMAIN union |-> Resolve(defs, union[i])]

CommandParamFields(defs, command) ==
  IF "params" \notin Keys(Resolve(defs, command).props) THEN <<>>
  ELSE LET vs == CommandVariants(defs, command)
       IN  WithRequired(FirstOfEach(FlattenSeq([i \in DOMAIN vs |-> vs[i].props])),
                        {f \in vs[1].req : \A i \in DOMAIN vs : f \in vs[i].req})

CommandHasId(defs, command) == "id" \in Keys(Resolve(defs, command).props)

OrderedFields(fields) == Picked(fields, {i \in DOMAIN fields : fields[i][3]})
                         \o Picked(fields, {i \in DOMAIN fields : ~fields[i][3]})

(* The names of all fields a schema can reach.                             *)
SchemaFields(defs, schema) ==
  LET Parts(sch) == IF sch.ref # "" THEN {Lookup(defs, sch.ref)}
                    ELSE Range(sch.allOf \o sch.anyOf \o sch.oneOf)
      reach[n \in 0 .. Depth] ==
        IF n = 0 THEN {schema} ELSE reach[n - 1] \cup UNION {Parts(sch) : sch \in reach[n - 1]}
  IN  UNION {Keys(sch.props) : sch \in {x \in reach[Depth] : x.ref = ""}}

---------------------------------------------------------------------------
(* Object schemas become classes, with a reader for each field.            *)
IsObjectSchema(schema) ==
  /\ schema.oneOf = <<>> /\ schema.anyOf = <<>> /\ schema.allOf = <<>>
  /\ JsonType(schema) \in {"object", "none"}
  /\ schema.props # <<>>

Overlaid(rules, field, schemaName) ==
  <<field, "">> \in rules \/ <<field, schemaName>> \in rules

Folded(table, name) == IF name \in DOMAIN table THEN table[name] ELSE name
TypeName(raw) == Folded(Fold, raw)
PerlAttrName(key) == Folded(Fold, key)

\* Names a class that uses Moo must not define.
MooReserved == {"with", "extends", "around", "before", "after", "has"}
Reader(attr) == IF attr \in MooReserved THEN "get_" \o attr ELSE attr

\* A name with the suffix so many times, and the first one that is free.
Suffixed(name, suffix, times) ==
  LET longer[n \in 0 .. times] == IF n = 0 THEN name ELSE longer[n - 1] \o suffix
  IN  longer[times]

Unused(name, suffix, used) ==
  Suffixed(name, suffix,
           Min({n \in 0 .. Cardinality(used) : Suffixed(name, suffix, n) \notin used}))

Pad == "_"   \* what an attribute gets while its name is taken

\* The names of a list, each free of those before it.
InTurn(names, suffix) ==
  LET given[i \in DOMAIN names] == Unused(names[i], suffix, {given[j] : j \in 1 .. i - 1})
  IN  given

(* The attributes of a class; "hiding" says whether this generator obeys   *)
(* the overlay.                                                            *)
EmitFields(props, schemaName, hiding) ==
  LET shown == Picked(props, {i \in DOMAIN props :
                 ~hiding \/ ~Overlaid(Hidden, props[i][1], schemaName)})
      attr == InTurn([i \in DOMAIN shown |-> PerlAttrName(shown[i][1])], Pad)
  IN  [i \in DOMAIN shown |->
         [key |-> shown[i][1], attr |-> attr[i], reader |-> Reader(attr[i]),
          flagged |-> hiding /\ Overlaid(Deprecated, shown[i][1], schemaName)]]

(* What a class promises of its fields: a reader of its own for each, and  *)
(* a field for each of these keys.                                         *)
ReadersApart(fields) == \A i, j \in DOMAIN fields : i # j => fields[i].reader # fields[j].reader
Covers(fields, keys) == {fields[i].key : i \in DOMAIN fields} = keys
============================================================================
