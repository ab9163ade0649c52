--------------------------- MODULE PayloadClasses ---------------------------
(***************************************************************************)
(* The data classes that the four generators write from schemas, and how   *)
(* the signature enumerator decides which of their fields count.           *)
(*                                                                         *)
(* A class is <<name, [schema, fields]>>.  A dictionary of files or names  *)
(* that is only added to when a name is new is FirstOfEach of the sequence *)
(* of what is offered; one that is assigned to is LastOfEach of it.        *)
(***************************************************************************)
EXTENDS SchemaRules, TLC

CONSTANT Pascal   \* verbs, actions and methods, to the same in PascalCase

Class(name, schema, props, hiding) ==
  <<name, [schema |-> schema, fields |-> EmitFields(props, schema, hiding)]>>

LastOfEach(pairs) == Reverse(FirstOfEach(Reverse(pairs)))

(* The union of the properties of all branches, the first of a name; there *)
(* is no guard against a reference that comes back to itself.              *)
RECURSIVE Walk(_, _)
Walk(defs, schema) ==
  IF schema.ref # "" THEN Walk(defs, Lookup(defs, schema.ref))
  ELSE LET Each(list) == FlattenSeq([i \in DOMAIN list |-> Walk(defs, list[i])])
       IN  Each(schema.allOf) \o schema.props \o Each(schema.oneOf) \o Each(schema.anyOf)

\* Mutant of FlattenUnion: a union is flattened to its first branch only.
FlattenFirst(defs, schema) ==
  IF schema.ref = "" /\ schema.oneOf # <<>>
  THEN FirstOfEach(schema.props \o Walk(defs, schema.oneOf[1]))
  ELSE FirstOfEach(Walk(defs, schema))

FlattenUnion(defs, schema) == FirstOfEach(Walk(defs, schema))

ObjectSchemas(schemas) == SelectSeq(schemas, LAMBDA s : IsObjectSchema(s[2]))

---------------------------------------------------------------------------
(* generate_rest.py: Types/<Sub>/<Name>.pm, a class for an object schema   *)
(* and one of constants for a public enumeration.  "enums" gives, for the  *)
(* schemas that have x-sdk-enum, its name and its values.                  *)
CONSTANT Constant   \* enumerated values to their names in upper case

EnumConstants(values) ==
  LET shown == SelectSeq(values, LAMBDA v : v # "")
      cname == InTurn([i \in DOMAIN shown |-> Constant[shown[i]]], Pad)
  IN  [i \in DOMAIN shown |-> [key |-> shown[i], attr |-> cname[i], reader |-> cname[i],
                               flagged |-> FALSE]]

EmitTypes(schemas, enums) ==
  LET Offered(raw, schema) ==
        (IF raw \notin DOMAIN enums THEN <<>>
         ELSE <<<<TypeName(enums[raw].name),
                  [schema |-> raw, fields |-> EnumConstants(enums[raw].values)]>>>>)
        \o (IF ~IsObjectSchema(schema) THEN <<>>
            ELSE <<Class(TypeName(raw), raw, schema.props, TRUE)>>)
  IN  FirstOfEach(FlattenSeq([i \in DOMAIN schemas |->
                                Offered(schemas[i][1], schemas[i][2])]))

---------------------------------------------------------------------------
(* generate_swml_verbs.py: $defs, and a <Verb>Config for each verb.        *)
HandWrittenVerbs == {"answer", "hangup", "ai", "play", "say"}
AsTable(schemas) == [name \in Keys(schemas) |-> At(schemas, name)]

VerbInner(defs, wrapper) == Lookup(defs, wrapper).props[1][2]
HasConfig(defs, wrapper) ==
  /\ Lookup(defs, wrapper).props # <<>>
  /\ Lookup(defs, wrapper).props[1][1] \notin HandWrittenVerbs
  /\ LET inner == VerbInner(defs, wrapper)
     IN  /\ JsonType(inner) # "string" /\ inner.ref = ""
         /\ \/ inner.oneOf # <<>>
            \/ JsonType(inner) = "object" /\ inner.props # <<>>
         /\ FlattenUnion(defs, inner) # <<>>

\* <<name, the schema it is known by, its properties>>
SwmlSources(schemas) ==
  LET defs == AsTable(schemas)
      verbs == SelectSeq(Lookup(defs, "SWMLMethod").anyOf, LAMBDA r : HasConfig(defs, r.ref))
      Config(ref) ==
        LET name == Pascal[Lookup(defs, ref).props[1][1]] \o "Config"
        IN  <<TypeName(name), <<name, FlattenUnion(defs, VerbInner(defs, ref))>>>>
      objects == ObjectSchemas(schemas)
  IN  [i \in DOMAIN objects |-> <<TypeName(objects[i][1]), <<objects[i][1], objects[i][2].props>>>>]
      \o [i \in DOMAIN verbs |-> Config(verbs[i].ref)]

SwmlClasses(schemas) ==
  LET kept == FirstOfEach(SwmlSources(schemas))
  IN  [i \in DOMAIN kept |-> Class(kept[i][1], kept[i][2][1], kept[i][2][2], TRUE)]

---------------------------------------------------------------------------
(* generate_swaig_payloads.py: the overlay is not asked.                   *)
PostPromptClasses(schemas) ==
  LET objects == ObjectSchemas(schemas)
  IN  FirstOfEach([i \in DOMAIN objects |->
                     Class(TypeName(objects[i][1]), objects[i][1], objects[i][2].props, FALSE)])

SwaigRequestClasses(request) ==
  LET lifted == IF "argument" \in Keys(request.props)
                THEN At(request.props, "argument").props ELSE <<>>
  IN  (IF lifted = <<>> THEN <<>>
       ELSE <<Class("SwaigArgument", "argument", lifted, FALSE)>>)
      \o <<Class("SwaigRequest", "SwaigRequest", request.props, FALSE)>>

IsObj(schema) == schema.types = <<"object">> /\ schema.props # <<>>

\* The actions, in the order of their sorted names.
SwaigActionClasses(actions) ==
  LET Branches(schema) ==
        IF schema.oneOf # <<>> THEN SelectSeq(schema.oneOf, IsObj)
        ELSE SelectSeq(<<schema>>, IsObj)
      Name(verb, k) == TypeName(Pascal[verb] \o "Action" \o (IF k = 1 THEN "" ELSE ToString(k)))
      Of(verb, schema) ==
        [k \in DOMAIN Branches(schema) |->
           Class(Name(verb, k), verb, Branches(schema)[k].props, FALSE)]
  IN  FirstOfEach(FlattenSeq([i \in DOMAIN actions |-> Of(actions[i][1], actions[i][2])]))

---------------------------------------------------------------------------
(* generate_relay_protocol.py: the files of one phase after the other, the *)
(* names of each in order; a file is [stem, phase, method, schema], with   *)
(* method "" when it has no x-method.                                      *)
Phases == <<<<"params", "Params">>, <<"result", "Result">>>>

RelayClasses(files) ==
  LET Method(f) == IF f.method = "" THEN f.stem ELSE f.method
      InPhase(p) == SelectSeq(files, LAMBDA f : f.phase = p /\ IsObjectSchema(f.schema))
      Of(phase) ==
        LET fs == InPhase(phase[1])
        IN  [i \in DOMAIN fs |-> Class(TypeName(Pascal[Method(fs[i])] \o phase[2]),
                                       Method(fs[i]), fs[i].schema.props, FALSE)]
  IN  FirstOfEach(FlattenSeq([i \in DOMAIN Phases |-> Of(Phases[i])]))

---------------------------------------------------------------------------
(* enumerate_signatures.py: a field of a verb configuration counts when    *)
(* its schema names another one, at any depth.                             *)
\* Mutant of FieldIsSurface: only the field's own reference counts.
FieldIsSurfaceItself(schema) == schema.ref # ""

RECURSIVE FieldIsSurface(_)
FieldIsSurface(schema) ==
  \/ schema.ref # ""
  \/ \E sub \in Range(schema.items \o schema.anyOf \o schema.oneOf \o schema.allOf) :
       FieldIsSurface(sub)

Classify(props, schemaName) ==
  [key \in Keys(props) |-> /\ ~Overlaid(Hidden, key, schemaName)
                           /\ FieldIsSurface(At(props, key))]

SurfaceFieldsByClass(schemas) ==
  LET last == LastOfEach(SwmlSources(schemas))
  IN  [name \in Keys(last) |-> Classify(At(last, name)[2], At(last, name)[1])]

CONSTANT Stripped   \* attributes that end in "_", to the same without
IsRecorded(surface, class, attr) ==
  class \in DOMAIN surface =>
    LET table == surface[class]
        key == Folded(Stripped, attr)
    IN  IF key \in DOMAIN table THEN table[key]
        ELSE attr \in DOMAIN table => table[attr]
=============================================================================
