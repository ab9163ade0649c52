--------------------------- MODULE RestResources ---------------------------
(***************************************************************************)
(* generate_rest: from the REST specifications and their x-sdk markup to   *)
(* the resource classes, the sidecar of typed parameters and the tree of   *)
(* accessors the RestClient composes; and what a call of a generated       *)
(* method then puts on the wire, with the hand-written base classes of     *)
(* Namespaces/Base.pm below them.                                          *)
(*                                                                         *)
(* A specification document is [dir, servers, namespace, paths, schemas];  *)
(* an entry of paths is [path, ops, markup]; an operation is               *)
(* [verb, id, hasBody, body].  A path is a sequence of segments, literal   *)
(* <<"lit", x>> or a parameter <<"par", x>>.  Everything a call passes is  *)
(* an atom <<kind, what>>.  Types and comments of the emitted Perl are     *)
(* left out; what the Perl does is here.                                   *)
(***************************************************************************)
EXTENDS SchemaRules, FiniteSetsExt

CONSTANTS
  Documents,   \* the sets of specifications to generate from
  SpecOrder,   \* SPEC_ORDER: the curated order of the directories
  SnakeName,   \* [class -> its name in snake case]
  Stem,        \* [<<container, class>> -> rest of the class name, for the
               \* classes whose name starts with the container's]
  Schemas      \* the schemas of all documents, and the schemas inside them

VARIABLES
  docs,       \* [bases, specs]: what porting-sdk holds
  stage,      \* the step of build_outputs, or "stopped", or "built"
  todo,       \* resources to emit, in order
  classes,    \* [class -> what its package does]
  sidecar,    \* [<<class, method>> -> parameter records]
  tree,       \* the accessors: [flat, containers]
  call        \* the last call a client made, and what was sent

buildVars == <<docs, stage, todo, classes, sidecar, tree, call>>

NoCall == [sent |-> FALSE]

Unset == ""   \* what a specification, a resource or a sub leaves out

\* A table with one entry, and one table over another.
Only(key, value) == [k \in {key} |-> value]
Over(f, g) == [k \in DOMAIN f \cup DOMAIN g |-> IF k \in DOMAIN f THEN f[k] ELSE g[k]]

---------------------------------------------------------------------------
(* Discovery: directories whose document has a resource, in SPEC_ORDER.    *)
HasResource(spec) == \E i \in DOMAIN spec.paths : spec.paths[i].markup.present
TakesPart(spec) == HasResource(spec) \/ (spec.schemas # <<>> /\ spec.servers = <<>>)
Unordered(d) == {s \in d.specs : TakesPart(s) /\ s.dir \notin Range(SpecOrder)}

DiscoverSpecs(d) ==
  LET has == Picked(SpecOrder, {i \in DOMAIN SpecOrder :
                                  \E s \in d.specs : s.dir = SpecOrder[i] /\ HasResource(s)})
  IN  [i \in DOMAIN has |-> CHOOSE s \in d.specs : s.dir = has[i]]

(* Bases and what they extend: a missing or circular one ends the run.     *)
BasesResolve ==
  LET below[seen \in SUBSET DOMAIN docs.bases, b \in DOMAIN docs.bases \cup {""}] ==
        b = "" \/ (b \notin seen /\ b \in DOMAIN docs.bases
                   /\ docs.bases[b] \in DOMAIN docs.bases \cup {""}
                   /\ below[seen \cup {b}, docs.bases[b]])
  IN  \A b \in DOMAIN docs.bases : below[{}, b]

---------------------------------------------------------------------------
(* Paths.                                                                  *)
IsPar(seg) == seg[1] = "par"

ServerPath(spec) == spec.servers[1]
TrailingSlash(spec) == ServerPath(spec) # <<>> /\ Last(ServerPath(spec)) = <<"lit", "">>

IsResource(p) == p.markup.present /\ ~p.markup.exclude /\ p.markup.name # ""
Resources(spec) == Picked(spec.paths, {i \in DOMAIN spec.paths : IsResource(spec.paths[i])})

\* Every <<specification, resource>>, in the order they are generated in.
AllResources(d) ==
  LET specs == DiscoverSpecs(d)
  IN  FlattenSeq([i \in DOMAIN specs |->
        [j \in DOMAIN Resources(specs[i]) |-> <<specs[i], Resources(specs[i])[j]>>]])

\* operationId to operation; the last one that claims an id has it.
Ops(spec) ==
  LET each == FlattenSeq([i \in DOMAIN spec.paths |->
                [j \in DOMAIN spec.paths[i].ops |->
                   [op |-> spec.paths[i].ops[j], path |-> spec.paths[i].path]]])
  IN  [id \in {each[i].op.id : i \in DOMAIN each} |->
         each[Max({i \in DOMAIN each : each[i].op.id = id})]]

\* Everything up to the first parameter, unless the markup says otherwise.
CollectionSegment(anchor, markup) ==
  IF markup.hasCollection THEN markup.collection
  ELSE LET pars == {i \in DOMAIN anchor : IsPar(anchor[i])}
       IN  IF pars = {} THEN anchor ELSE SubSeq(anchor, 1, Min(pars) - 1)

BasePath(spec, r) == ServerPath(spec) \o CollectionSegment(r.path, r.markup)

(* What follows the collection of the resource, or the whole path of an    *)
(* operation that lives somewhere else ("sibling").                        *)
RelativeTail(spec, r, opPath) ==
  LET full == BasePath(spec, r)
      absp == ServerPath(spec) \o opPath
  IN  IF CollectionSegment(r.path, r.markup) # <<>> /\ IsPrefix(full, absp)
      THEN [sibling |-> FALSE, segs |-> SubSeq(absp, Len(full) + 1, Len(absp))]
      ELSE [sibling |-> TRUE, segs |-> absp]

\* Mutant of MethodCallPath: parameters of one name share an argument.
MethodCallPathShared(spec, r, opPath) ==
  LET tail == RelativeTail(spec, r, opPath)
      name(seg) == IF seg[2] = "" THEN "id" ELSE Folded(Snake, seg[2])
  IN  [sibling |-> tail.sibling,
       ids |-> LET pars == Picked(tail.segs, {k \in DOMAIN tail.segs : IsPar(tail.segs[k])})
               IN  [i \in DOMAIN pars |-> name(pars[i])],
       pieces |-> [i \in DOMAIN tail.segs |->
                     IF IsPar(tail.segs[i]) THEN <<"arg", name(tail.segs[i])>> ELSE tail.segs[i]]]

(* Each parameter becomes an argument; a name that is taken gets a "2".    *)
(* The pieces are joined to the base path, or stand alone for a sibling.   *)
ArgFor(seg) == IF seg[2] = "" THEN "id" ELSE Folded(Snake, seg[2])
ArgNames(segs) ==
  LET pars == Picked(segs, {k \in DOMAIN segs : IsPar(segs[k])})
  IN  InTurn([i \in DOMAIN pars |-> ArgFor(pars[i])], "2")

\* The number of the parameter at a place of a path.
Nth(segs, k) == Cardinality({j \in 1 .. k : IsPar(segs[j])})

MethodCallPath(spec, r, opPath) ==
  LET tail == RelativeTail(spec, r, opPath)
      arg == ArgNames(tail.segs)
  IN  [sibling |-> tail.sibling,
       ids |-> arg,
       pieces |-> [k \in DOMAIN tail.segs |->
                     IF IsPar(tail.segs[k]) THEN <<"arg", arg[Nth(tail.segs, k)]>>
                     ELSE tail.segs[k]]]

---------------------------------------------------------------------------
(* The sidecar: what each method's parameters are, without the receiver.   *)
Rec(name, kind, type, required) ==
  [name |-> name, kind |-> kind, type |-> type, required |-> required]

Options == Rec("request_options", "keyword", "optional<RequestOptions>", FALSE)

\* Mutant of Register: request_options goes to the end.
RegisterLast(records) == Append(records, Options)

\* request_options goes in front of the slurpy tail.
Register(records) ==
  LET kept == {i \in DOMAIN records : records[i].kind # "var_keyword"}
      at == IF kept = {} THEN 0 ELSE Max(kept)
  IN  SubSeq(records, 1, at) \o <<Options>> \o SubSeq(records, at + 1, Len(records))

Ids(ids) == [i \in DOMAIN ids |-> Rec(ids[i], "positional", "string", TRUE)]
FieldRecords(defs, fields) ==
  [i \in DOMAIN fields |->
     Rec(fields[i][1], "keyword", CanonicalType(defs, fields[i][2], fields[i][3]), fields[i][3])]
Extras == Rec("extras", "keyword", "optional<dict<string,any>>", FALSE)
Slurpy(name) == Rec(name, "var_keyword", "any", FALSE)

BodyFieldRecords(defs, fields, leading) ==
  leading \o FieldRecords(defs, OrderedFields(fields)) \o <<Extras, Slurpy("kwargs")>>

---------------------------------------------------------------------------
(* Perl subs, as far as they decide what is sent.  "slots" are the         *)
(* positional variables of  my ($self, ..., %rest) = @_;  and "form" says  *)
(* what becomes of %rest: "named" the body, "query" the query, "single" a  *)
(* body of its own slot, "bare" an empty body, "plain" no body, "set" and  *)
(* "command" see below.                                                    *)
Sub(form, verb, where, slots) ==
  [form |-> form, verb |-> verb, where |-> where, slots |-> slots, sets |-> <<>>, says |-> Unset]
Within(ids) == [sibling |-> FALSE, ids |-> ids, pieces |-> [i \in DOMAIN ids |-> <<"arg", ids[i]>>]]

EmitMethod(spec, r, op, opPath) ==
  LET where == MethodCallPath(spec, r, opPath)
      defs == spec.schemas
      writes == op.verb \in {"post", "put", "patch"}
      Made(form, slots, records) ==
        [sub |-> Sub(form, op.verb, where, slots), records |-> Register(records)]
      ids == Ids(where.ids)
  IN  CASE writes /\ op.hasBody /\ IsObjectBody(defs, op.body) ->
             Made("named", where.ids,
                  BodyFieldRecords(defs, ObjectBodyFields(defs, op.body), ids))
        [] writes /\ op.hasBody /\ ~IsObjectBody(defs, op.body) ->
             Made("single", Append(where.ids, "body"),
                  Append(ids, Rec("body", "positional", "dict<string,any>", TRUE)))
        [] writes /\ ~op.hasBody -> Made("bare", where.ids, ids)
        [] op.verb = "get" -> Made("query", where.ids, Append(ids, Slurpy("params")))
        [] op.verb = "delete" -> Made("plain", where.ids, ids)

(* Item paths of the resource, <collection>/{id}, in document order.       *)
Items(spec, r) ==
  LET coll == CollectionSegment(r.path, r.markup)
  IN  SelectSeq(spec.paths, LAMBDA p :
        /\ Len(p.path) = Len(coll) + 1 /\ IsPrefix(coll, p.path) /\ IsPar(Last(p.path))
        /\ \A i \in DOMAIN coll : ~IsPar(coll[i]))

Verbs(item) == {item.ops[i].verb : i \in DOMAIN item.ops}
OpOf(item, verb) == item.ops[CHOOSE i \in DOMAIN item.ops : item.ops[i].verb = verb]

ItemUpdateVerb(spec, r) ==
  LET writable == SelectSeq(Items(spec, r), LAMBDA p : Verbs(p) \cap {"put", "patch"} # {})
  IN  CASE writable = <<>> -> "none"
        [] writable # <<>> /\ "put" \in Verbs(writable[1]) -> "put"
        [] OTHER -> "patch"

UpdateBody(spec, r) ==
  LET verb(p) == IF r.markup.update \in Verbs(p) THEN r.markup.update
                 ELSE IF "put" \in Verbs(p) THEN "put" ELSE "patch"
      found == SelectSeq(Items(spec, r), LAMBDA p :
                 /\ Verbs(p) \cap {"put", "patch"} # {}
                 /\ OpOf(p, verb(p)).hasBody /\ OpOf(p, verb(p)).body # Plain)
  IN  IF found = <<>> THEN Plain ELSE OpOf(found[1], verb(found[1])).body

UpdateRequestFields(spec, r) == SchemaFields(spec.schemas, UpdateBody(spec, r))
UpdateFieldSchemas(spec, r) == ObjectBodyFields(spec.schemas, UpdateBody(spec, r))

(* A set method wraps update(): positional arguments for fields of the     *)
(* update body, the required ones first, and the call handler it stands    *)
(* for.  sm is [name, handler, args], args of <<argument, field, required>>.*)
SetMethodIsSound(spec, r, sm) ==
  /\ sm.handler # ""
  /\ \A i \in DOMAIN sm.args : sm.args[i][2] \in UpdateRequestFields(spec, r)

SetArgs(sm) == OrderedFields(sm.args)

EmitSetMethod(spec, r, sm) ==
  LET schemas == UpdateFieldSchemas(spec, r)
      type(a) == CanonicalType(spec.schemas,
                   IF a[2] \in Keys(schemas) THEN At(schemas, a[2]) ELSE Plain, a[3])
      args == SetArgs(sm)
  IN  [sub |-> [Sub("set", r.markup.update, Within(<<"resource_id">>),
                    <<"resource_id">> \o [i \in DOMAIN args |-> args[i][1]])
                  EXCEPT !.sets = args, !.says = sm.handler],
       records |-> Register(
         <<Rec("resource_id", "positional", "string", TRUE)>>
         \o [i \in DOMAIN sm.args |->
               Rec(sm.args[i][1], "positional", type(sm.args[i]), sm.args[i][3])]
         \o <<Slurpy("extra")>>)]

(* A command: an entry <<command, schema>> of the discriminator's mapping. *)
CommandName(cmd) == Folded(Snake, cmd)

EmitCommand(spec, entry) ==
  LET defs == spec.schemas
      schema == Lookup(defs, entry[2])
      ids == IF CommandHasId(defs, schema) THEN <<"call_id">> ELSE <<>>
  IN  [sub |-> [Sub("command", "post", Within(<<>>), ids) EXCEPT !.says = entry[1]],
       records |-> Register(Ids(ids)
         \o FieldRecords(defs, OrderedFields(CommandParamFields(defs, schema)))
         \o <<Extras>>)]

---------------------------------------------------------------------------
(* Base classes, hand-written and generated: what they provide.            *)
ReadSubs == [list |-> Sub("query", "get", Within(<<>>), <<>>),
             get |-> Sub("plain", "get", Within(<<"resource_id">>), <<"resource_id">>),
             paginate |-> Sub("query", "get", Within(<<>>), <<>>)]

CrudSubs(update) ==
  [list |-> Sub("query", "get", Within(<<>>), <<>>),
   create |-> Sub("named", "post", Within(<<>>), <<>>),
   get |-> Sub("plain", "get", Within(<<"resource_id">>), <<"resource_id">>),
   update |-> Sub("named", update, Within(<<"resource_id">>), <<"resource_id">>),
   delete |-> Sub("plain", "delete", Within(<<"resource_id">>), <<"resource_id">>)]

FabricSubs(update) == Over(CrudSubs(update),
  [list_addresses |->
     Sub("query", "get",
         [Within(<<"resource_id">>) EXCEPT !.pieces = Append(@, <<"lit", "addresses">>)],
         <<"resource_id">>)])

Provides(base, update) ==
  CASE base = "ReadResource" -> ReadSubs
    [] base = "CrudResource" -> CrudSubs(update)
    [] base = "FabricResource" -> FabricSubs(update)
    [] OTHER -> <<>>

Writes(base) == base \in {"CrudResource", "FabricResource"}

(* A declared method the base provides is inherited, except a              *)
(* list_addresses whose operation lives somewhere else.                    *)
IsEmitted(spec, r, m) ==
  \/ m[1] \notin DOMAIN Provides(r.markup.base, "put")
  \/ m[1] = "list_addresses" /\ RelativeTail(spec, r, Ops(spec)[m[2]].path).sibling

EmittedMethods(spec, r) ==
  Picked(r.markup.methods, {i \in DOMAIN r.markup.methods : IsEmitted(spec, r, r.markup.methods[i])})

MarkupIsSound(spec, r) ==
  LET m == r.markup
  IN  IF m.kind = "command-dispatch" THEN m.request \in DOMAIN spec.schemas /\ m.mapping # <<>>
      ELSE /\ m.base \in {"BaseResource", "ReadResource", "CrudResource", "FabricResource"}
           /\ Writes(m.base) => /\ m.update # ""
                                /\ ItemUpdateVerb(spec, r) \in {"none", m.update}
           /\ \A i \in DOMAIN m.methods :
                \/ m.methods[i][2] \in DOMAIN Ops(spec)
                \/ /\ m.methods[i][2] # "" /\ m.methods[i][1] # "list_addresses"
                   /\ m.methods[i][1] \in DOMAIN Provides(m.base, "put")
           /\ m.sets # <<>> => Writes(m.base)
           /\ \A i \in DOMAIN m.sets : SetMethodIsSound(spec, r, m.sets[i])

\* [name -> what is made for it], the last of a name.
ByName(pairs) == [n \in {pairs[i][1] : i \in DOMAIN pairs} |->
                    pairs[Max({i \in DOMAIN pairs : pairs[i][1] = n})][2]]

EmitCommandDispatch(spec, r) ==
  LET path == IF "call-commands" \in DOMAIN Ops(spec)
              THEN Ops(spec)["call-commands"].path ELSE r.path
      map == r.markup.mapping
  IN  [base |-> "BaseResource", path |-> ServerPath(spec) \o path, update |-> Unset,
       made |-> ByName([i \in DOMAIN map |-> <<CommandName(map[i][1]), EmitCommand(spec, map[i])>>])]

EmitResource(spec, r) ==
  IF r.markup.kind = "command-dispatch" THEN EmitCommandDispatch(spec, r)
  ELSE LET own == EmittedMethods(spec, r)
           sets == r.markup.sets
       IN  [base |-> r.markup.base, path |-> BasePath(spec, r), update |-> r.markup.update,
            made |-> ByName(
              [i \in DOMAIN own |-> <<own[i][1], EmitMethod(spec, r, Ops(spec)[own[i][2]].op,
                                                              Ops(spec)[own[i][2]].path)>>]
              \o [i \in DOMAIN sets |-> <<sets[i].name, EmitSetMethod(spec, r, sets[i])>>])]

\* The package: what is made, without the records of the sidecar.
ClassOf(spec, r) ==
  LET class == EmitResource(spec, r)
  IN  [base |-> class.base, path |-> class.path, update |-> class.update,
       subs |-> [m \in DOMAIN class.made |-> class.made[m].sub]]

---------------------------------------------------------------------------
(* The tree of accessors.                                                  *)
Containers == [fabric |-> "FabricNamespace", video |-> "VideoNamespace",
               logs |-> "LogsNamespace", registry |-> "RegistryNamespace",
               project |-> "ProjectNamespace", datasphere |-> "DatasphereNamespace"]

AttrOverride == [GenericResources |-> "resources", FabricAddresses |-> "addresses",
                 FabricTokens |-> "tokens", DatasphereDocuments |-> "documents",
                 ProjectTokens |-> "tokens", PubSub |-> "pubsub",
                 MessageLogs |-> "messages", VoiceLogs |-> "voice",
                 FaxLogs |-> "fax", ConferenceLogs |-> "conferences"]

Snaked(name) == Folded(SnakeName, name)
FlatAccessor(name) == IF name \in DOMAIN AttrOverride THEN AttrOverride[name] ELSE Snaked(name)

ContainerAccessor(markup, container) ==
  CASE markup.attr # "" -> markup.attr
    [] markup.attr = "" /\ markup.name \in DOMAIN AttrOverride -> AttrOverride[markup.name]
    [] OTHER -> LET key == <<container, markup.name>>
                    stem == IF key \in DOMAIN Stem THEN Stem[key] ELSE markup.name
                IN  IF stem = "" THEN Snaked(markup.name) ELSE Snaked(stem)

Placement(spec, r) == IF r.markup.namespace # Unset THEN r.markup.namespace ELSE spec.namespace

ResolvePlacement(d) ==
  LET all == AllResources(d)
  IN  [i \in DOMAIN all |->
         [markup |-> all[i][2].markup, container |-> Placement(all[i][1], all[i][2])]]

\* Mutant of Has: the usual Moo attribute, which the constructor can fill.
HasInit(name, class) == [name |-> name, class |-> class, initArg |-> TRUE]

(* Accessors are lazy and take no constructor argument.                    *)
Has(name, class) == [name |-> name, class |-> class, initArg |-> FALSE]

EmitContainer(placed, container) ==
  LET members == Picked(placed, {i \in DOMAIN placed : placed[i].container = container})
  IN  [i \in DOMAIN members |-> Has(ContainerAccessor(members[i].markup, container),
                                    members[i].markup.name)]

EmitTree(placed) ==
  LET flat == Picked(placed, {i \in DOMAIN placed : placed[i].container = Unset})
      used == {placed[i].container : i \in DOMAIN placed} \ {Unset}
  IN  [flat |-> [i \in DOMAIN flat |-> Has(FlatAccessor(flat[i].markup.name), flat[i].markup.name)],
       containers |-> [c \in used |-> [door |-> Has(c, Containers[c]),
                                       members |-> EmitContainer(placed, c)]]]

\* What an object answers under a name: its last attribute of that name,
\* unless its constructor was given a value for it.
Answer(attributes, name, given) ==
  LET named == {i \in DOMAIN attributes : attributes[i].name = name}
      last == attributes[Max(named)]
  IN  IF named = {} THEN "nothing"
      ELSE IF last.initArg /\ name \in given THEN "the argument" ELSE last.class

---------------------------------------------------------------------------
(* build_outputs, in its order; a failed check stops the generator before  *)
(* anything is written.                                                    *)
BuildInit ==
  /\ docs \in Documents
  /\ stage = "bases" /\ todo = <<>> /\ classes = <<>> /\ sidecar = <<>>
  /\ tree = [flat |-> <<>>, containers |-> <<>>] /\ call = NoCall

Step(from, sound, next) == stage = from /\ stage' = IF sound THEN next ELSE "stopped"

LoadBases == /\ Step("bases", BasesResolve, "discover")
             /\ UNCHANGED <<docs, todo, classes, sidecar, tree, call>>

Discover ==
  LET specs == DiscoverSpecs(docs)
      sound == Unordered(docs) = {} /\ \A i \in DOMAIN specs : ~TrailingSlash(specs[i])
  IN  /\ Step("discover", sound, "resources")
      /\ todo' = IF sound THEN AllResources(docs) ELSE todo
      /\ UNCHANGED <<docs, classes, sidecar, tree, call>>

EmitOne ==
  /\ todo # <<>>
  /\ LET spec == todo[1][1]
         r == todo[1][2]
         made == EmitResource(spec, r).made
     IN  /\ Step("resources", MarkupIsSound(spec, r), "resources")
         /\ IF MarkupIsSound(spec, r)
            THEN /\ classes' = Over(Only(r.markup.name, ClassOf(spec, r)), classes)
                 /\ sidecar' = Over([k \in {<<r.markup.name, m>> : m \in DOMAIN made} |->
                                       made[k[2]].records], sidecar)
                 /\ todo' = Tail(todo)
            ELSE UNCHANGED <<classes, sidecar, todo>>
  /\ UNCHANGED <<docs, tree, call>>

PlaceAll ==
  LET placed == ResolvePlacement(docs)
      known == \A i \in DOMAIN placed : placed[i].container \in DOMAIN Containers \cup {Unset}
  IN  /\ todo = <<>>
      /\ Step("resources", known, "built")
      /\ tree' = IF known THEN EmitTree(placed) ELSE tree
      /\ UNCHANGED <<docs, todo, classes, sidecar, call>>

---------------------------------------------------------------------------
(* Perl: a flat argument list is bound to the slots, the rest is a hash in *)
(* which the last value of a key counts.                                   *)
Undef == <<"undef">>
Key(name) == <<"key", name>>
RO == Key("request_options")
Param(name) == <<"param", name>>   \* a key of the params of a command
Pairs(given) == [i \in 1 .. 2 * Len(given) |->
                   IF i % 2 = 1 THEN Key(given[(i + 1) \div 2]) ELSE <<"val", given[i \div 2]>>]

Hash(list) ==
  LET keys == {i \in DOMAIN list : i % 2 = 1}
      final(k) == Max({i \in keys : list[i] = k}) + 1
  IN  [k \in {list[i] : i \in keys} |-> IF final(k) \in DOMAIN list THEN list[final(k)] ELSE Undef]

Get(hash, key) == IF key \in DOMAIN hash THEN hash[key] ELSE Undef

\* Mutant of Without: nothing is deleted.
WithoutNothing(hash, key) == hash

Without(hash, key) == [k \in DOMAIN hash \ {key} |-> hash[k]]

Whole == <<"whole">>   \* the key under which a body of one piece stands

Perform(class, sub, list) ==
  LET n == Len(sub.slots)
      slot == [i \in 1 .. n |-> IF i \in DOMAIN list THEN list[i] ELSE Undef]
      rest == Hash(SubSeq(list, n + 1, Len(list)))
      value(name) == slot[CHOOSE i \in 1 .. n : sub.slots[i] = name]
      path == [i \in DOMAIN sub.where.pieces |->
                 IF sub.where.pieces[i][1] = "arg" THEN value(sub.where.pieces[i][2])
                 ELSE sub.where.pieces[i]]
      given == Without(rest, RO)
      fields == Picked(sub.sets, {i \in DOMAIN sub.sets :
                                    sub.sets[i][3] \/ value(sub.sets[i][1]) # Undef})
  IN  [sent |-> TRUE, verb |-> sub.verb, ro |-> Get(rest, RO),
       path |-> (IF sub.where.sibling THEN <<>> ELSE class.path) \o path,
       query |-> IF sub.form = "query" THEN given ELSE <<>>,
       body |->
         CASE sub.form = "named" -> given
           [] sub.form = "single" -> Only(Whole, value("body"))
           [] sub.form = "set" ->
                Over(given,
                Over([k \in {Key(fields[i][2]) : i \in DOMAIN fields} |->
                        value(fields[CHOOSE i \in DOMAIN fields : Key(fields[i][2]) = k][1])],
                     Only(Key("call_handler"), <<"val", sub.says>>)))
           [] sub.form = "command" ->
                Over(Only(Key("command"), <<"val", sub.says>>),
                Over([k \in {Key("id") : i \in {j \in 1 .. n : slot[j] # Undef}} |-> slot[1]],
                     [k \in {Param(g[2]) : g \in DOMAIN given} |->
                        given[CHOOSE g \in DOMAIN given : Param(g[2]) = k]]))
           [] OTHER -> <<>>]

\* Perl finds the method on the class or on the base below it.
Method(name, m) ==
  IF m \in DOMAIN classes[name].subs THEN classes[name].subs[m]
  ELSE Provides(classes[name].base, classes[name].update)[m]
Can(name, m) == name \in DOMAIN classes /\
  m \in DOMAIN classes[name].subs \cup DOMAIN Provides(classes[name].base, classes[name].update)

IdAtoms(n) == [i \in 1 .. n |-> <<"id", i>>]
WithOptions(ro) == IF ro THEN <<RO, <<"val", "request_options">>>> ELSE <<>>
OptionsAtom(ro) == IF ro THEN <<"val", "request_options">> ELSE Undef
AsHash(given) == Hash(Pairs(given))

\* A path of the specification with the ids in the place of its parameters.
Filled(path) ==
  [i \in DOMAIN path |-> IF IsPar(path[i]) THEN <<"id", Nth(path, i)>> ELSE path[i]]

(* The client calls a declared method the way its operation asks for: the  *)
(* ids of the path, the body, then names and values; and what should be    *)
(* sent for it.                                                            *)
Intended(verb, path, body, query, ro) ==
  [sent |-> TRUE, verb |-> verb, path |-> path, body |-> body, query |-> query,
   ro |-> OptionsAtom(ro)]

CallMethod(spec, r, m, given, ro) ==
  LET o == Ops(spec)[m[2]]
      ids == IdAtoms(Nth(o.path, Len(o.path)))
      whole == o.op.hasBody /\ ~IsObjectBody(spec.schemas, o.op.body)
      named == (o.op.hasBody /\ ~whole) \/ Method(r.markup.name, m[1]).form = "query"
      list == ids \o (IF whole THEN <<<<"val", "body">>>> ELSE <<>>)
                  \o (IF named THEN Pairs(given) ELSE <<>>) \o WithOptions(ro)
  IN  call' = [what |-> "method",
               did |-> Perform(classes[r.markup.name], Method(r.markup.name, m[1]), list),
               should |-> Intended(o.op.verb, ServerPath(spec) \o Filled(o.path),
                 IF whole THEN Only(Whole, <<"val", "body">>)
                 ELSE IF o.op.hasBody THEN AsHash(given) ELSE <<>>,
                 IF ~o.op.hasBody /\ named THEN AsHash(given) ELSE <<>>, ro)]

\* The arguments of a set method by position, undef for what is left out.
Positional(sm, given) ==
  [i \in DOMAIN sm.args |-> IF sm.args[i][3] \/ sm.args[i][1] \in given
                            THEN <<"val", sm.args[i][1]>> ELSE Undef]

Chosen(sm, given) ==
  Picked(sm.args, {i \in DOMAIN sm.args : sm.args[i][3] \/ sm.args[i][1] \in given})

SetIntended(spec, r, sm, given, extra, ro) ==
  LET args == Chosen(sm, given)
  IN  Intended(r.markup.update, BasePath(spec, r) \o IdAtoms(1),
        Over(AsHash(extra),
        Over([k \in {Key(args[i][2]) : i \in DOMAIN args} |->
                <<"val", args[CHOOSE i \in DOMAIN args : Key(args[i][2]) = k][1]>>],
             Only(Key("call_handler"), <<"val", sm.handler>>))), <<>>, ro)

CallSet(spec, r, sm, given, extra, ro) ==
  call' = [what |-> "set",
           did |-> Perform(classes[r.markup.name], Method(r.markup.name, sm.name),
                     IdAtoms(1) \o Positional(sm, given) \o Pairs(extra) \o WithOptions(ro)),
           should |-> SetIntended(spec, r, sm, given, extra, ro)]

\* The way rest/docs and the header of the generator show it: by name.
CallSetNamed(spec, r, sm, given) ==
  LET args == Chosen(sm, given)
  IN  call' = [what |-> "named_set",
               did |-> Perform(classes[r.markup.name], Method(r.markup.name, sm.name),
                         IdAtoms(1) \o Pairs([i \in DOMAIN args |-> args[i][1]])),
               should |-> SetIntended(spec, r, sm, given, <<>>, FALSE)]

CallCommand(spec, r, entry, given, ro) ==
  LET hasId == CommandHasId(spec.schemas, Lookup(spec.schemas, entry[2]))
      path == IF "call-commands" \in DOMAIN Ops(spec)
              THEN Ops(spec)["call-commands"].path ELSE r.path
  IN  call' = [what |-> "command",
               did |-> Perform(classes[r.markup.name], Method(r.markup.name, CommandName(entry[1])),
                         (IF hasId THEN IdAtoms(1) ELSE <<>>) \o Pairs(given) \o WithOptions(ro)),
               should |-> Intended("post", ServerPath(spec) \o path,
                 Over([k \in {Param(given[i]) : i \in DOMAIN given} |-> <<"val", k[2]>>],
                 Over(IF hasId THEN Only(Key("id"), <<"id", 1>>) ELSE <<>>,
                      Only(Key("command"), <<"val", entry[1]>>))), <<>>, ro)]

Optionals(sm) == {sm.args[i][1] : i \in {j \in DOMAIN sm.args : ~sm.args[j][3]}}

CallSomething ==
  /\ stage = "built"
  /\ \E i \in DOMAIN AllResources(docs), ro \in BOOLEAN,
       given \in {<<>>, <<"one">>, <<"one", "two">>} :
       LET spec == AllResources(docs)[i][1]
           r == AllResources(docs)[i][2]
           m == r.markup
       IN  \/ \E k \in DOMAIN m.methods :
                /\ m.methods[k][2] \in DOMAIN Ops(spec)
                /\ Can(m.name, m.methods[k][1])
                /\ CallMethod(spec, r, m.methods[k], given, ro)
           \/ \E k \in DOMAIN m.sets : \E some \in SUBSET Optionals(m.sets[k]) :
                \/ CallSet(spec, r, m.sets[k], some, given, ro)
                \/ CallSetNamed(spec, r, m.sets[k], some)
           \/ \E k \in DOMAIN m.mapping : CallCommand(spec, r, m.mapping[k], given, ro)
  /\ UNCHANGED <<docs, stage, todo, classes, sidecar, tree>>

BuildNext == LoadBases \/ Discover \/ EmitOne \/ PlaceAll \/ CallSomething

BuildSpec == BuildInit /\ [][BuildNext]_buildVars

---------------------------------------------------------------------------
(* What the generator takes for granted of its input: the shape of the     *)
(* documents, and names and paths it does not check to be apart.           *)
Segments == {"lit", "par"} \X STRING
IsList(s) == s \in Seq(Range(s))

ASSUME SchemasClosed ==
  /\ Plain \in Schemas
  /\ \A sch \in Schemas :
       /\ sch.props \in Seq(STRING \X Schemas)
       /\ sch.allOf \in Seq(Schemas) /\ sch.anyOf \in Seq(Schemas) /\ sch.oneOf \in Seq(Schemas)
       /\ "request_options" \notin Keys(sch.props)

\* The bound is large enough: after Depth steps the way goes on in a circle.
ASSUME DepthIsEnough == \A d \in Documents : \A spec \in d.specs : \A sch \in Schemas :
  LET way == Followed(spec.schemas, sch)
  IN  Follow(spec.schemas, way[Depth]) \in {way[n] : n \in 0 .. Depth}

MarkupShape(m) ==
  /\ m.methods \in Seq(STRING \X STRING) /\ m.mapping \in Seq(STRING \X STRING)
  /\ m.collection \in Seq(Segments)
  /\ IsList(m.sets)
  /\ \A i \in DOMAIN m.sets : m.sets[i].args \in Seq(STRING \X STRING \X BOOLEAN)

ASSUME DocumentShape ==
  /\ SpecOrder \in Seq(STRING)
  /\ \A d \in Documents : \A spec \in d.specs :
       /\ \A x \in DOMAIN spec.schemas : spec.schemas[x] \in Schemas
       /\ spec.servers \in Seq(Seq(Segments)) /\ (HasResource(spec) => spec.servers # <<>>)
       /\ IsList(spec.paths)
       /\ \A i \in DOMAIN spec.paths :
            /\ spec.paths[i].path \in Seq(Segments)
            /\ MarkupShape(spec.paths[i].markup)
            /\ IsList(spec.paths[i].ops)
            /\ \A j \in DOMAIN spec.paths[i].ops :
                 /\ spec.paths[i].ops[j].verb \in {"get", "post", "put", "patch", "delete"}
                 /\ spec.paths[i].ops[j].hasBody =>
                      spec.paths[i].ops[j].verb \in {"post", "put", "patch"}
                 /\ spec.paths[i].ops[j].body \in Schemas

\* Two methods of a class, or two arguments of one, have different names.
NamesApart(m) ==
  /\ \A i, j \in DOMAIN m.methods : m.methods[i][1] = m.methods[j][1] => i = j
  /\ \A i, j \in DOMAIN m.sets : m.sets[i].name = m.sets[j].name => i = j
  /\ \A i \in DOMAIN m.methods, j \in DOMAIN m.sets : m.methods[i][1] # m.sets[j].name
  /\ \A i, j \in DOMAIN m.mapping :
       CommandName(m.mapping[i][1]) = CommandName(m.mapping[j][1]) => i = j

\* The arguments of a set method: the required ones stand in front.
ArgsFit(sm) ==
  /\ SetArgs(sm) = sm.args
  /\ \A i, j \in DOMAIN sm.args : sm.args[i][1] = sm.args[j][1] => i = j
  /\ \A i \in DOMAIN sm.args : sm.args[i][1] \notin {"resource_id", "request_options"}

\* An operation a base class answers for is where the base class looks.
InheritedFits(spec, r, m, o) ==
  LET sub == Provides(r.markup.base, r.markup.update)[m[1]]
      pieces == sub.where.pieces
  IN  /\ o.op.verb = sub.verb /\ Nth(o.path, Len(o.path)) = Len(sub.slots)
      /\ Filled(o.path) = CollectionSegment(r.path, r.markup)
           \o [i \in DOMAIN pieces |-> IF pieces[i][1] = "arg" THEN <<"id", 1>> ELSE pieces[i]]
      /\ o.op.hasBody => sub.form = "named" /\ IsObjectBody(spec.schemas, o.op.body)

\* Names of parameters leave room for the arguments every method has, and
\* one "2" more is another name.
OperationFits(spec, r, o) ==
  /\ \A i \in DOMAIN MethodCallPath(spec, r, o.path).ids :
       MethodCallPath(spec, r, o.path).ids[i] \notin {"body", "request_options"}
  /\ \A i \in DOMAIN o.path : \A a, b \in 0 .. Len(ServerPath(spec)) + Len(o.path) :
       Suffixed(ArgFor(o.path[i]), "2", a) = Suffixed(ArgFor(o.path[i]), "2", b) => a = b

ResourceFits(spec, r) ==
  LET m == r.markup
  IN  /\ NamesApart(m)
      /\ IF m.kind = "command-dispatch" THEN m.methods = <<>> /\ m.sets = <<>>
                                        ELSE m.mapping = <<>>
      /\ \A i \in DOMAIN ServerPath(spec) : ~IsPar(ServerPath(spec)[i])
      /\ m.hasCollection => \A i \in DOMAIN m.collection : ~IsPar(m.collection[i])
      /\ \A i \in DOMAIN m.sets : ArgsFit(m.sets[i])
      /\ \A i \in DOMAIN m.methods : m.methods[i][2] \in DOMAIN Ops(spec) =>
           LET o == Ops(spec)[m.methods[i][2]]
           IN  /\ OperationFits(spec, r, o)
               /\ MarkupIsSound(spec, r) /\ ~IsEmitted(spec, r, m.methods[i]) =>
                    InheritedFits(spec, r, m.methods[i], o)

\* Two resources of one place have different accessors, and no flat one the
\* name of a container.
AccessorsApart(placed) ==
  LET Accessor(i) == IF placed[i].container = Unset THEN FlatAccessor(placed[i].markup.name)
                     ELSE ContainerAccessor(placed[i].markup, placed[i].container)
  IN  \A i, j \in DOMAIN placed :
        /\ placed[i].container = placed[j].container /\ Accessor(i) = Accessor(j) => i = j
        /\ placed[i].container = Unset => Accessor(i) # placed[j].container

ASSUME DocumentsFit == \A d \in Documents : LET all == AllResources(d) IN
  /\ \A i, j \in DOMAIN all : all[i][2].markup.name = all[j][2].markup.name => i = j
  /\ \A i \in DOMAIN all : ResourceFits(all[i][1], all[i][2])
  /\ AccessorsApart(ResolvePlacement(d))

---------------------------------------------------------------------------
(* Between the steps: the first n resources are in classes and sidecar,    *)
(* the others still to do, and what is built is the tree of all.           *)
Generated(n) ==
  LET all == AllResources(docs)
      Made(i) == EmitResource(all[i][1], all[i][2]).made
      Name(i) == all[i][2].markup.name
  IN  /\ Len(todo) = Len(all) - n
      /\ \A k \in 1 .. Len(todo) : todo[k] = all[n + k]
      /\ DOMAIN classes = {Name(i) : i \in 1 .. n}
      /\ \A i \in 1 .. n : /\ MarkupIsSound(all[i][1], all[i][2])
                           /\ classes[Name(i)] = ClassOf(all[i][1], all[i][2])
      /\ DOMAIN sidecar = UNION {{<<Name(i), m>> : m \in DOMAIN Made(i)} : i \in 1 .. n}
      /\ \A i \in 1 .. n : \A m \in DOMAIN Made(i) : sidecar[<<Name(i), m>>] = Made(i)[m].records

BuildInv ==
  /\ docs \in Documents /\ todo \in Seq(Range(AllResources(docs)))
  /\ stage \in {"bases", "discover"} => classes = <<>> /\ sidecar = <<>>
  /\ stage \in {"resources", "built"} => \E n \in 0 .. Len(AllResources(docs)) : Generated(n)
  /\ stage = "built" =>
       LET placed == ResolvePlacement(docs)
       IN  /\ todo = <<>> /\ tree = EmitTree(placed)
           /\ \A i \in DOMAIN placed : placed[i].container \in DOMAIN Containers \cup {Unset}

---------------------------------------------------------------------------
(* A call of a declared method, of a set method or of a command uses the   *)
(* verb of its operation and reaches its path, with the ids the caller     *)
(* passed in the places and in the order of the path's parameters, be the  *)
(* method generated or inherited, its path below the base path or not.     *)
Faithful == call # NoCall /\ call.what \in {"method", "set", "command"}

PathFaithful == Faithful => /\ call.did.verb = call.should.verb
                            /\ call.did.path = call.should.path

(* What the caller names arrives in the body or the query under its field, *)
(* and nothing else does; request_options reach the transport and never    *)
(* the wire.                                                               *)
PayloadFaithful == Faithful => /\ call.did.body = call.should.body
                               /\ call.did.query = call.should.query
                               /\ call.did.ro = call.should.ro

(* The sidecar tells the truth about the methods: every declared method    *)
(* and command exists; the positional records are the slots of the sub, in *)
(* their order; request_options is recorded once, with only the slurpy     *)
(* tail behind it; and what it calls required of a command, every variant  *)
(* of the command requires.                                                *)
InOrder(records) ==
  LET at == {i \in DOMAIN records : records[i] = Options}
  IN  /\ Cardinality(at) = 1
      /\ \A i \in DOMAIN records : i > Max(at) <=> records[i].kind = "var_keyword"

SlotNames(records) ==
  LET pos == Picked(records, {i \in DOMAIN records : records[i].kind = "positional"})
  IN  [i \in DOMAIN pos |-> pos[i].name]

CommandsSound(spec, r) == \A k \in DOMAIN r.markup.mapping :
  LET entry == r.markup.mapping[k]
      command == Lookup(spec.schemas, entry[2])
      records == sidecar[<<r.markup.name, CommandName(entry[1])>>]
      required == {records[i].name : i \in {j \in DOMAIN records :
                     records[j].required /\ records[j].kind = "keyword"}}
      shapes == IF "params" \in Keys(Resolve(spec.schemas, command).props)
                THEN CommandVariants(spec.schemas, command) ELSE <<Plain>>
  IN  \A i \in DOMAIN shapes : required \subseteq shapes[i].req

SidecarAligned == stage = "built" =>
  /\ \A k \in DOMAIN sidecar :
       /\ InOrder(sidecar[k])
       /\ SlotNames(sidecar[k]) = classes[k[1]].subs[k[2]].slots
  /\ \A i \in DOMAIN AllResources(docs) :
       LET r == AllResources(docs)[i][2]
       IN  /\ \A k \in DOMAIN r.markup.methods : Can(r.markup.name, r.markup.methods[k][1])
           /\ CommandsSound(AllResources(docs)[i][1], r)

(* Every resource that was generated is reached from the RestClient by the *)
(* accessor of its placement, although the client is constructed with      *)
(* credentials that have the names of accessors.                           *)
Credentials == {"project", "token", "host"}

Reached(markup, container) ==
  LET c == tree.containers[container]
      used == DOMAIN tree.containers
      doors == SetToSeq({tree.containers[k].door : k \in used})
      root == tree.flat \o doors
  IN  IF container = Unset
      THEN Answer(root, FlatAccessor(markup.name), Credentials) = markup.name
      ELSE /\ container \in used
           /\ Answer(root, container, Credentials) = Containers[container]
           /\ Answer(c.members, ContainerAccessor(markup, container), {}) = markup.name

TreeReachesEveryResource == stage = "built" =>
  \A i \in DOMAIN AllResources(docs) :
    LET spec == AllResources(docs)[i][1]
        r == AllResources(docs)[i][2]
    IN  /\ r.markup.name \in DOMAIN classes
        /\ Reached(r.markup, IF r.markup.namespace = Unset THEN spec.namespace
                                                          ELSE r.markup.namespace)

(* A set method called by argument name, as rest/docs/fabric.md and        *)
(* rest/docs/phone-binding.md do, fills the fields of these names.         *)
NamedArgsReachTheirFields ==
  call # NoCall /\ call.what = "named_set" => call.did.body = call.should.body
============================================================================
