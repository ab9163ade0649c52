--------------------------- MODULE SignatureAudit ---------------------------
(***************************************************************************)
(* enumerate_signatures.py: what the Perl library offers, written the way  *)
(* the reference inventory writes it, so that the two can be compared.     *)
(* After the packages are collected come methods that the reference keeps  *)
(* elsewhere, three passes over all signatures, and the parameters of      *)
(* construction.                                                           *)
(***************************************************************************)
EXTENDS SignatureCollect

(* Places where another name or home is expected.                          *)
PlacesOf(home) == {p \in DOMAIN out : p[1] = home}
InModule(m) == {h \in Range(homes) : h[1] = m /\ h[2] # ""}
Without(f, places) == [p \in DOMAIN f \ places |-> f[p]]
WithHomes(more) == homes \o SelectSeq(more, LAMBDA h : h \notin Range(homes))

PayloadParam(place) == Param(place, "payload", "positional", "dict<string,any>", TRUE)
FromPayload ==
  LET shared == <<<<"relay.event", "Event">>, "from_payload">>
  IN  Sig(shared, <<[SelfParam(shared) EXCEPT !.name = "cls", !.kind = "cls"],
                    PayloadParam(shared)>>, "any")

ReconcileEvents ==
  /\ phase = "events"
  /\ LET events == InModule("relay.event")
         moved == {p \in DOMAIN out : p[1] \in events /\ p[2] = "parse_event"}
         fn == <<<<"relay.event", "">>, "parse_event">>
         ref == NotReceiver(RefSig(fn))
         params == IF ref = <<>> THEN <<Param(fn, "payload", "positional", "any", TRUE)>>
                   ELSE [i \in DOMAIN ref |->
                           Param(fn, ref[i].name, "positional", "any", ref[i].required)]
         typed == {h \in events : h[2] \in EventClasses}
     IN  /\ out' = Without(out, moved)
                   @@ (IF moved = {} THEN <<>> ELSE fn :> Sig(fn, params, "any"))
                   @@ [p \in typed \X {"from_payload"} |-> [FromPayload EXCEPT !.id = p]]
         /\ homes' = IF moved = {} THEN homes ELSE WithHomes(<<fn[1]>>)
  /\ phase' = "actions"
  /\ UNCHANGED <<doc, dump, todo, passing, construction>>

(* Controls that concrete actions inherit.                                 *)
ReconcileActions ==
  /\ phase = "actions"
  /\ LET timers == <<<<"relay.call", "CollectAction">>, "start_input_timers">>
         standalone == <<"relay.call", "StandaloneCollectAction">>
         inherited == IF timers \in DOMAIN out /\ standalone \in Range(homes)
                      THEN <<standalone, "start_input_timers">>
                             :> [out[timers] EXCEPT !.id = <<standalone, "start_input_timers">>]
                      ELSE <<>>
         concrete == {h \in InModule("relay.call") : h[2] \in ActionClasses \ {"Action"}}
         stop == [p \in concrete \X {"stop"} |->
                    Sig(p, <<SelfParam(<<<<"relay.call", "Action">>, "stop">>)>>,
                        "dict<string,any>")]
     IN  out' = out @@ inherited @@ stop
  /\ phase' = "data_map"
  /\ UNCHANGED <<doc, dump, todo, homes, passing, construction>>

ReconcileDataMap ==
  /\ phase = "data_map"
  /\ LET moved == {p \in DOMAIN out : /\ p[1] = DataMap
                     /\ p[2] \in {"create_expression_tool", "create_simple_api_tool"}}
         fn == <<"data_map", "">>
         Plainly(s, place) == [s EXCEPT !.params = NotReceiver(@), !.id = place]
     IN  /\ out' = Without(out, moved)
                   @@ [q \in {<<fn, p[2]>> : p \in moved} |-> Plainly(out[<<DataMap, q[2]>>], q)]
         /\ homes' = IF moved = {} THEN homes ELSE WithHomes(<<fn>>)
  /\ phase' = "relay_error"
  /\ UNCHANGED <<doc, dump, todo, passing, construction>>

ReconcileRelayError ==
  /\ phase = "relay_error"
  /\ LET place == <<<<"relay.client", "RelayError">>, "__init__">>
         ref == NotReceiver(RefSig(place))
         init == Sig(place, <<SelfParam(place)>> \o
                       [i \in DOMAIN ref |->
                          Param(place, ref[i].name, "positional", "any", ref[i].required)], "void")
     IN  out' = IF place[1] \in Range(homes) /\ RefSig(place) # <<>>
                THEN PutNew(out, place, init) ELSE out
  /\ phase' = "mixins"
  /\ UNCHANGED <<doc, dump, todo, homes, passing, construction>>

---------------------------------------------------------------------------
(* Perl has one class where the reference has mixins: their methods leave  *)
(* AgentBase, and SWMLService unless the reference has them there too.     *)
Flattened ==
  LET Of(home) == [n \in {p[2] : p \in PlacesOf(home)} |-> out[<<home, n>>]]
  IN  Of(AgentBase) @@ Of(SWMLService)

\* Mutant of MixinSig: what was collected for AgentBase is good enough.
MixinSigAsIs(place, sig) == sig

MixinSig(place, sig) ==
  LET found == ProjectKwargs(place, Leading(sig.params))
  IN  IF (IsSlurpy(sig.params) \/ place \in HashrefKwargMethods) /\ found # <<>>
      THEN Sig(place, found, sig.returns)
      ELSE sig

\* Mutant of LeavesService: the base class loses them whatever the reference says.
LeavesServiceAlways(names) == {<<SWMLService, n>> : n \in names}

LeavesService(names) ==
  {<<SWMLService, n>> : n \in {m \in names : ~InReference(<<SWMLService, m>>)}}

ProjectMixins ==
  /\ phase = "mixins"
  /\ LET moved == Flattened
         Present(home) == MixinProjections[home] \cap DOMAIN moved
         places == UNION {{home} \X Present(home) : home \in DOMAIN MixinProjections}
         names == {p[2] : p \in places}
         left == Without([p \in places |-> MixinSig(p, moved[p[2]])] @@ out,
                         {<<AgentBase, n>> : n \in names} \cup LeavesService(names))
     IN  /\ out' = left
         /\ homes' = LET all == WithHomes(SelectSeq(MixinOrder, LAMBDA h : Present(h) # {}))
                     IN  IF \E p \in DOMAIN left : p[1] = AgentBase THEN all
                         ELSE SelectSeq(all, LAMBDA h : h # AgentBase)
  /\ phase' = "mcp"
  /\ UNCHANGED <<doc, dump, todo, passing, construction>>

\* For each module its classes, in the order in which they were made, then
\* its functions.
PassOrder(hs) ==
  LET ms == FirstOfEach([i \in DOMAIN hs |-> <<hs[i][1], i>>])
      Of(m) == SelectSeq(hs, LAMBDA h : h[1] = m /\ h[2] # "")
               \o SelectSeq(hs, LAMBDA h : h[1] = m /\ h[2] = "")
  IN  FlattenSeq([i \in DOMAIN ms |-> Of(ms[i][1])])

ReconcileMcp ==
  /\ phase = "mcp"
  /\ LET place == <<<<"skills.mcp_gateway", "MCPGatewaySkill">>, "get_prompt_sections">>
     IN  out' = IF place[1] \in Range(homes)
                THEN PutNew(out, place, Sig(place, <<SelfParam(place)>>, "list<dict<string,any>>"))
                ELSE out
  /\ phase' = "rename"
  /\ passing' = PassOrder(homes)
  /\ UNCHANGED <<doc, dump, todo, homes, construction>>

---------------------------------------------------------------------------
(* The passes, home after home.  "changes" maps ids to parameters.         *)
Rewritten(sigs, changes) ==
  [p \in DOMAIN sigs |->
     [sigs[p] EXCEPT !.params =
        [i \in DOMAIN @ |-> IF @[i].id \in DOMAIN changes THEN changes[@[i].id] ELSE @[i]]]]

RenamedIn(place) ==
  LET table == HandParamRenames[place]
      hit == {q \in Range(out[place].params) : q.name \in DOMAIN table}
  IN  [id \in {q.id : q \in hit} |->
         LET q == CHOOSE r \in hit : r.id = id IN [q EXCEPT !.name = table[q.name]]]

RefTypes(place) ==
  LET typed == {q \in Range(NotReceiver(RefSig(place))) : q.type # "any"}
  IN  [n \in {q.name : q \in typed} |-> (CHOOSE q \in typed : q.name = n).type]

TypedIn(place) ==
  LET types == RefTypes(place)
      hit == {q \in Range(out[place].params) :
                ~IsReceiver(q) /\ q.type = "any" /\ q.name \in DOMAIN types}
  IN  [id \in {q.id : q \in hit} |->
         LET q == CHOOSE r \in hit : r.id = id IN [q EXCEPT !.type = types[q.name]]]

Changes(Of(_), places) ==
  FoldSet(LAMBDA p, acc : Of(p) @@ acc, <<>>, places)

ApplyHandParamRenames ==
  /\ phase = "rename" /\ passing # <<>>
  /\ out' = Rewritten(out, Changes(RenamedIn, PlacesOf(Head(passing)) \cap DOMAIN HandParamRenames))
  /\ passing' = Tail(passing)
  /\ UNCHANGED <<doc, phase, dump, todo, homes, construction>>

ProjectReferenceParamTypes ==
  /\ phase = "types" /\ passing # <<>>
  /\ out' = Rewritten(out, Changes(TypedIn, PlacesOf(Head(passing))))
  /\ passing' = Tail(passing)
  /\ UNCHANGED <<doc, phase, dump, todo, homes, construction>>

ApplyReturnTypeOverrides ==
  /\ phase = "returns" /\ passing # <<>>
  /\ LET places == {p \in PlacesOf(Head(passing)) \cap DOMAIN ReturnTypeOverrides :
                      out[p].returns = "any"}
         New(s) == {p \in places : out[p].id = s.id}
     IN  out' = [p \in DOMAIN out |->
                   IF New(out[p]) = {} THEN out[p]
                   ELSE [out[p] EXCEPT !.returns = ReturnTypeOverrides[CHOOSE q \in New(out[p]) : TRUE]]]
  /\ passing' = Tail(passing)
  /\ UNCHANGED <<doc, phase, dump, todo, homes, construction>>

NextPass ==
  /\ phase \in {"rename", "types", "returns"} /\ passing = <<>>
  /\ phase' = CASE phase = "rename" -> "types" [] phase = "types" -> "returns"
                [] phase = "returns" -> "construction"
  /\ passing' = IF phase = "returns" THEN <<>> ELSE PassOrder(homes)
  /\ UNCHANGED <<doc, dump, todo, out, homes, construction>>

---------------------------------------------------------------------------
(* Construction: the named parameters of __init__, less what the class has *)
(* only from a parent that the reference does not flatten into it.         *)
ConstructionSet(home) ==
  LET init == <<home, "__init__">>
      named == IF init \notin DOMAIN out THEN {}
               ELSE {q \in Range(out[init].params) :
                       /\ q.kind \in {"positional", "keyword"}
                       /\ q.name \notin ConstructionNonParams \cup Private}
  IN  [n \in {q.name : q \in named} |->
         LET q == CHOOSE r \in named : r.name = n
         IN  [type |-> q.type, required |-> q.required]]

FoldedHomes == {h \in Range(homes) : DOMAIN ConstructionSet(h) # {}}

Superclasses ==
  LET Mapped(pkg) == pkg \in DOMAIN PackageToPy /\ PackageToPy[pkg][2] # ""
      Add(acc, e) ==
        LET ps == SelectSeq(e.parents, Mapped)
        IN  IF ~Mapped(e.pkg) \/ ps = <<>> THEN acc
            ELSE IF PackageToPy[ps[1]] = PackageToPy[e.pkg] THEN acc
            ELSE Put(acc, PackageToPy[e.pkg], PackageToPy[ps[1]])
  IN  FoldLeft(Add, <<>>, dump)

RefParams(home) == IF home \in DOMAIN doc.built THEN doc.built[home] ELSE {}
OracleFlattens(home, parent) ==
  \/ RefParams(home) = {} \/ RefParams(parent) = {}
  \/ RefParams(parent) \subseteq RefParams(home)

RECURSIVE ResolvedSeen(_, _)
ResolvedSeen(home, seen) ==
  LET all == ConstructionSet(home)
      parent == IF home \in DOMAIN Superclasses THEN Superclasses[home] ELSE <<"", "">>
      dropped == IF parent \in FoldedHomes \ seen /\ ~OracleFlattens(home, parent)
                 THEN DOMAIN ResolvedSeen(parent, seen \cup {home}) \ RefParams(home)
                 ELSE {}
  IN  Without(all, dropped)
Resolved(home) == ResolvedSeen(home, {})

AsksOracle == \E h \in FoldedHomes : /\ h \in DOMAIN Superclasses
                                     /\ Superclasses[h] \in FoldedHomes

BuildConstruction ==
  /\ phase = "construction"
  /\ IF AsksOracle /\ ~doc.hasConstruction
     THEN phase' = "failed" /\ UNCHANGED construction
     ELSE /\ phase' = "written"
          /\ construction' = [h \in {g \in FoldedHomes : DOMAIN Resolved(g) # {}} |-> Resolved(h)]
  /\ UNCHANGED <<doc, dump, todo, out, homes, passing>>

---------------------------------------------------------------------------
Read == RunDump \/ AugmentWithBarewordHas \/ Merge
Collect == \/ CollectClass \/ CollectFunctions \/ SkipUnmapped \/ Collected
           \/ CollectSwaig \/ CollectSwmlVerbs \/ CollectGenerated
Reconcile == \/ ReconcileEvents \/ ReconcileActions \/ ReconcileDataMap
             \/ ReconcileRelayError \/ ProjectMixins \/ ReconcileMcp
Pass == \/ ApplyHandParamRenames \/ ProjectReferenceParamTypes
        \/ ApplyReturnTypeOverrides \/ NextPass
Next == Read \/ Collect \/ Reconcile \/ Pass \/ BuildConstruction
Spec == Init /\ [][Next]_vars

---------------------------------------------------------------------------
(* What the inventory must be.                                             *)
Written == phase = "written"

(* Every field of a generated class has a reader of its own, a verb's      *)
(* configuration has the fields of all variants of the verb, and no other  *)
(* class of the same generator takes the place of one.                     *)
VerbFields(schemas, class) ==
  UNION {SchemaFields(AsTable(schemas), VerbInner(AsTable(schemas), w)) :
           w \in {v \in Keys(schemas) : /\ HasConfig(AsTable(schemas), v)
                     /\ Pascal[Lookup(AsTable(schemas), v).props[1][1]] \o "Config" = class}}

ShownKeys(schemas, class, hiding) ==
  LET all == IF class.schema \in Keys(schemas) THEN Keys(At(schemas, class.schema).props)
             ELSE VerbFields(schemas, class.schema)
  IN  {k \in all : ~hiding \/ ~Overlaid(Hidden, k, class.schema)}

EveryFieldHasAReader ==
  phase = "augment" =>
    /\ \A c \in Range(SwmlClasses(doc.swml)) :
         ReadersApart(c[2].fields) /\ Covers(c[2].fields, ShownKeys(doc.swml, c[2], TRUE))
    /\ \A c \in Range(PostPromptClasses(doc.postPrompt)) :
         ReadersApart(c[2].fields) /\ Covers(c[2].fields, ShownKeys(doc.postPrompt, c[2], FALSE))
    /\ \A c \in Range(EmitTypes(doc.types, doc.enums)) :
         /\ ReadersApart(c[2].fields)
         /\ \/ Covers(c[2].fields, ShownKeys(doc.types, c[2], TRUE))
            \/ /\ c[2].schema \in DOMAIN doc.enums
               /\ Covers(c[2].fields, Range(doc.enums[c[2].schema].values) \ {""})
    /\ \A c \in Range(SwaigActionClasses(doc.actions) \o RelayClasses(doc.relay)) :
         ReadersApart(c[2].fields)
    /\ \A f \in Range(doc.relay) : IsObjectSchema(f.schema) =>
         \E c \in Range(RelayClasses(doc.relay)) : Covers(c[2].fields, Keys(f.schema.props))
    /\ \A a \in Range(doc.actions) : \A b \in Range(<<a[2]>> \o a[2].oneOf) : IsObj(b) =>
         \E c \in Range(SwaigActionClasses(doc.actions)) :
           c[2].schema = a[1] /\ Covers(c[2].fields, Keys(b.props))

(* The inventory has a field of a verb's class exactly when the schema the *)
(* field was generated from refers to a named one, which is the test the   *)
(* reference inventory makes on its types; without the schema it has all.  *)
RECURSIVE NamedWithin(_)
NamedWithin(schema) ==
  (IF schema.ref = "" THEN {} ELSE {schema.ref})
  \cup UNION {NamedWithin(s) :
               s \in Range(schema.items \o schema.anyOf \o schema.oneOf \o schema.allOf)}

SurfaceAgrees ==
  Written => \A i \in DOMAIN SwmlClasses(doc.swml) :
    LET class == SwmlClasses(doc.swml)[i]
        source == At(FirstOfEach(SwmlSources(doc.swml)), class[1])[2]
    IN  \A f \in Range(class[2].fields) :
          f.attr = f.key =>
            (<<<<"swml_verbs_generated", class[1]>>, f.attr>> \in DOMAIN out
               <=> ~doc.schemaFound \/ NamedWithin(At(source, f.key)) # {})

(* No public method of the library disappears on its way through aliases,  *)
(* filters, moves and mixins: it is where the package is mapped to, at the *)
(* parent it merely overrides, in the module it moved to, or in every      *)
(* mixin that the reference has it in, and then no longer on AgentBase.    *)
Expecting(name) == {m \in DOMAIN MixinProjections : name \in MixinProjections[m]}
PublicSubs(entry) ==
  {Canonical(entry.pkg, entry.methods[i].name) : i \in DOMAIN entry.methods}
    \ (SkipMethods \cup Private \cup Dunder)

NothingLost ==
  Written => \A entry \in Range(dump) :
    LET home == PackageToPy[entry.pkg]
        Overrides(n) == \E h \in Range(homes) : h # home /\ <<h, n>> \in DOMAIN out
        Rehoused(n) ==
          /\ home \in {AgentBase, SWMLService} /\ Expecting(n) # {}
          /\ \A m \in Expecting(n) : <<m, n>> \in DOMAIN out
          /\ <<AgentBase, n>> \notin DOMAIN out
          /\ home = SWMLService => (<<home, n>> \in DOMAIN out <=> InReference(<<home, n>>))
    IN  entry.pkg \in DOMAIN PackageToPy /\ home[2] # "" =>
          \A n \in PublicSubs(entry) :
            \/ <<home, n>> \in DOMAIN out /\ (home = SWMLService => Expecting(n) = {})
            \/ Rehoused(n)
            \/ <<<<home[1], "">>, n>> \in DOMAIN out
            \/ n \in SkippedDueToParent(entry.pkg, home) /\ Overrides(n)

(* Where the library takes a hash and the reference names its arguments,   *)
(* the inventory has these arguments, at the positions and of the kinds of *)
(* the reference, at whichever home the method ended.                      *)
LinesUpWithReference ==
  Written => \A place \in DOMAIN out :
    LET got == NotReceiver(out[place].params)
        ref == NotReceiver(RefSig(place))
        isClass == place[1][2] # "" /\ place[2] # "__init__"
        byHand == \E e \in Range(dump) : /\ e.pkg \in DOMAIN PackageToPy
                                         /\ place[1] \in {PackageToPy[e.pkg]} \cup DOMAIN MixinProjections
    IN  isClass /\ byHand /\ ref # <<>> =>
          /\ IsSlurpy(got) => \/ Last(ref).kind = "var_keyword"
                              \/ Len(got) - 1 > Len(ref)
          /\ \A i \in DOMAIN got : got[i].id[3] = "kwargs" =>
               /\ Len(got) = Len(ref)
               /\ got[i].name = ref[i].name /\ got[i].kind = ref[i].kind

(* The parameters of construction are what Moo's new takes, required when  *)
(* the last declaration of the attribute requires it; with a parent that   *)
(* the reference does not flatten, they are the reference's.               *)
LastNamed(attrs, name) ==
  LET same == {i \in DOMAIN attrs : /\ attrs[i].arg # "undef"
                 /\ Folded(Public, IF attrs[i].arg = "" THEN attrs[i].name ELSE attrs[i].arg) = name}
  IN  attrs[CHOOSE i \in same : \A j \in same : j <= i]
Accepted(attrs) ==
  {Folded(Public, IF a.arg = "" THEN a.name ELSE a.arg) :
     a \in {b \in Range(attrs) : b.arg # "undef"}}

ConstructionIsWhatNewTakes ==
  Written => \A entry \in Range(dump) :
    LET home == PackageToPy[entry.pkg]
        attrs == InheritedAttrs(entry.pkg)
        cut == /\ home \in DOMAIN Superclasses
               /\ ~OracleFlattens(home, Superclasses[home])
        taken == DOMAIN construction[home]
    IN  entry.pkg \in DOMAIN PackageToPy /\ home \in DOMAIN construction /\ attrs # <<>> =>
          /\ taken \subseteq Accepted(attrs) \cup RefParams(home)
          /\ Accepted(attrs) \cap RefParams(home) \subseteq taken
          /\ ~cut => Accepted(attrs) \subseteq taken
          /\ cut => \A n \in taken \ RefParams(home) : n \in Accepted(entry.attrs)
          /\ \A n \in taken \cap Accepted(attrs) \cap {q.name : q \in Range(RefSig(<<home, "__init__">>))} :
               construction[home][n].required = LastNamed(attrs, n).required
=============================================================================
