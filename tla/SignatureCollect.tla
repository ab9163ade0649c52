-------------------------- MODULE SignatureCollect --------------------------
(***************************************************************************)
(* enumerate_signatures.py, its first half: the packages of the library,   *)
(* one after the other, become classes and functions of the inventory.     *)
(*                                                                         *)
(* The recorded signatures are dictionaries that several entries may share *)
(* and that three passes change in place.  Each signature and each         *)
(* parameter carries the place it was made at ("id"); a change of one is a *)
(* change of all that have its id.                                         *)
(*                                                                         *)
(* A package is <<kind, name>>: "hand" for hand-written ones, "REST" for   *)
(* generated resources, else the kind of generated payload.  A place is    *)
(* <<home, name>>.  An attribute is [name, over, required, arg]: "over" is *)
(* for has '+name', "arg" its init_arg, "" when it declares none.          *)
(***************************************************************************)
EXTENDS PayloadClasses, PortTables, FiniteSets

CONSTANTS
  Documents,      \* libraries with the references they are compared with
  PackageToPy,    \* packages of the library, to homes
  Projection,     \* generated resource classes, to <<home, base>>
  EventClasses,   \* classes whose name ends in Event
  ActionClasses,  \* and in Action
  Private,        \* names that begin with one underscore
  Dunder,         \* and with two
  Public          \* private names, to the same without underscores

VARIABLES
  doc,          \* the library and the reference
  phase,
  dump,         \* entries of packages, as signature_dump.pl found them
  todo,         \* merged entries that are not yet collected
  out,          \* places, to signatures
  homes,        \* homes, in the order in which they were made
  passing,      \* homes the current pass has yet to visit
  construction  \* homes, to the parameters of construction

vars == <<doc, phase, dump, todo, out, homes, passing, construction>>

---------------------------------------------------------------------------
(* Signatures.                                                             *)
Receivers == {"self", "cls"}
IsReceiver(p) == p.kind \in Receivers
NotReceiver(ps) == SelectSeq(ps, LAMBDA p : ~IsReceiver(p))

Param(place, name, kind, type, required) ==
  [id |-> <<place, name, "own">>, name |-> name, kind |-> kind, type |-> type,
   required |-> required]
SelfParam(place) == Param(place, "self", "self", "", FALSE)
Sig(place, params, returns) == [id |-> place, params |-> params, returns |-> returns]
Getter(place) == Sig(place, <<SelfParam(place)>>, "any")

\* Sigils of Perl decide the kind.
BySigil(place, name, sigil) ==
  CASE sigil = "@" -> Param(place, name, "var_positional", "list<any>", FALSE)
    [] sigil = "%" -> Param(place, name, "var_keyword", "dict<string,any>", FALSE)
    [] OTHER -> Param(place, name, "positional", "any", TRUE)

ParsedParams(place, params) ==
  LET Of(ps) == [i \in DOMAIN ps |-> BySigil(place, ps[i][1], ps[i][2])]
      first == IF params = <<>> THEN <<"", "">> ELSE params[1]
  IN  CASE first = <<"class_or_self", "">> -> Of(Tail(params))
        [] first \in {<<"self", "">>, <<"s", "">>} -> <<SelfParam(place)>> \o Of(Tail(params))
        [] first = <<"class", "">> ->
             <<[SelfParam(place) EXCEPT !.kind = "cls"]>> \o Of(Tail(params))
        [] OTHER -> Of(params)

RefSig(place) == IF place \in DOMAIN doc.reference THEN doc.reference[place] ELSE <<>>
InReference(place) == place \in DOMAIN doc.reference

(* The keyword arguments that %opts, or one hash, stands for; nothing when *)
(* the reference does not help.                                            *)
ProjectKwargs(place, leading) ==
  LET named == NotReceiver(RefSig(place))
      n == Len(NotReceiver(leading))
      Projected(p) ==
        CASE p.kind = "var_keyword"    -> BySigil(place, p.name, "%")
          [] p.kind = "var_positional" -> BySigil(place, p.name, "@")
          [] OTHER -> Param(place, p.name, p.kind, "any", p.required)
      Fresh(p) == [Projected(p) EXCEPT !.id[3] = "kwargs"]
  IN  IF Len(RefSig(place)) <= 1 \/ n > Len(named) THEN <<>>
      ELSE leading \o [i \in 1 .. Len(named) - n |-> Fresh(named[n + i])]

IsSlurpy(params) == params # <<>> /\ Last(params).kind = "var_keyword"
Leading(params) == IF params # <<>> /\ ~IsReceiver(Last(params)) THEN Front(params) ELSE params

WithKwargs(place, params) ==
  LET sought == IF IsSlurpy(params) THEN place[1][2] # "" \/ place \in HashrefKwargMethods
                ELSE place[1][2] # "" /\ place \in HashrefKwargMethods
      projected == ProjectKwargs(place, Leading(params))
  IN  IF sought /\ projected # <<>> THEN projected ELSE params

---------------------------------------------------------------------------
(* Reading the library.  The generated payload classes are part of it.     *)
PayloadEntry(kind, class) ==
  LET fs == class[2].fields
  IN  [pkg |-> <<kind, class[1]>>, methods |-> <<>>, parents |-> <<>>,
       attrs |-> [i \in DOMAIN fs |-> [name |-> fs[i].attr, over |-> FALSE,
                                       required |-> FALSE, arg |-> ""]]]

Payloads ==
  [SWML |-> SwmlClasses(doc.swml), PostPrompt |-> PostPromptClasses(doc.postPrompt),
   SwaigRequest |-> SwaigRequestClasses(doc.request),
   SwaigActions |-> SwaigActionClasses(doc.actions)]

PayloadEntries ==
  LET Of(kind) == [i \in DOMAIN Payloads[kind] |-> PayloadEntry(kind, Payloads[kind][i])]
  IN  Of("SWML") \o Of("PostPrompt") \o Of("SwaigRequest") \o Of("SwaigActions")

Init ==
  /\ doc \in Documents
  /\ phase = IF doc.oracle THEN "dump" ELSE "failed"
  /\ dump = <<>> /\ todo = <<>> /\ out = <<>> /\ homes = <<>> /\ passing = <<>>
  /\ construction = <<>>

RunDump ==
  /\ phase = "dump"
  /\ dump' = doc.library \o PayloadEntries
  /\ phase' = "augment"
  /\ UNCHANGED <<doc, todo, out, homes, passing, construction>>

EmptyEntry(pkg) == [pkg |-> pkg, attrs |-> <<>>, methods |-> <<>>, parents |-> <<>>]

\* Of the items with one key, the first.
FirstWith(Key(_), items) ==
  LET pairs == FirstOfEach([i \in DOMAIN items |-> <<Key(items[i]), items[i]>>])
  IN  [i \in DOMAIN pairs |-> pairs[i][2]]
FirstAttrs(attrs) == FirstWith(LAMBDA a : <<a.name, a.over>>, attrs)

(* Declarations without quotes are found by a scan of the files of their   *)
(* own; a package known only from them gets an entry.                      *)
AugmentWithBarewordHas ==
  /\ phase = "augment"
  /\ LET Known(d, pkg) == {i \in DOMAIN d : d[i].pkg = pkg}
         FirstOf(d, pkg) == CHOOSE i \in Known(d, pkg) : \A j \in Known(d, pkg) : i <= j
         Add(d, b) ==
           IF Known(d, b.pkg) = {}
           THEN Append(d, [EmptyEntry(b.pkg) EXCEPT !.attrs = FirstAttrs(b.attrs)])
           ELSE [d EXCEPT ![FirstOf(d, b.pkg)].attrs = FirstAttrs(@ \o b.attrs)]
     IN  dump' = FoldLeft(Add, dump, doc.bareword)
  /\ phase' = "merge"
  /\ UNCHANGED <<doc, todo, out, homes, passing, construction>>

(* A package that a file opens again has several entries.                  *)
MergeReopened(entries) ==
  LET pkgs == FirstWith(LAMBDA p : p, [i \in DOMAIN entries |-> entries[i].pkg])
      All(pkg, Field(_)) ==
        LET own == SelectSeq(entries, LAMBDA e : e.pkg = pkg)
        IN  FlattenSeq([i \in DOMAIN own |-> Field(own[i])])
      Union(pkg) ==
        [pkg |-> pkg,
         attrs |-> FirstAttrs(All(pkg, LAMBDA e : e.attrs)),
         methods |-> FirstWith(LAMBDA m : m.name, All(pkg, LAMBDA e : e.methods)),
         parents |-> FirstWith(LAMBDA p : p, All(pkg, LAMBDA e : e.parents))]
  IN  [i \in DOMAIN pkgs |-> Union(pkgs[i])]

Merge ==
  /\ phase = "merge"
  /\ dump' = MergeReopened(dump)
  /\ todo' = dump'
  /\ phase' = "collect"
  /\ UNCHANGED <<doc, out, homes, passing, construction>>

Entry(pkg) ==
  LET known == {i \in DOMAIN dump : dump[i].pkg = pkg}
  IN  IF known = {} THEN EmptyEntry(pkg) ELSE dump[CHOOSE i \in known : TRUE]

RECURSIVE AncestorsSeen(_, _)
AncestorsSeen(pkg, seen) ==
  LET parents == Range(Entry(pkg).parents)
  IN  parents \cup UNION {AncestorsSeen(p, seen \cup {pkg}) : p \in parents \ (seen \cup {pkg})}
Ancestors(pkg) == AncestorsSeen(pkg, {})

\* All attributes a constructor takes, those of the parents first.
RECURSIVE AttrsSeen(_, _)
AttrsSeen(pkg, seen) ==
  IF pkg \in seen THEN <<>>
  ELSE LET parents == Entry(pkg).parents
       IN  FlattenSeq([i \in DOMAIN parents |-> AttrsSeen(parents[i], seen \cup {pkg})])
           \o Entry(pkg).attrs
InheritedAttrs(pkg) == AttrsSeen(pkg, {})

(* Methods that a subclass merely overrides are not recorded there, unless *)
(* the reference does so.                                                  *)
SkippedDueToParent(pkg, home) ==
  LET above == {PackageToPy[a] : a \in Ancestors(pkg) \cap DOMAIN PackageToPy}
  IN  {n \in UNION {ParentOverrideFilter[h] : h \in above \cap DOMAIN ParentOverrideFilter} :
         ~InReference(<<home, n>>)}

Canonical(pkg, name) == IF <<pkg[2], name>> \in DOMAIN MethodRenames
                        THEN MethodRenames[<<pkg[2], name>>] ELSE name

IsCollected(pkg, home, name) ==
  /\ name \notin SkipMethods \cup Private
  /\ name \in Dunder => name = "__init__"
  /\ name \notin SkippedDueToParent(pkg, home)

---------------------------------------------------------------------------
(* One package.                                                            *)
Put(f, key, value) == (key :> value) @@ f
PutNew(f, key, value) == f @@ (key :> value)
AliasesOf(table, name) == IF name \in DOMAIN table THEN table[name] ELSE {}

ClassMethods(entry, home) ==
  LET Add(acc, m) ==
        LET name == Canonical(entry.pkg, m.name)
            place == <<home, name>>
            sig == Sig(place, WithKwargs(place, ParsedParams(place, m.params)), "any")
        IN  IF ~IsCollected(entry.pkg, home, name) THEN acc
            ELSE IF m.params = <<>> THEN Put(acc, name, Getter(place))
            ELSE Put(acc, name, sig) @@ [a \in AliasesOf(MethodAliases, name) |-> sig]
  IN  FoldLeft(Add, <<>>, entry.methods)

WithAttributes(methods, entry, home) ==
  LET Add(acc, a) ==
        LET names == AliasesOf(AttrAliases, a.name)
                     \cup (IF a.name \in Private THEN {} ELSE {a.name})
        IN  acc @@ [n \in names |-> Getter(<<home, a.name>>)]
  IN  FoldLeft(Add, methods, entry.attrs)

\* Mutant of MooParams: what a parent declares wins over has '+name'.
MooParamsFirst(place, attrs) ==
  LET Arg(a) == Folded(Public, IF a.arg = "" THEN a.name ELSE a.arg)
      Add(acc, a) ==
        IF a.arg = "undef" \/ \E i \in DOMAIN acc : acc[i].name = Arg(a) THEN acc
        ELSE Append(acc, Param(place, Arg(a), "positional", "any", a.required))
  IN  FoldLeft(Add, <<>>, attrs)

(* The constructor Moo makes: every attribute that has an init_arg.        *)
MooParams(place, attrs) ==
  LET Arg(a) == Folded(Public, IF a.arg = "" THEN a.name ELSE a.arg)
      Add(acc, a) ==
        LET same == {i \in DOMAIN acc : acc[i].name = Arg(a)}
        IN  IF a.arg = "undef" THEN acc
            ELSE IF same = {}
            THEN Append(acc, Param(place, Arg(a), "positional", "any", a.required))
            ELSE [acc EXCEPT ![CHOOSE i \in same : TRUE].required = a.required]
  IN  FoldLeft(Add, <<>>, attrs)

InitParams(place, attrs) ==
  LET moo == MooParams(place, attrs)
      Made(n) == moo[CHOOSE i \in DOMAIN moo : moo[i].name = n]
      names == {moo[i].name : i \in DOMAIN moo}
      shared == SelectSeq(NotReceiver(RefSig(place)),
                          LAMBDA p : p.name \in names \/ p.kind = "var_keyword")
      Adopted(p) ==
        IF p.name \notin names
        THEN Param(place, p.name, "var_keyword", "dict<string,any>", p.required)
        ELSE [Made(p.name) EXCEPT !.kind = IF p.kind = "keyword" THEN "keyword" ELSE @]
      extra == SelectSeq(moo, LAMBDA p : \A i \in DOMAIN shared : shared[i].name # p.name)
  IN  <<SelfParam(place)>> \o [i \in DOMAIN shared |-> Adopted(shared[i])]
      \o [i \in DOMAIN extra |-> [extra[i] EXCEPT !.required = FALSE]]

WithInit(methods, entry, home) ==
  LET place == <<home, "__init__">>
      attrs == InheritedAttrs(entry.pkg)
  IN  IF /\ "__init__" \notin DOMAIN methods
         /\ InReference(place)
         /\ attrs # <<>> \/ Len(RefSig(place)) = 1
      THEN Put(methods, "__init__", Sig(place, InitParams(place, attrs), "void"))
      ELSE methods

Record(home, methods) ==
  /\ out' = [p \in {home} \X DOMAIN methods |-> methods[p[2]]] @@ out
  /\ homes' = IF home \in Range(homes) THEN homes ELSE Append(homes, home)

HandWritten == /\ phase = "collect" /\ todo # <<>>
               /\ Head(todo).pkg \in DOMAIN PackageToPy

CollectClass ==
  /\ HandWritten
  /\ LET entry == Head(todo)
         home == PackageToPy[entry.pkg]
         methods == WithInit(WithAttributes(ClassMethods(entry, home), entry, home), entry, home)
     IN  /\ home[2] # ""
         /\ IF DOMAIN methods = {} THEN UNCHANGED <<out, homes>> ELSE Record(home, methods)
  /\ todo' = Tail(todo)
  /\ UNCHANGED <<doc, phase, dump, passing, construction>>

\* Packages without a class: only the listed ones have functions.
CollectFunctions ==
  /\ HandWritten
  /\ LET entry == Head(todo)
         home == PackageToPy[entry.pkg]
         Taken(m) == IsCollected(entry.pkg, home, Canonical(entry.pkg, m.name))
         Add(acc, m) ==
           LET place == <<home, Canonical(entry.pkg, m.name)>>
           IN  Put(acc, place[2], Sig(place, WithKwargs(place, ParsedParams(place, m.params)), "any"))
         functions == FoldLeft(Add, <<>>, SelectSeq(entry.methods, Taken))
     IN  /\ home[2] = ""
         /\ IF entry.pkg[2] \in FreeFnPackages /\ DOMAIN functions # {}
            THEN Record(home, functions) ELSE UNCHANGED <<out, homes>>
  /\ todo' = Tail(todo)
  /\ UNCHANGED <<doc, phase, dump, passing, construction>>

---------------------------------------------------------------------------
(* Generated packages are recognised by their path.                        *)
IsPlain(name) == name \notin Private
Members(entry, home) ==
  [n \in {entry.attrs[i].name : i \in DOMAIN entry.attrs} |-> Getter(<<home, n>>)]

CollectSwaig ==
  /\ phase = "collect" /\ todo # <<>> /\ Head(todo).pkg[1] \in DOMAIN SwaigSubModule
  /\ LET entry == Head(todo)
         home == <<SwaigSubModule[entry.pkg[1]], entry.pkg[2]>>
     IN  Record(home, Members(entry, home))
  /\ todo' = Tail(todo)
  /\ UNCHANGED <<doc, phase, dump, passing, construction>>

SurfaceFields == IF doc.schemaFound THEN SurfaceFieldsByClass(doc.swml) ELSE <<>>

CollectSwmlVerbs ==
  /\ phase = "collect" /\ todo # <<>> /\ Head(todo).pkg[1] = "SWML"
  /\ LET entry == Head(todo)
         home == <<"swml_verbs_generated", entry.pkg[2]>>
         all == Members(entry, home)
         kept == {n \in DOMAIN all : IsRecorded(SurfaceFields, entry.pkg[2], n)}
     IN  Record(home, [n \in kept |-> all[n]])
  /\ todo' = Tail(todo)
  /\ UNCHANGED <<doc, phase, dump, passing, construction>>

(* Methods of generated resources: from the sidecar, or as parsed.         *)
GeneratedParams(place, params) ==
  LET ps == ParsedParams(place, params)
      whole == IF params # <<>> /\ params[1][1] = "class_or_self"
               THEN <<BySigil(place, "class_or_self", "")>> \o ps ELSE ps
  IN  IF whole = <<>> \/ ~IsReceiver(whole[1]) THEN <<SelfParam(place)>> \o whole ELSE whole

RequestOptions(place) ==
  Param(place, "request_options", "keyword", "optional<RequestOptions>", FALSE)

BeforeTail(params, p) ==
  IF IsSlurpy(params) THEN Front(params) \o <<p, Last(params)>> ELSE Append(params, p)

GeneratedSig(class, place, m) ==
  LET key == <<class, m.name>>
  IN  IF key \in DOMAIN doc.sidecar
      THEN Sig(place, <<SelfParam(place)>> \o
                      [i \in DOMAIN doc.sidecar[key] |->
                         LET r == doc.sidecar[key][i]
                         IN  Param(place, r.name, r.kind, r.type, r.required)], "any")
      ELSE Sig(place, GeneratedParams(place, m.params), "any")

BaseMethods(class, home, methods) ==
  LET Of(m) ==
        LET sig == GeneratedSig(class, <<home, m.name>>, m)
        IN  IF <<class, m.name>> \in DOMAIN doc.sidecar \/ m.name \notin {"list_addresses", "paginate"}
            THEN sig
            ELSE [sig EXCEPT !.params = BeforeTail(@, RequestOptions(<<home, m.name>>))]
  IN  [n \in {methods[i].name : i \in DOMAIN methods} |->
         Of(methods[CHOOSE i \in DOMAIN methods : methods[i].name = n])]

ResourceMethods(class, base, home, entry, methods) ==
  LET init == Sig(<<home, "__init__">>, <<SelfParam(<<home, "__init__">>),
                    Param(<<home, "__init__">>, "http", "positional", "any", TRUE)>>, "void")
      own == [n \in {methods[i].name : i \in DOMAIN methods} |->
                GeneratedSig(class, <<home, n>>,
                             methods[CHOOSE i \in DOMAIN methods : methods[i].name = n])]
      page == <<home, "paginate">>
      paginate == Sig(page, <<SelfParam(page), RequestOptions(page),
                              BySigil(page, "params", "%")>>, "any")
      accessors == Members([entry EXCEPT !.attrs = SelectSeq(@, LAMBDA a : IsPlain(a.name))], home)
  IN  (IF base = "ReadResource" THEN "paginate" :> paginate ELSE <<>>)
      @@ own @@ ("__init__" :> init) @@ accessors

CollectGenerated ==
  /\ phase = "collect" /\ todo # <<>> /\ Head(todo).pkg[1] = "REST"
  /\ LET entry == Head(todo)
         class == entry.pkg[2]
         methods == SelectSeq(entry.methods, LAMBDA m : m.name \notin SkipMethods \cup Private)
         base == <<"rest._base", IF class = "FabricResource" THEN "CrudWithAddresses" ELSE class>>
     IN  CASE class \in {"ReadResource", "FabricResource"} /\ methods # <<>> ->
                Record(base, BaseMethods(class, base, methods))
           [] class \in DOMAIN Projection \ {"ReadResource", "FabricResource"} ->
                LET home == <<Projection[class][1], class>>
                IN  Record(home, ResourceMethods(class, Projection[class][2], home, entry, methods))
           [] OTHER -> UNCHANGED <<out, homes>>
  /\ todo' = Tail(todo)
  /\ UNCHANGED <<doc, phase, dump, passing, construction>>

SkipUnmapped ==
  /\ phase = "collect" /\ todo # <<>>
  /\ Head(todo).pkg[1] = "hand" /\ Head(todo).pkg \notin DOMAIN PackageToPy
  /\ todo' = Tail(todo)
  /\ UNCHANGED <<doc, phase, dump, out, homes, passing, construction>>

Collected ==
  /\ phase = "collect" /\ todo = <<>>
  /\ phase' = "events"
  /\ UNCHANGED <<doc, dump, todo, out, homes, passing, construction>>
=============================================================================
