-------------------------- MODULE RestResourcesMC --------------------------
(* Three documents shaped like the fabric, phone number and calling ones,  *)
(* and variants of them: markup that must stop the generator, and the      *)
(* shapes of paths, bodies and placements it has to get right.             *)
EXTENDS RestResources

McFold == <<>>
McSnake == [x \in {"call-id", "calling.play", "calling.ai.hold"} |->
              CASE x = "call-id" -> "call_id" [] x = "calling.play" -> "play"
                [] OTHER -> "ai_hold"]
McSnakeName == [CallFlows |-> "call_flows", PhoneNumbers |-> "phone_numbers",
                Calling |-> "calling", Tokens |-> "tokens", Brands |-> "brands"]
McStem == (<<"project", "ProjectTokens">> :> "Tokens")
          @@ (<<"registry", "RegistryBrands">> :> "Brands")
McSpecOrder == <<"fabric", "relay-rest", "calling", "project", "swml-webhooks">>

Lit(x) == <<"lit", x>>
Par(x) == <<"par", x>>

Typed(t) == [Plain EXCEPT !.types = <<t>>]
Ref(x) == [Plain EXCEPT !.ref = x]
Object(props, req) == [Plain EXCEPT !.types = <<"object">>, !.props = props, !.req = req]
OneOf(list) == [Plain EXCEPT !.oneOf = list]
AllOf(list) == [Plain EXCEPT !.allOf = list]

NoBody(verb, id) == [verb |-> verb, id |-> id, hasBody |-> FALSE, body |-> Plain]
Body(verb, id, body) == [verb |-> verb, id |-> id, hasBody |-> TRUE, body |-> body]

NoMarkup ==
  [present |-> FALSE, exclude |-> FALSE, name |-> "", kind |-> "", base |-> "BaseResource",
   namespace |-> "", attr |-> "", update |-> "", hasCollection |-> FALSE,
   collection |-> <<>>, methods |-> <<>>, sets |-> <<>>, request |-> "", mapping |-> <<>>]
Resource(name, base) == [NoMarkup EXCEPT !.present = TRUE, !.name = name, !.base = base]
Item(path, ops, markup) == [path |-> path, ops |-> ops, markup |-> markup]

Crud == <<<<"list", "flow.list">>, <<"create", "flow.create">>, <<"get", "flow.get">>,
          <<"update", "flow.update">>, <<"delete", "flow.delete">>>>

FlowBody == Object(<<<<"title", Typed("string")>>, <<"doc", Ref("Flow")>>>>, {"title"})

Fabric(update, addresses) ==
  LET coll == <<Lit("resources"), Lit("call_flows")>>
      aside == <<Lit("resources"), Lit("call_flow")>>
  IN  [dir |-> "fabric", servers |-> <<<<Lit("api"), Lit("fabric")>>>>, namespace |-> "fabric",
       schemas |-> [Flow |-> FlowBody, Loop |-> AllOf(<<Ref("Loop")>>),
                    Version |-> OneOf(<<FlowBody, Ref("Flow")>>)],
       paths |->
         <<Item(coll, <<NoBody("get", "flow.list"), Body("post", "flow.create", Ref("Flow"))>>,
                [Resource("CallFlows", "FabricResource") EXCEPT !.update = update,
                   !.methods = Crud \o <<<<"list_addresses", "flow.addresses">>,
                                         <<"deploy_version", "flow.deploy">>,
                                         <<"copy", "flow.copy">>, <<"drop_part", "flow.drop">>>>]),
           Item(coll \o <<Par("id")>>,
                <<NoBody("get", "flow.get"), NoBody("delete", "flow.delete"),
                  Body("put", "flow.update", AllOf(<<Ref("Flow")>>))>>, NoMarkup),
           Item(addresses \o <<Par("id"), Lit("addresses")>>,
                <<NoBody("get", "flow.addresses")>>, NoMarkup),
           Item(aside \o <<Par("id"), Lit("versions")>>,
                <<Body("post", "flow.deploy", Ref("Version"))>>, NoMarkup),
           Item(coll \o <<Par("id"), Lit("copies")>>, <<NoBody("post", "flow.copy")>>, NoMarkup),
           Item(coll \o <<Par("id"), Lit("parts"), Par("id")>>,
                <<NoBody("delete", "flow.drop")>>, NoMarkup)>>]

Beside == <<Lit("resources"), Lit("call_flow")>>
Below  == <<Lit("resources"), Lit("call_flows")>>

SetWebhook == [name |-> "set_webhook", handler |-> "relay_script",
               args |-> <<<<"url", "script_url", TRUE>>, <<"fallback", "fallback_url", FALSE>>>>]
Phone(set, base) ==
  LET coll == <<Lit("phone_numbers")>>
      fields == Object(<<<<"script_url", Typed("string")>>>>, {})
      more == Object(<<<<"fallback_url", Typed("string")>>>>, {"fallback_url"})
  IN  [dir |-> "relay-rest", servers |-> <<<<Lit("api"), Lit("relay")>>>>, namespace |-> "",
       schemas |-> [Phone |-> AllOf(<<fields, more>>)],
       paths |->
         <<Item(coll \o <<Par("id")>>,
                <<NoBody("get", "phone.get"), Body("put", "phone.update", Ref("Phone"))>>,
                [Resource("PhoneNumbers", base) EXCEPT !.update = "put",
                   !.methods = <<<<"get", "phone.get">>, <<"search", "phone.search">>,
                                 <<"rename", "phone.rename">>>>,
                   !.sets = <<set>>]),
           Item(coll \o <<Lit("search")>>, <<NoBody("get", "phone.search")>>, NoMarkup),
           Item(coll \o <<Par("call-id"), Lit("names"), Par("call_id")>>,
                <<Body("patch", "phone.rename", Ref("Phone"))>>, NoMarkup)>>]

PlayParams == OneOf(<<Object(<<<<"url", Typed("string")>>, <<"loop", Typed("integer")>>>>, {"url", "loop"}),
                      Object(<<<<"url", Typed("string")>>>>, {"url"})>>)
Calling(request) ==
  [dir |-> "calling", servers |-> <<<<Lit("api"), Lit("calling")>>>>, namespace |-> "",
   schemas |-> [CallRequest |-> Plain,
                Play |-> Object(<<<<"id", Typed("string")>>, <<"params", PlayParams>>>>, {}),
                Hold |-> Object(<<<<"params", Ref("Play")>>>>, {})],
   paths |-> <<Item(<<Lit("calls")>>, <<Body("post", "call-commands", Ref("CallRequest"))>>,
                    [Resource("Calling", "BaseResource") EXCEPT
                       !.kind = "command-dispatch", !.request = request,
                       !.mapping = <<<<"calling.play", "Play">>, <<"calling.ai.hold", "Hold">>>>])>>]

Project(slash, namespace) ==
  [dir |-> "project", servers |-> <<<<Lit("api"), Lit("project")>> \o slash>>,
   namespace |-> namespace, schemas |-> <<>>,
   paths |-> <<Item(<<Lit("tokens")>>, <<Body("post", "token.create", Plain)>>,
                    [Resource("ProjectTokens", "BaseResource") EXCEPT
                       !.methods = <<<<"create", "token.create">>>>]),
               Item(<<Lit("brands"), Par("id")>>, <<NoBody("get", "brand.get")>>,
                    [Resource("RegistryBrands", "ReadResource") EXCEPT
                       !.namespace = "registry",
                       !.hasCollection = TRUE, !.collection = <<Lit("brands")>>,
                       !.methods = <<<<"list", "brand.list">>, <<"get", "brand.get">>,
                                     <<"list_orders", "brand.orders">>>>]),
               Item(<<Lit("brands")>>, <<NoBody("get", "brand.list")>>,
                    [Resource("Unfinished", "NoSuchBase") EXCEPT !.exclude = TRUE]),
               Item(<<Lit("brands"), Par(""), Lit("orders")>>,
                    <<NoBody("get", "brand.orders")>>, NoMarkup)>>]

Webhooks(dir) == [dir |-> dir, servers |-> <<>>, namespace |-> "", paths |-> <<>>,
                  schemas |-> [Hook |-> Object(<<<<"id", Typed("string")>>>>, {})]]

Bases == [BaseResource |-> "", ReadResource |-> "BaseResource", CrudResource |-> "BaseResource",
          FabricResource |-> "CrudResource"]
With(bases, specs) == [bases |-> bases, specs |-> specs]

\* A schema and the schemas inside it.
RECURSIVE Inside(_)
Inside(sch) == {sch} \cup UNION {Inside(x) : x \in
  Range(sch.allOf \o sch.anyOf \o sch.oneOf \o sch.items
        \o [i \in DOMAIN sch.props |-> sch.props[i][2]])}

McDocuments ==
  {With(Bases, {Fabric("put", Beside), Phone(SetWebhook, "CrudResource"),
                Calling("CallRequest"), Project(<<>>, "project"), Webhooks("swml-webhooks")}),
   With(Bases, {Fabric("put", Below), Project(<<>>, "")}),
   With([Bases EXCEPT !.BaseResource = "FabricResource"], {Project(<<>>, "")}),
   With([Bases EXCEPT !.BaseResource = "NoSuchBase"], {Project(<<>>, "")}),
   With(Bases, {Project(<<>>, ""), Webhooks("brand-new")}),
   With(Bases, {Project(<<Lit("")>>, "")}),
   With(Bases, {Project(<<>>, "elsewhere")}),
   With(Bases, {Fabric("patch", Beside)}),
   With(Bases, {Fabric("", Beside)}),
   With(Bases, {Calling("NoSuchRequest")}),
   With(Bases, {Phone(SetWebhook, "ReadResource")}),
   With(Bases, {Phone([SetWebhook EXCEPT !.handler = ""], "CrudResource")}),
   With(Bases, {Phone([SetWebhook EXCEPT !.args = <<<<"url", "no_such_field", TRUE>>>>],
                      "CrudResource")})}

McSchemas == {Plain} \cup
  UNION {UNION {Inside(spec.schemas[x]) : x \in DOMAIN spec.schemas}
         \cup UNION {UNION {Inside(p.ops[j].body) : j \in DOMAIN p.ops} : p \in Range(spec.paths)} :
         spec \in UNION {d.specs : d \in McDocuments}}
============================================================================
