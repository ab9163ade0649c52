-------------------------- MODULE SignatureAuditMC --------------------------
(* Excerpts of the library: the agent and its mixins, relay events and     *)
(* actions, skills, the REST classes, and schemas of generated payloads.   *)
EXTENDS SignatureAudit

McFold == [x \in {"Hold.Params", "9lives"} |-> IF x = "9lives" THEN "_9lives" ELSE "Hold_Params"]
McPascal == [v \in {"transfer", "say", "user_event", "calling.play", "signalwire.connect", "hold",
                    "stop"} |->
               CASE v = "transfer" -> "Transfer" [] v = "say" -> "Say" [] v = "hold" -> "Hold"
                 [] v = "user_event" -> "UserEvent" [] v = "calling.play" -> "CallingPlay"
                 [] v = "stop" -> "Stop" [] OTHER -> "SignalwireConnect"]
McConstant == [v \in {"in-queue", "in_queue", "done"} |-> IF v = "done" THEN "DONE" ELSE "IN_QUEUE"]
McStripped == <<>>
McHidden == {<<"internal_id", "">>, <<"swaig_post_params", "AIParams">>}
McPrivate == {"_http", "_log", "_build_name", "_helper", "_project_id"}
McPublic == [n \in McPrivate |-> CASE n = "_http" -> "http" [] n = "_log" -> "log"
              [] n = "_build_name" -> "build_name" [] n = "_helper" -> "helper"
              [] OTHER -> "project_id"]

Hand(name) == <<"hand", name>>
McPackageToPy ==
  (Hand("Agent::AgentBase") :> AgentBase) @@ (Hand("SWML::Service") :> SWMLService)
  @@ (Hand("Agent::ToolRegistry") :> ToolRegistry)
  @@ (Hand("Prefabs::Survey") :> <<"prefabs.survey", "SurveyAgent">>)
  @@ (Hand("Relay::Event") :> <<"relay.event", "RelayEvent">>)
  @@ (Hand("Relay::Event::CallReceive") :> <<"relay.event", "CallReceiveEvent">>)
  @@ (Hand("Relay::Call") :> <<"relay.call", "Call">>)
  @@ (Hand("Relay::Action") :> <<"relay.call", "Action">>)
  @@ (Hand("Relay::Action::Collect") :> <<"relay.call", "CollectAction">>)
  @@ (Hand("Relay::Action::StandaloneCollect") :> <<"relay.call", "StandaloneCollectAction">>)
  @@ (Hand("Relay::Client::RelayError") :> <<"relay.client", "RelayError">>)
  @@ (Hand("Skills::SkillBase") :> SkillBase)
  @@ (Hand("Skills::Builtin::Spider") :> <<"skills.spider", "SpiderSkill">>)
  @@ (Hand("Skills::Builtin::McpGateway") :> <<"skills.mcp_gateway", "MCPGatewaySkill">>)
  @@ (Hand("Skills::SkillManager") :> SkillManager)
  @@ (Hand("REST::HttpClient") :> <<"rest.http", "HttpClient">>)
  @@ (Hand("REST::SignalWireRestError") :> <<"rest._base", "SignalWireRestError">>)
  @@ (Hand("REST::SignalWireRestTransportError") :> <<"rest._base", "SignalWireRestTransportError">>)
  @@ (Hand("DataMap") :> DataMap)
  @@ (Hand("Security::WebhookMiddleware") :> Validate)
  @@ (Hand("Logging") :> <<"logging_config", "">>)
McProjection == [Calling |-> <<"calling", "Base">>, FaxLogs |-> <<"fax", "ReadResource">>,
                 FabricNamespace |-> <<"_client_tree", "Base">>]
McEventClasses == {"RelayEvent", "CallReceiveEvent"}
McActionClasses == {"Action", "CollectAction", "StandaloneCollectAction"}

---------------------------------------------------------------------------
Sub(name, params) == [name |-> name, params |-> params]
One(x) == <<x, "">>
Self == One("self")
Opts == <<"opts", "%">>
Attr(name) == [name |-> name, over |-> FALSE, required |-> FALSE, arg |-> ""]
Needed(name) == [Attr(name) EXCEPT !.required = TRUE]
Arg(name, arg) == [Attr(name) EXCEPT !.arg = arg]
Over(name, arg) == [Arg(name, arg) EXCEPT !.over = TRUE]
Package(name, parents, attrs, methods) ==
  [pkg |-> Hand(name), parents |-> [i \in DOMAIN parents |-> Hand(parents[i])],
   attrs |-> attrs, methods |-> methods]

RefSelf == [name |-> "self", kind |-> "self", type |-> "", required |-> FALSE]
RefArg(name, kind, type, required) ==
  [name |-> name, kind |-> kind, type |-> type, required |-> required]
Pos(name, type) == RefArg(name, "positional", type, TRUE)
Key(name, type) == RefArg(name, "keyword", type, FALSE)
Kwargs == RefArg("kwargs", "var_keyword", "any", FALSE)

Bare == [oracle |-> TRUE, hasConstruction |-> TRUE, schemaFound |-> TRUE,
         library |-> <<>>, bareword |-> <<>>, sidecar |-> <<>>, reference |-> <<>>,
         built |-> <<>>, swml |-> <<>>, postPrompt |-> <<>>,
         request |-> [Plain EXCEPT !.props = <<<<"call_id", Plain>>>>],
         actions |-> <<>>, relay |-> <<>>, types |-> <<>>, enums |-> <<>>]

---------------------------------------------------------------------------
AgentLibrary ==
  <<Package("Agent::AgentBase", <<"SWML::Service">>,
      <<Attr("agent_id"), Attr("_log")>>,
      <<Sub("add_language", <<Self, One("lang")>>), Sub("set_prompt_text", <<Self, One("text")>>),
        Sub("run", <<Self, Opts>>), Sub("add_mcp_server", <<Self, One("url"), Opts>>),
        Sub("define_tool", <<Self, Opts>>), Sub("on_debug_event", <<Self, One("cb")>>),
        Sub("set_languages", <<Self, One("langs")>>), Sub("handle_request", <<Self, One("env")>>),
        Sub("to_hash", <<Self>>), Sub("_helper", <<Self>>), Sub("BUILD", <<Self>>)>>),
    Package("Agent::ToolRegistry", <<>>, <<Attr("agent")>>,
      <<Sub("define_tool", <<Self, Opts>>), Sub("has_function", <<Self, One("name")>>)>>),
    Package("Prefabs::Survey", <<"Agent::AgentBase">>, <<Needed("questions")>>,
      <<Sub("new", <<One("class"), <<"args", "%">>>>), Sub("validate", <<Self, One("answer")>>)>>),
    Package("Prefabs::Unmapped", <<"Agent::AgentBase">>, <<>>, <<Sub("go", <<Self>>)>>),
    Package("SWML::Service", <<>>, <<Needed("name"), Attr("route"), Arg("_project_id", "project")>>,
      <<Sub("as_router", <<Self>>), Sub("on_request", <<Self, One("data")>>),
        Sub("handle_request", <<Self, One("env")>>), Sub("to_hash", <<Self>>)>>)>>

AgentReference ==
  (<<AIConfigMixin, "add_language">> :> <<RefSelf, Pos("name", "string"), Pos("code", "string")>>)
  @@ (<<PromptMixin, "set_prompt_text">> :> <<RefSelf, Pos("text", "string")>>)
  @@ (<<PromptManager, "set_prompt_text">> :> <<RefSelf, Pos("text", "any")>>)
  @@ (<<WebMixin, "run">> :> <<RefSelf, Key("event", "any"), Key("host", "string")>>)
  @@ (<<AIConfigMixin, "add_mcp_server">> :> <<RefSelf, Pos("url", "string"), Key("headers", "any")>>)
  @@ (<<<<"tool_mixin", "ToolMixin">>, "define_tool">> :>
        <<RefSelf, Pos("name", "string"), Pos("handler", "any"), Kwargs>>)
  @@ (<<AgentBase, "on_debug_event">> :> <<RefSelf, Pos("handler", "callable")>>)
  @@ (<<AIConfigMixin, "set_languages">> :> <<RefSelf, Pos("languages", "list<any>")>>)
  @@ (<<SWMLService, "as_router">> :> <<RefSelf>>)
  @@ (<<SWMLService, "handle_request">> :> <<RefSelf, Pos("env", "dict")>>)
  @@ (<<SWMLService, "to_dict">> :> <<RefSelf>>)
  @@ (<<AgentBase, "__init__">> :> <<RefSelf, Pos("name", "string"), Key("route", "string"),
                                     Key("agent_id", "string")>>)
  @@ (<<SWMLService, "__init__">> :> <<RefSelf, Pos("name", "string"), Key("route", "string"), Kwargs>>)
  @@ (<<<<"prefabs.survey", "SurveyAgent">>, "__init__">> :>
        <<RefSelf, Pos("questions", "list<any>"), Key("name", "string"), Kwargs>>)

AgentBuilt == (AgentBase :> {"name", "route", "agent_id"}) @@ (SWMLService :> {"name", "route"})
              @@ (<<"prefabs.survey", "SurveyAgent">> :> {"questions", "name"})

Agent == [Bare EXCEPT !.library = AgentLibrary, !.reference = AgentReference, !.built = AgentBuilt]

---------------------------------------------------------------------------
RelayLibrary ==
  <<Package("Relay::Event", <<>>, <<Needed("event_type"), Attr("params")>>,
      <<Sub("from_payload", <<One("class"), One("payload")>>)>>),
    Package("Relay::Event::CallReceive", <<"Relay::Event">>, <<Attr("call_id")>>, <<>>),
    Package("Relay::Event", <<>>, <<Attr("params")>>, <<Sub("parse_event", <<One("payload")>>)>>),
    Package("Relay::Call", <<>>, <<Attr("call_id")>>,
      <<Sub("pass", <<Self>>), Sub("play", <<Self, One("media"), Opts>>)>>),
    Package("Relay::Action", <<>>, <<Attr("call")>>, <<Sub("stop", <<Self>>)>>),
    Package("Relay::Action::Collect", <<"Relay::Action">>, <<>>,
      <<Sub("start_input_timers", <<Self>>)>>),
    Package("Relay::Action::StandaloneCollect", <<"Relay::Action::Collect">>, <<>>,
      <<Sub("volume", <<Self, <<"values", "@">>>>)>>),
    Package("Relay::Client::RelayError", <<>>, <<>>,
      <<Sub("new", <<One("class"), <<"args", "%">>>>), Sub("code", <<>>), Sub("message", <<Self>>)>>)>>
RelayReference ==
  (<<<<"relay.event", "RelayEvent">>, "__init__">> :>
     <<RefSelf, Pos("event_type", "string"), Pos("params", "dict")>>)
  @@ (<<<<"relay.event", "CallReceiveEvent">>, "__init__">> :>
        <<RefSelf, Pos("event_type", "string"), Pos("params", "dict"), Pos("call_id", "string")>>)
  @@ (<<<<"relay.event", "">>, "parse_event">> :> <<Pos("payload", "dict")>>)
  @@ (<<<<"relay.call", "Call">>, "play">> :> <<RefSelf, Pos("media", "list<any>"), Key("volume", "float"),
                                                Key("loop", "int")>>)
  @@ (<<<<"relay.client", "RelayError">>, "__init__">> :> <<RefSelf, Pos("code", "int"),
                                                            Pos("message", "string")>>)
Relay ==
  [Bare EXCEPT !.library = RelayLibrary, !.reference = RelayReference,
     !.built = (<<"relay.event", "RelayEvent">> :> {"event_type", "params"})
               @@ (<<"relay.event", "CallReceiveEvent">> :> {"event_type", "params", "call_id"})]

---------------------------------------------------------------------------
SkillLibrary ==
  <<Package("Skills::Builtin::McpGateway", <<"Skills::SkillBase">>, <<>>,
      <<Sub("setup", <<Self>>), Sub("register_tools", <<Self>>), Sub("gateway_url", <<>>)>>),
    Package("Skills::Builtin::Spider", <<"Skills::SkillBase">>,
      <<Over("skill_name", "undef")>>, <<Sub("setup", <<Self>>), Sub("crawl", <<Self, Opts>>)>>),
    Package("Skills::SkillBase", <<>>, <<>>,
      <<Sub("setup", <<Self>>), Sub("register_tools", <<Self>>),
        Sub("get_prompt_sections", <<Self>>)>>),
    Package("Skills::SkillManager", <<>>, <<Needed("agent")>>,
      <<Sub("has_skill", <<Self, One("key")>>)>>)>>
SkillReference ==
  (<<SkillBase, "__init__">> :> <<RefSelf, Pos("agent", "AgentBase"), Key("params", "dict")>>)
  @@ (<<<<"skills.spider", "SpiderSkill">>, "__init__">> :>
        <<RefSelf, Pos("agent", "AgentBase"), Key("params", "dict")>>)
  @@ (<<<<"skills.spider", "SpiderSkill">>, "setup">> :> <<RefSelf>>)
  @@ (<<SkillManager, "__init__">> :> <<RefSelf, Pos("agent", "AgentBase")>>)
  @@ (<<SkillManager, "has_skill">> :> <<RefSelf, Pos("skill_identifier", "string")>>)
Skills ==
  [Bare EXCEPT !.library = SkillLibrary, !.reference = SkillReference,
     !.bareword = <<[pkg |-> Hand("Skills::SkillBase"),
                     attrs |-> <<Arg("skill_name", "undef"), Needed("agent"), Attr("params")>>],
                    [pkg |-> Hand("Skills::SkillManager"),
                     attrs |-> <<Arg("loaded_skills", "undef")>>],
                    [pkg |-> Hand("Skills::Extra"), attrs |-> <<Attr("x")>>]>>,
     !.built = (SkillBase :> {"agent", "params"}) @@ (SkillManager :> {"agent"})
               @@ (<<"skills.spider", "SpiderSkill">> :> {"agent", "params"})]

---------------------------------------------------------------------------
RestEntry(name, attrs, methods) ==
  [pkg |-> <<"REST", name>>, parents |-> <<>>, attrs |-> attrs, methods |-> methods]
RestLibrary ==
  <<Package("DataMap", <<>>, <<>>,
      <<Sub("create_simple_api_tool", <<One("class_or_self"), One("name"), Opts>>),
        Sub("purpose", <<Self, One("desc")>>)>>),
    Package("Logging", <<>>, <<>>, <<Sub("info", <<Self, <<"parts", "@">>>>)>>),
    Package("REST::HttpClient", <<>>, <<Needed("_http")>>,
      <<Sub("delete_request", <<Self, One("path"), Opts>>), Sub("__iter__", <<Self>>)>>),
    RestEntry("Calling", <<>>,
      <<Sub("play", <<Self, One("call_id"), <<"extra", "%">>>>), Sub("end", <<Self, One("call_id")>>),
        Sub("_helper", <<Self>>)>>),
    RestEntry("FabricNamespace", <<Arg("resources", "undef"), Attr("_http")>>, <<>>),
    RestEntry("FabricResource", <<>>,
      <<Sub("list_addresses", <<Self, One("id"), <<"params", "%">>>>)>>),
    RestEntry("FaxLogs", <<>>, <<Sub("list", <<<<"params", "%">>>>)>>),
    RestEntry("ReadResource", <<>>, <<Sub("paginate", <<Self>>), Sub("get", <<Self, One("id")>>)>>),
    RestEntry("ResourceTree", <<>>, <<Sub("resource", <<Self>>)>>),
    Package("REST::SignalWireRestError", <<>>, <<Needed("status_code"), Attr("body")>>, <<>>),
    Package("REST::SignalWireRestTransportError", <<"REST::SignalWireRestError">>,
      <<Over("status_code", "")>>, <<>>),
    Package("Security::WebhookMiddleware", <<>>, <<>>,
      <<Sub("validate", <<One("method"), One("url"), Opts>>)>>)>>
RestReference ==
  (<<<<"rest._base", "SignalWireRestError">>, "__init__">> :>
     <<RefSelf, Pos("status_code", "int"), Key("body", "any")>>)
  @@ (<<<<"rest._base", "SignalWireRestTransportError">>, "__init__">> :>
        <<RefSelf, Key("status_code", "int"), Key("body", "any")>>)
  @@ (<<<<"rest.http", "HttpClient">>, "delete">> :> <<RefSelf, Pos("path", "string"),
                                                       Key("request_options", "any")>>)
  @@ (<<DataMap, "purpose">> :> <<RefSelf, Pos("description", "string")>>)
  @@ (<<Validate, "validate">> :> <<Pos("method", "string"), Pos("url", "string"),
                                    Key("signing_key", "string")>>)
  @@ (<<<<"calling", "Calling">>, "play">> :> <<RefSelf, Pos("call_id", "string"), Pos("url", "string")>>)
Rest ==
  [Bare EXCEPT !.library = RestLibrary, !.reference = RestReference,
     !.sidecar = <<"Calling", "play">> :> <<Pos("call_id", "any"), Key("url", "optional<any>")>>,
     !.built = (<<"rest._base", "SignalWireRestError">> :> {"status_code", "body"})
               @@ (<<"rest._base", "SignalWireRestTransportError">> :> {"status_code", "body"})]

---------------------------------------------------------------------------
Typed(t) == [Plain EXCEPT !.types = <<t>>]
Ref(x) == [Plain EXCEPT !.ref = x]
Object(props) == [Plain EXCEPT !.types = <<"object">>, !.props = props]
OneOf(list) == [Plain EXCEPT !.oneOf = list]
Swml ==
  <<<<"SWMLVar", Typed("string")>>,
    <<"AIParams", Object(<<<<"barge", [Plain EXCEPT !.anyOf = <<Typed("boolean"), Ref("SWMLVar")>>]>>,
                           <<"langs", [Plain EXCEPT !.types = <<"array">>, !.items = <<Ref("SWMLVar")>>]>>,
                           <<"global_data", Typed("object")>>,
                           <<"swaig_post_params", Ref("SWMLVar")>>, <<"with", Typed("string")>>>>)>>,
    <<"Hold.Params", Object(<<<<"9lives", Ref("SWMLVar")>>, <<"internal_id", Ref("SWMLVar")>>>>)>>,
    <<"Transfer", Object(<<<<"transfer", OneOf(<<Object(<<<<"dest", Typed("string")>>>>),
                              Object(<<<<"params", Ref("AIParams")>>, <<"dest", Ref("SWMLVar")>>>>),
                              Ref("Hold.Params")>>)>>>>)>>,
    <<"Say", Object(<<<<"say", Object(<<<<"text", Typed("string")>>>>)>>>>)>>,
    <<"Stop", Object(<<<<"stop", Typed("string")>>>>)>>,
    <<"UserEvent", Object(<<<<"user_event", Object(<<<<"event", Ref("SWMLVar")>>>>)>>>>)>>,
    <<"SWMLMethod", [Plain EXCEPT !.anyOf = <<Ref("Transfer"), Ref("Say"), Ref("Stop"),
                                              Ref("UserEvent"), Ref("Missing")>>]>>>>
Payload ==
  [Bare EXCEPT
     !.swml = Swml,
     !.postPrompt = <<<<"PostPromptData", Object(<<<<"raw", Typed("string")>>, <<"has", Plain>>>>)>>,
                      <<"Alias", OneOf(<<Ref("PostPromptData")>>)>>>>,
     !.request = Object(<<<<"argument", Object(<<<<"parsed", Plain>>>>)>>, <<"call_id", Plain>>>>),
     !.actions = <<<<"hold", OneOf(<<Typed("integer"), Object(<<<<"timeout", Plain>>>>),
                                     Object(<<<<"until", Plain>>>>)>>)>>,
                   <<"stop", Typed("boolean")>>,
                   <<"transfer", Object(<<<<"dest", Plain>>>>)>>>>,
     !.relay = <<[stem |-> "calling.play", phase |-> "params", method |-> "",
                  schema |-> Object(<<<<"call_id", Plain>>, <<"9lives", Plain>>>>)],
                 [stem |-> "calling.play", phase |-> "result", method |-> "",
                  schema |-> Object(<<<<"code", Plain>>>>)],
                 [stem |-> "connect", phase |-> "params", method |-> "signalwire.connect",
                  schema |-> Object(<<<<"version", Plain>>>>)],
                 [stem |-> "hold", phase |-> "result", method |-> "", schema |-> Typed("object")]>>,
     !.types = <<<<"Status", Typed("string")>>,
                 <<"Fax", Object(<<<<"id", Typed("string")>>, <<"internal_id", Typed("string")>>>>)>>,
                 <<"Either", OneOf(<<Ref("Fax"), Ref("Status")>>)>>>>,
     !.enums = [Status |-> [name |-> "FaxStatus", values |-> <<"in-queue", "", "in_queue", "done">>]]]

\* The same excerpts against a reference that lacks one method, or all.
WithoutMethods(d, places) == [d EXCEPT !.reference = Without(@, places)]
ReferenceMethods(d) == {p \in DOMAIN d.reference : p[2] # "__init__"}
Lacking(d) == {WithoutMethods(d, {p}) : p \in ReferenceMethods(d)}
              \cup {WithoutMethods(d, ReferenceMethods(d))}

McDocuments == {Agent, Relay, Skills, Rest, Payload, [Payload EXCEPT !.schemaFound = FALSE],
                [Agent EXCEPT !.hasConstruction = FALSE], [Agent EXCEPT !.oracle = FALSE]}
               \cup UNION {Lacking(d) : d \in {Agent, Relay, Skills, Rest}}
=============================================================================
