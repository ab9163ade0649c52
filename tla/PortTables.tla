----------------------------- MODULE PortTables -----------------------------
(***************************************************************************)
(* The tables of enumerate_signatures.py that say how a name of the Perl   *)
(* library is written in the reference.  A home is <<module, class>>, with *)
(* class "" for the functions of a module; the prefix that all modules of  *)
(* a table share (signalwire.core., signalwire.core.mixins.) is left out.  *)
(***************************************************************************)
EXTENDS TLC

AgentBase   == <<"agent_base", "AgentBase">>
SWMLService == <<"swml_service", "SWMLService">>
SkillBase   == <<"skill_base", "SkillBase">>
AIConfigMixin == <<"ai_config_mixin", "AIConfigMixin">>
WebMixin      == <<"web_mixin", "WebMixin">>
PromptMixin   == <<"prompt_mixin", "PromptMixin">>
PromptManager == <<"prompt_manager", "PromptManager">>
ToolRegistry  == <<"tools_registry", "ToolRegistry">>
MCPServerMixin == <<"mcp_server_mixin", "MCPServerMixin">>
Validate == <<"webhook_middleware", "">>

SkipMethods == {"BUILDARGS", "BUILD", "DEMOLISH", "DOES", "import", "AUTOLOAD",
                "DESTROY", "can", "isa", "VERSION", "new"}

ParentOverrideFilter ==
  (SkillBase :> {"setup", "cleanup", "get_hints", "get_global_data",
                 "get_parameter_schema", "get_prompt_sections", "get_skill_data",
                 "get_instance_key", "register_tools", "define_tool",
                 "update_skill_data", "validate_env_vars", "validate_packages"})
  @@ (SWMLService :> {"handle_request"})

FreeFnPackages ==
  {"SignalWire", "Core::Agent::Tools::TypeInference", "Core::LoggingConfig", "Contexts",
   "Utils", "Utils::UrlValidator", "Security::WebhookValidator",
   "Security::WebhookMiddleware", "Security::SecurityUtils",
   "REST::RequestOptions::Resolver"}

MethodAliases == "to_hash" :> {"to_dict"}
MethodRenames == (<<"Relay::Call", "pass">> :> "pass_")
              @@ (<<"SWAIG::SWAIGFunction", "call">> :> "__call__")
              @@ (<<"REST::HttpClient", "delete_request">> :> "delete")
AttrAliases == ("_logger" :> {"logger"}) @@ ("_log" :> {"logger"})

PromptShared == {"define_contexts", "get_post_prompt", "get_prompt", "prompt_add_section",
                 "prompt_add_subsection", "prompt_add_to_section", "prompt_has_section",
                 "set_post_prompt", "set_prompt_pom", "set_prompt_text"}
MixinProjections ==
  (AIConfigMixin :>
     {"add_function_include", "add_hint", "add_hints", "add_internal_filler", "add_language",
      "add_pattern_hint", "add_pronunciation", "add_mcp_server", "enable_mcp_server",
      "enable_debug_events", "get_language_params", "set_function_includes",
      "set_global_data", "set_internal_fillers", "set_language_params", "set_languages",
      "set_multilingual", "set_native_functions", "set_param", "set_params",
      "set_post_prompt_llm_params", "set_prompt_llm_params", "set_pronunciations",
      "update_global_data"})
  @@ (PromptMixin :> PromptShared \cup {"contexts", "reset_contexts"})
  @@ (<<"serverless_mixin", "ServerlessMixin">> :> {"handle_serverless_request"})
  @@ (PromptManager :> PromptShared \cup {"get_contexts", "get_raw_prompt"})
  @@ (<<"skill_mixin", "SkillMixin">> :> {"add_skill", "has_skill", "list_skills", "remove_skill"})
  @@ (<<"tool_mixin", "ToolMixin">> :> {"define_tool", "define_tools", "on_function_call",
                                        "register_swaig_function"})
  @@ (ToolRegistry :> {"define_tool", "register_swaig_function", "has_function",
                       "get_function", "get_all_functions", "remove_function"})
  @@ (<<"auth_mixin", "AuthMixin">> :> {"validate_basic_auth", "get_basic_auth_credentials"})
  @@ (WebMixin :> {"as_router", "enable_debug_routes", "get_app", "manual_set_proxy_url",
                   "register_routing_callback", "run", "serve", "set_dynamic_config_callback",
                   "setup_graceful_shutdown", "on_request", "on_swml_request"})
  @@ (MCPServerMixin :> {"add_mcp_server"})
  @@ (<<"state_mixin", "StateMixin">> :> {"validate_tool_token"})
MixinOrder == <<AIConfigMixin, PromptMixin, <<"serverless_mixin", "ServerlessMixin">>,
                PromptManager, <<"skill_mixin", "SkillMixin">>, <<"tool_mixin", "ToolMixin">>,
                ToolRegistry, <<"auth_mixin", "AuthMixin">>, WebMixin, MCPServerMixin,
                <<"state_mixin", "StateMixin">>>>

\* One scalar, or %opts, stands for the keyword arguments of the reference.
HashrefKwargMethods ==
  ({AgentBase, AIConfigMixin}
     \X {"add_pattern_hint", "add_pronunciation", "add_language", "add_internal_filler",
         "add_function_include"})
  \cup ({<<"rest.phone_numbers", "PhoneNumbersResource">>}
     \X {"set_ai_agent", "set_call_flow", "set_cxml_application", "set_cxml_webhook",
         "set_relay_application", "set_relay_topic", "set_swml_webhook"})
  \cup {<<Validate, "validate">>}
  \cup ({<<"ai_chat.client", "AIChatClient">>} \X {"chat", "create_conversation", "summarize"})

Context == <<"contexts", "Context">>
Step == <<"contexts", "Step">>
DataMap == <<"data_map", "DataMap">>
FunctionResult == <<"function_result", "FunctionResult">>
SkillManager == <<"skill_manager", "SkillManager">>
RelayClient == <<"relay.client", "RelayClient">>
HandParamRenames ==
  (<<AgentBase, "on_debug_event">> :> ("cb" :> "handler"))
  @@ [p \in {Context} \X {"add_enter_filler", "add_exit_filler"} |-> "lang" :> "language_code"]
  @@ (<<Context, "set_consolidate">> :> ("c" :> "consolidate"))
  @@ (<<Context, "set_enter_fillers">> :> ("fillers" :> "enter_fillers"))
  @@ (<<Context, "set_exit_fillers">> :> ("fillers" :> "exit_fillers"))
  @@ (<<Context, "set_full_reset">> :> ("fr" :> "full_reset"))
  @@ (<<Context, "set_isolated">> :> ("iso" :> "isolated"))
  @@ (<<Context, "set_post_prompt">> :> ("pp" :> "post_prompt"))
  @@ (<<Context, "set_system_prompt">> :> ("sp" :> "system_prompt"))
  @@ (<<Context, "set_user_prompt">> :> ("up" :> "user_prompt"))
  @@ (<<Step, "set_reset_consolidate">> :> ("c" :> "consolidate"))
  @@ (<<Step, "set_reset_full_reset">> :> ("fr" :> "full_reset"))
  @@ (<<Step, "set_reset_system_prompt">> :> ("sp" :> "system_prompt"))
  @@ (<<Step, "set_reset_user_prompt">> :> ("up" :> "user_prompt"))
  @@ [p \in {DataMap} \X {"description", "purpose"} |-> "desc" :> "description"]
  @@ (<<DataMap, "parameter">> :> ("type" :> "param_type"))
  @@ [p \in {FunctionResult} \X {"set_end_of_speech_timeout", "set_speech_event_timeout"} |->
        "ms" :> "milliseconds"]
  @@ (<<FunctionResult, "toggle_functions">> :> ("toggles" :> "function_toggles"))
  @@ (<<AIConfigMixin, "set_internal_fillers">> :> ("fillers" :> "internal_fillers"))
  @@ (<<AIConfigMixin, "set_languages">> :> ("langs" :> "languages"))
  @@ (<<AIConfigMixin, "set_native_functions">> :> ("funcs" :> "function_names"))
  @@ (<<AIConfigMixin, "set_pronunciations">> :> ("prons" :> "pronunciations"))
  @@ (<<WebMixin, "manual_set_proxy_url">> :> ("url" :> "proxy_url"))
  @@ (<<WebMixin, "set_dynamic_config_callback">> :> ("cb" :> "callback"))
  @@ [p \in {SkillManager} \X {"has_skill", "unload_skill"} |-> "key" :> "skill_identifier"]
  @@ [p \in {RelayClient} \X {"on_call", "on_message"} |-> "cb" :> "handler"]
  @@ (<<<<"relay.message", "Message">>, "on">> :> ("cb" :> "handler"))

ReturnTypeOverrides ==
  [p \in {<<WebMixin, "as_router">>, <<SWMLService, "as_router">>} |-> "HostAppRouter"]
  @@ (<<Validate, "validate">> :> "optional<tuple>")

SwaigSubModule == [PostPrompt |-> "post_prompt_generated",
                   SwaigRequest |-> "swaig_request_generated",
                   SwaigActions |-> "swaig_actions_generated"]
ConstructionNonParams == {"new", "BUILD", "BUILDARGS", "meta"}
=============================================================================
