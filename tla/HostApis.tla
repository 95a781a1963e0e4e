------------------------------ MODULE HostApis ------------------------------
(***************************************************************************)
(* The calls and broadcasts that the host's clients declare                *)
(* (albatross_client.py, system_server_client.py, app_client.py and        *)
(* rpc_client.py), as RpcMeta reads them: the annotations of the           *)
(* arguments, the defaults of the last ones, and how the result is read.   *)
(* A value is the sequence of its cells, see RpcCodec.                     *)
(***************************************************************************)
EXTENDS Integers, Sequences

No == <<>>       \* None
Zero == <<0>>    \* 0, False
Text == <<7>>    \* a default that is a text

\* Subclasses of Enum and the numbers their members have ({}: flags, any number).
Enumerations ==
  [InjectFlag |-> {}, AlbatrossInitFlags |-> {}, ExecutionOption |-> {},
   InjectResult |-> -6..1, RunTimeISA |-> 1..4,
   DexLoadResult |-> 0..7 \cup {9, 10, 20, 21}, SetResult |-> 0..6]
InsHookResult == -3..1

\* get_enum_real_type: the class of the results is ByteEnum, of the flags IntEnum or IntFlag.
RealType(type) ==
  CASE type \in {"InjectFlag", "AlbatrossInitFlags", "ExecutionOption", "InsHookResult"} -> "int"
    [] type \in {"InjectResult", "RunTimeISA", "DexLoadResult", "SetResult"} -> "byte"
    [] OTHER -> type

Members(type) ==
  IF type = "InsHookResult" THEN InsHookResult
  ELSE IF type \in DOMAIN Enumerations THEN Enumerations[type] ELSE {}

\* What create_call_function, the parser and create_receive_function are made from.
Api(args, defaults, returns) ==
  [types |-> [i \in DOMAIN args |-> RealType(args[i])], defaults |-> defaults,
   returns |-> RealType(returns), members |-> Members(returns)]
Handler(args, returns) == Api(args, <<>>, returns)

-----------------------------------------------------------------------------
(* RpcClient.                                                              *)

SubscribeApi == [subscribe |-> Api(<<"str", "int">>, <<No, Zero>>, "subscribe")]
RpcClientApis ==
  [get_tid |-> Api(<<>>, <<>>, "int"),
   get_pid |-> Api(<<>>, <<>>, "int"),
   ping |-> Api(<<>>, <<>>, "str"),
   stop |-> Api(<<>>, <<>>, "void")]
RpcClientBroadcasts == [broadcast_test |-> Handler(<<"str">>, "int")]

-----------------------------------------------------------------------------
(* AlbatrossClient.  parse_get_process_pid ("pid") and                     *)
(* parse_uid_processes ("processes") are its own, and so is the result of  *)
(* a shell.  load_system_plugin is declared twice: the later one counts.   *)

ProcessApis ==
  [get_process_isa |-> Api(<<"int">>, <<>>, "RunTimeISA"),
   get_service_isa |-> Api(<<>>, <<>>, "RunTimeISA"),
   get_process_pid |-> Api(<<"str">>, <<>>, "pid"),
   inject_albatross |-> Api(<<"int", "InjectFlag", "str">>, <<<<48>>, No>>, "InjectResult"),
   set_2nd_arch_lib |-> Api(<<"str">>, <<>>, "SetResult"),
   set_arch_lib |-> Api(<<"str">>, <<>>, "SetResult"),
   inject |-> Api(<<"int", "int", "bytes", "str", "str", "str">>, <<>>, "InjectResult")]

PluginApis ==
  [set_app_info |-> Api(<<"int", "str">>, <<>>, "void"),
   get_app_info |-> Api(<<"int">>, <<>>, "str"),
   load_plugin |-> Api(<<"int", "str", "str", "str", "str", "str", "AlbatrossInitFlags", "str",
                         "str", "str", "str", "str", "int">>, <<>>, "DexLoadResult"),
   load_plugin_by_id |-> Api(<<"int", "int">>, <<>>, "DexLoadResult"),
   get_address |-> Api(<<"int">>, <<>>, "str"),
   get_plugin_id |-> Api(<<"str", "str">>, <<>>, "int"),
   register_plugin |-> Api(<<"int", "str", "str", "str", "str", "int">>, <<>>, "SetResult"),
   delete_plugin |-> Api(<<"int", "bool">>, <<Zero>>, "byte"),
   clear_plugins |-> Api(<<"bool">>, <<Zero>>, "int")]

RuleApis ==
  [modify_plugin |-> Api(<<"int", "str", "str", "int">>, <<>>, "byte"),
   delete_plugin_rule |-> Api(<<"int", "int">>, <<>>, "bool"),
   add_plugin_rule |-> Api(<<"int", "int", "str">>, <<No>>, "SetResult"),
   load_dex |-> Api(<<"int", "str", "str", "str", "str", "str", "AlbatrossInitFlags", "str", "int">>,
                    <<>>, "DexLoadResult"),
   detach |-> Api(<<"int", "InjectFlag">>, <<>>, "bool"),
   launch |-> Api(<<"str", "str", "int">>, <<No, Zero>>, "str"),
   launch_intercept |-> Api(<<"str", "str", "int">>, <<No, Zero>>, "str")]

AgentApis ==
  [set_system_server_agent |-> Api(<<"str", "str", "str", "AlbatrossInitFlags", "str", "int">>,
                                   <<Text, Zero, No, Zero>>, "SetResult"),
   load_system_plugin |-> Api(<<"str", "str", "str", "str", "int">>, <<>>, "DexLoadResult"),
   set_app_agent |-> Api(<<"str", "str", "str", "str", "str", "AlbatrossInitFlags">>,
                         <<Text, Zero>>, "SetResult")]

StateApis ==
  [patch_selinux |-> Api(<<>>, <<>>, "bool"),
   is_injected |-> Api(<<"int">>, <<>>, "bool"),
   uid_processes |-> Api(<<"int", "bool">>, <<>>, "processes"),
   unload_plugin_dex |-> Api(<<"int", "int">>, <<>>, "DexLoadResult"),
   is_lsposed_injected |-> Api(<<>>, <<>>, "bool"),
   disable_plugin |-> Api(<<"int", "int">>, <<>>, "DexLoadResult"),
   shell |-> Api(<<"str">>, <<>>, "str"),
   process_uid |-> Api(<<"int">>, <<>>, "int"),
   watch_app |-> Api(<<"int">>, <<>>, "bool")]

ServerBroadcasts ==
  [process_disconnect |-> Handler(<<"int">>, "void"),
   system_server_die |-> Handler(<<>>, "void"),
   launch_process |-> Handler(<<"int", "int", "str", "str", "dict">>, "void")]

-----------------------------------------------------------------------------
(* SystemServerClient and AppClient.                                       *)

SystemServerApis ==
  [init |-> Api(<<>>, <<>>, "bool"),
   init_intercept |-> Api(<<>>, <<>>, "int"),
   get_top_activity |-> Api(<<"bool">>, <<Zero>>, "str"),
   get_front_activity |-> Api(<<>>, <<>>, "list"),
   get_front_activity_quick |-> Api(<<>>, <<>>, "list"),
   get_all_processes |-> Api(<<>>, <<>>, "dict"),
   start_activity |-> Api(<<"str", "str", "int">>, <<>>, "str"),
   set_top_app |-> Api(<<"str">>, <<>>, "str"),
   set_intercept_app |-> Api(<<"str", "bool">>, <<<<1>>>>, "int"),
   force_stop_app |-> Api(<<"str">>, <<>>, "bool")]
SystemServerSettings ==
  [add_watch_app |-> Api(<<"str", "bool">>, <<Zero>>, "int"),
   set_app_android_id |-> Api(<<"int", "str">>, <<>>, "void"),
   get_version |-> Api(<<>>, <<>>, "int"),
   allow_app_permission |-> Api(<<"str", "str", "int">>, <<>>, "str"),
   mock_battery_info |-> Api(<<"bool">>, <<>>, "void")]
SystemServerBroadcasts ==
  [launch_process |-> Handler(<<"int", "int", "str", "str", "dict">>, "byte"),
   collect_data |-> Handler(<<"str">>, "void")]

AppApis ==
  [getuid |-> Api(<<>>, <<>>, "int"),
   get_package_name |-> Api(<<>>, <<>>, "str"),
   find_method |-> Api(<<"str", "str", "int", "str">>, <<No>>, "str"),
   hook_method |-> Api(<<"str", "str", "int", "str", "int", "int", "bool">>,
                       <<No, Zero, <<128>>, Zero>>, "InsHookResult"),
   unhook_method |-> Api(<<"str", "str", "int", "str">>, <<No>>, "bool"),
   print_all_class_loader |-> Api(<<>>, <<>>, "str"),
   redirect_app_log |-> Api(<<"str">>, <<Text>>, "bool"),
   finish_redirect_app_log |-> Api(<<>>, <<>>, "bool"),
   set_logger |-> Api(<<"str", "str">>, <<>>, "void"),
   find_class |-> Api(<<"str", "bool", "ExecutionOption">>, <<<<1>>, Zero>>, "str"),
   class_loaders |-> Api(<<"bool">>, <<>>, "str")]
AppBroadcasts == [send |-> Handler(<<"str", "str">>, "void")]
=============================================================================
