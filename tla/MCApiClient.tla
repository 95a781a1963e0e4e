---------------------------- MODULE MCApiClient ----------------------------
(* Instances of ApiClient for TLC.                                         *)
EXTENDS ApiClient, FiniteSetsExt, TLC

\* Marker is 3: texts with as many bytes, with more, and with NULs before and after.
MCSamples ==
  LET number == <<<<5>>, <<0>>, <<-1>>>>
      text == <<<<1, 2>>, <<>>, <<1, 2, 5, 6, 8>>, <<5, 0, 7>>, <<1, 2, 6, 4, 0, 7>>>> IN
  [int |-> number, bool |-> <<<<1>>, <<0>>>>, str |-> text, dict |-> text,
   bytes |-> <<<<>>, <<1, 0, 2>>>>]

\* Any order will do for the numbers.
Numbered(apis) == FoldSet(LAMBDA x, seq : Append(seq, x), <<>>, DOMAIN apis)

OneCall(apis, broadcasts) ==
  [apis |-> apis, broadcasts |-> broadcasts, table |-> Numbered(apis),
   calls |-> 1, upgrades |-> 0, heard |-> 0, shifts |-> 5]
OneBroadcast(broadcasts) ==
  [apis |-> RpcClientApis, broadcasts |-> broadcasts, table |-> Numbered(RpcClientApis),
   calls |-> 0, upgrades |-> 0, heard |-> 1, shifts |-> 5]
Session(apis) ==
  [apis |-> apis, broadcasts |-> RpcClientBroadcasts, table |-> Numbered(apis),
   calls |-> 3, upgrades |-> 2, heard |-> 0, shifts |-> 1]

FewApis == [x \in {"init", "set_intercept_app", "mock_battery_info"} |->
              (SystemServerApis @@ SystemServerSettings)[x]]

\* One call of each API with many arguments, one of each broadcast, and
\* sessions of several calls in which the server changes.
MCSetups ==
  [client |-> OneCall(RpcClientApis @@ SubscribeApi, RpcClientBroadcasts),
   albatross |-> OneCall(ProcessApis @@ PluginApis @@ RuleApis @@ AgentApis @@ StateApis,
                         ServerBroadcasts),
   system |-> OneCall(SystemServerApis @@ SystemServerSettings, SystemServerBroadcasts),
   app |-> OneCall(AppApis, AppBroadcasts),
   hearing |-> OneBroadcast(RpcClientBroadcasts),
   hearingServer |-> OneBroadcast(ServerBroadcasts),
   hearingSystem |-> OneBroadcast(SystemServerBroadcasts),
   hearingApp |-> OneBroadcast(AppBroadcasts),
   session |-> Session(FewApis)]
=============================================================================
