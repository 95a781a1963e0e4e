--------------------------- MODULE MCPluginAgent ---------------------------
(* Instances of PluginAgent for TLC.                                       *)
EXTENDS PluginAgent

CONSTANTS d1, d2, k1, c1, c2

\* d1 is a prefix of d2 ("/p/a" and "/p/a.dex"): unloading it takes both plugins.
PrefixCovers == [d \in {d1, d2} |-> IF d = d1 THEN {d1, d2} ELSE {d2}]
OneDexCovers == [d \in {d1} |-> {d1}]

\* The two threads of a launch, and any requests on a running app.
MCSetups ==
  {[mode |-> "launch", throws |-> FALSE, configs |-> {c1}, requests |-> 3],
   [mode |-> "attach", throws |-> TRUE, configs |-> {c1, c2}, requests |-> 5]}
ReadmeSetups == {[mode |-> mode, throws |-> TRUE, configs |-> {c1}, requests |-> 2] :
                   mode \in {"launch", "attach"}}
=============================================================================
