-------------------------- MODULE MCPluginDelivery --------------------------
(* Instances of PluginDelivery for TLC.                                    *)
EXTENDS PluginDelivery

Watch(restart, attach, isShell, faultsMax, pids) ==
  [change_restart |-> restart, attach |-> attach, isShell |-> isShell, same_path |-> TRUE,
   faults |-> faultsMax, restarts |-> 0, processes |-> pids]

\* The ways to watch, a program that is started again and again, and a path
\* os.path.abspath changes.
MCSetups ==
  {Watch(FALSE, FALSE, TRUE, 0, 1..3), Watch(FALSE, TRUE, FALSE, 0, 1..2),
   Watch(TRUE, FALSE, TRUE, 1, 1..2), Watch(TRUE, TRUE, FALSE, 0, 1..2),
   [change_restart |-> FALSE, attach |-> FALSE, isShell |-> TRUE, same_path |-> TRUE,
    faults |-> 1, restarts |-> 2, processes |-> {}],
   [change_restart |-> FALSE, attach |-> TRUE, isShell |-> FALSE, same_path |-> TRUE,
    faults |-> 0, restarts |-> 1, processes |-> {1}],
   [change_restart |-> FALSE, attach |-> FALSE, isShell |-> TRUE, same_path |-> FALSE,
    faults |-> 0, restarts |-> 0, processes |-> {1}]}
=============================================================================
