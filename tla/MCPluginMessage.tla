-------------------------- MODULE MCPluginMessage --------------------------
(* Instances of PluginMessage for TLC.                                     *)
EXTENDS PluginMessage

CONSTANTS t1, t2
=============================================================================
