------------------------- MODULE MCLaunchIntercept -------------------------
(* Instances of LaunchIntercept for TLC.                                   *)
EXTENDS LaunchIntercept

CONSTANTS a, b, s, sx, t, app, sys

\* a and b are apps of one uid; s, sx and t run as the system, and sx begins with s.
UidOfAll == [p \in Packages |-> IF p \in {a, b} THEN app ELSE sys]
PrefixesOfAll == [p \in Packages |-> IF p = sx THEN {s, sx} \cap Packages ELSE {p}]

\* Two launches with all that comes between, and the table under any calls.
MCSetups ==
  {[packages |-> {a, b, t}, launches |-> 2, elsewhere |-> 1, admin |-> 0, failures |-> 1],
   [packages |-> {s, sx, t}, launches |-> 1, elsewhere |-> 1, admin |-> 2, failures |-> 0],
   [packages |-> {a, s, sx, t}, launches |-> 0, elsewhere |-> 1, admin |-> 3, failures |-> 0]}
=============================================================================
