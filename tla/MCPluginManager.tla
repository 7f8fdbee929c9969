--------------------------- MODULE MCPluginManager ---------------------------
(* Instances of PluginManager for TLC: the plugin "htop" requires the      *)
(* plugin "resources", as in the repository.                               *)
EXTENDS PluginManager

TwoPlugins == {"resources", "htop"}
TwoDeps == [n \in TwoPlugins |-> IF n = "htop" THEN {"resources"} ELSE {}]

OneCaller == {"rpc1"}
MainThread == "main"
Slots2 == 1 .. 2
Slots3 == 1 .. 3

NoFaults == {}
CtxFaults == Slots3 \X {"ctx"}

AllOps == {"load", "unload", "reload"}
NoOps == {}
==============================================================================
