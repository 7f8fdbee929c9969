----------------------------- MODULE PluginService -----------------------------
(***************************************************************************)
(* What the supervisor promises about a supervised plugin, without its     *)
(* processes, goroutines and failures: a plugin that goes down may come up *)
(* again, never in two instances, and once it is over, by a clean exit or  *)
(* by the end of its supervision, it is over for good.                     *)
(***************************************************************************)
CONSTANT Slots

VARIABLE instance   \* instance[s]: "none", "up", "down" or "over"

Init == instance = [s \in Slots |-> "none"]

Become(s, from, to) ==
    /\ instance[s] \in from
    /\ instance' = [instance EXCEPT ![s] = to]

Launch(s)  == Become(s, {"none"}, "up")
Fail(s)    == Become(s, {"up"}, "down")
Restart(s) == Become(s, {"down"}, "up")
Finish(s)  == Become(s, {"up", "down"}, "over")

Next == \E s \in Slots : Launch(s) \/ Fail(s) \/ Restart(s) \/ Finish(s)

Spec == Init /\ [][Next]_instance
================================================================================
