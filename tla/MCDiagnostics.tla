---------------------------- MODULE MCDiagnostics -----------------------------
(* Instances of Diagnostics for TLC.                                       *)
EXTENDS Diagnostics, TLC

CONSTANTS plugin, psession, csession, activity, s1, s2

Nodes == {plugin, psession, csession, activity}

\* The tree of a plugin whose session runs a command, and of a client.
Parents == (plugin :> Root) @@ (psession :> plugin) @@ (csession :> Root)
               @@ (activity :> psession)

Lifecycles ==
    [res : Nodes \ {csession}, kind : {"start", "stop"}]
        \cup {Event(psession, "again"), Event(csession, "start"), Event(csession, "stop")}

FromClient == [c \in Calls |-> csession]

Symmetry == Permutations(Subs)
===============================================================================
