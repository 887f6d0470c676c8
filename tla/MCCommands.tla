------------------------------ MODULE MCCommands ------------------------------
(***************************************************************************)
(* BotProcess for TLC: two pids, three processes, three reloads; and       *)
(* StateTools on every library of three names, one of them an alias.       *)
(***************************************************************************)
EXTENDS Commands, TLC

CONSTANT none

MCName == {"a", "b", "alias"}
MCValue == {"fine", "unloadable", "calls b", "calls exec", "asks", "fetches", "spins",
            "raises", "deletes b"}
MCBroken == {"unloadable"}
MCAliases == {"alias"}
MCExisting == {"expr"}
MCDead == {"exec"}
MCRefs == [v \in MCValue |-> CASE v = "calls b" -> {"b", "expr"}
                               [] v = "calls exec" -> {"exec"}
                               [] OTHER -> {"expr"}]
MCRequired == [v \in MCValue |-> IF v = "asks" THEN 1 ELSE 0]
MCRuns == [v \in MCValue |-> CASE v = "asks" -> "argument"
                               [] v = "fetches" -> "network"
                               [] v = "spins" -> "time limit"
                               [] v = "raises" -> "error"
                               [] OTHER -> "ok"]
MCRedefines == [v \in MCValue |-> IF v = "deletes b" THEN "b" :> none ELSE NoChanges]

MCOrders == {<<"a", "alias", "b">>, <<"b", "a", "alias">>}
MCLibraries == {d \in [MCName -> {"fine", "unloadable", none}] : d["alias"] = none}

=============================================================================
