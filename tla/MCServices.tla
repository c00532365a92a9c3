------------------------------ MODULE MCServices ------------------------------
(***************************************************************************)
(* The components around the protocol, for TLC: small instances, one after *)
(* the other.  They share nothing that the properties are about; `turn` is *)
(* the component that runs, and the others stay as they start.             *)
(***************************************************************************)
EXTENDS Dashboard, ToolAccess, BoardServices, MemoryStore, GroupPlanning, Driver,
        EmergencyLog

VARIABLE turn

SumVars == <<turn, dashVars, toolVars, servicesVars, memoryVars, planVars, driverVars, logVars>>

MCRequests == {[key |-> "i", args |-> "x", device |-> "d"],
               [key |-> "i", args |-> "y", device |-> "d"],
               [key |-> "j", args |-> "x", device |-> "d"]}

MCWants == [c \in {"h", "r", "s"} |-> IF c = "s" THEN {"A", "B"} ELSE {"A"}]
MCSlots == [t |-> {1, 2}, u |-> {1}]
MCFleet == <<"a", "b">>

(* The initial states of a component matter in its turn only: the others     *)
(* start from one of theirs.                                                 *)
OneStart ==
    /\ turn # "dashboard" => persistent
    /\ turn # "memory" => asset = [accepted |-> TRUE, claim |-> "f", source |-> "receipt"]
    /\ turn # "planning" => able = [r \in Robots |-> {}] /\ proper = AllSlots

SumInit ==
    /\ turn \in {"dashboard", "tools", "board", "memory", "planning", "driver", "log"}
    /\ DashInit /\ ToolInit /\ ServicesInit /\ MemoryInit /\ PlanInit /\ DriverInit /\ LogInit
    /\ OneStart

(* A bound: an agent writes to its memory before the review gets busy.       *)
MemoryBound ==
    (\E p \in private : p.id[3] # "episode") => Len(candidates) <= 1 /\ ~late

SumNext ==
    \/ /\ turn = "dashboard" /\ DashNext
       /\ UNCHANGED <<turn, toolVars, servicesVars, memoryVars, planVars, driverVars, logVars>>
    \/ /\ turn = "tools" /\ ToolNext
       /\ UNCHANGED <<turn, dashVars, servicesVars, memoryVars, planVars, driverVars, logVars>>
    \/ /\ turn = "board" /\ ServicesNext
       /\ UNCHANGED <<turn, dashVars, toolVars, memoryVars, planVars, driverVars, logVars>>
    \/ /\ turn = "memory" /\ MemoryNext /\ MemoryBound'
       /\ UNCHANGED <<turn, dashVars, toolVars, servicesVars, planVars, driverVars, logVars>>
    \/ /\ turn = "planning" /\ PlanNext
       /\ UNCHANGED <<turn, dashVars, toolVars, servicesVars, memoryVars, driverVars, logVars>>
    \/ /\ turn = "driver" /\ DriverNext
       /\ UNCHANGED <<turn, dashVars, toolVars, servicesVars, memoryVars, planVars, logVars>>
    \/ /\ turn = "log" /\ LogNext
       /\ UNCHANGED <<turn, dashVars, toolVars, servicesVars, memoryVars, planVars, driverVars>>

SumSpec == SumInit /\ [][SumNext]_SumVars
=============================================================================
