-------------------------------- MODULE Tables -------------------------------
(****************************************************************************)
(* The kernel's tables for TLC.  The components do not share state, so each *)
(* behaviour is about one of them: the one `table' names.                   *)
(****************************************************************************)
EXTENDS Tpa, PagedQueue, ServiceDiscovery, FlexArray

VARIABLE table

KeysOfThree == [u \in 1 .. 4 |-> IF u <= 3 THEN 1 ELSE 2]

TablesInit ==
    /\ table \in {"tpa", "queue", "services", "array"}
    /\ TpaInit
    /\ PagedQueueInit
    /\ ServiceDiscoveryInit
    /\ FlexInit

TablesNext ==
    /\ UNCHANGED table
    /\ \/ /\ table = "tpa"
          /\ TpaStep
          /\ UNCHANGED <<pagedVars, sdVars, flexVars>>
       \/ /\ table = "queue"
          /\ PagedQueueStep
          /\ UNCHANGED <<tpaVars, sdVars, flexVars>>
       \/ /\ table = "services"
          /\ ServiceDiscoveryStep
          /\ UNCHANGED <<tpaVars, pagedVars, flexVars>>
       \/ /\ table = "array"
          /\ FlexStep
          /\ UNCHANGED <<tpaVars, pagedVars, sdVars>>

TablesSpec == TablesInit /\ [][TablesNext]_<<table, tpaVars, pagedVars, sdVars, flexVars>>

=============================================================================
