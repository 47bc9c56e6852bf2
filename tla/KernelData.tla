----------------------------- MODULE KernelData -----------------------------
(****************************************************************************)
(* The kernel's tables and its memory, from the loader on, in one run for   *)
(* TLC.  They share no state: a behaviour is one of Tables or one of        *)
(* Memory, and the rest stays as it is at the beginning.                    *)
(****************************************************************************)
EXTENDS Tables, Memory

VARIABLE side

tableVars == <<table, tpaVars, pagedVars, sdVars, flexVars>>

storeVars == <<part, vmVars, allocVars, elfVars, BootVars>>

DataInit ==
    /\ side \in {"tables", "memory"}
    /\ TablesInit
    /\ MemoryInit
    /\ side = "memory" => table = "array"
    /\ side = "tables" => part = "slab"
    /\ part # "network" => server = Min(FileSizes)

DataNext ==
    /\ UNCHANGED side
    /\ \/ side = "tables" /\ TablesNext /\ UNCHANGED storeVars
       \/ side = "memory" /\ MemoryNext /\ UNCHANGED tableVars

DataSpec == DataInit /\ [][DataNext]_<<side, tableVars, storeVars>>

=============================================================================
