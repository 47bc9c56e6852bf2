---------------------------------- MODULE Acpi -------------------------------
(****************************************************************************)
(* Finding the clock: init_efi (drivers/efi.cpp) hands the firmware's ACPI  *)
(* tables to drivers/acpi.cpp, which sets up the HPET (drivers/hpet.cpp).   *)
(* The tables are external; a checksum is right or wrong.                   *)
(****************************************************************************)
EXTENDS Integers, Sequences, FiniteSets, FiniteSetsExt

CONSTANTS
    AcpiTables,   \* tables: [hpet, valid, memory, period]
    MaxTables,    \* bound: tables of the system, in RSDT and XSDT together
    MaxTicks,     \* bound: ticks of the counter
    CounterWrap   \* values of the main counter

ASSUME AcpiAssumption ==
    /\ AcpiTables \subseteq [hpet : BOOLEAN, valid : BOOLEAN, memory : BOOLEAN, period : Nat]
    /\ MaxTables \in Nat /\ MaxTicks \in Nat
    /\ CounterWrap \in Nat \ {0}

VARIABLES
    rsdp,       \* the root: revision, checksums, and those of RSDT and XSDT
    rsdtTables, \* what the RSDT lists
    xsdtTables, \* what the XSDT lists
    acpiNext,   \* next table to process, 0 before init_efi
    hpet,       \* the clock: mapped, enabled, multiplier, main counter
    ticks,      \* ticks since the counter was last set
    clock       \* last value sc_handle_clock_read returned

acpiVars == <<rsdp, rsdtTables, xsdtTables, acpiNext, hpet, ticks, clock>>

NoHpet == [mapped |-> FALSE, enabled |-> FALSE, multiplier |-> 1, start |-> 0]

AcpiInit ==
    /\ rsdp = [rev |-> 0, sum |-> FALSE, xsum |-> FALSE, root |-> FALSE]
    /\ rsdtTables = <<>>
    /\ xsdtTables = <<>>
    /\ acpiNext = 0
    /\ hpet = NoHpet
    /\ ticks = 0
    /\ clock = 0

\* init_acpi_rsdp of the table the firmware names: revision 2 has another
\* checksum and a root of its own.
InitRsdp(root, rsdt, xsdt) ==
    /\ acpiNext = 0
    /\ rsdp' = root
    /\ rsdtTables' = rsdt
    /\ xsdtTables' = xsdt
    /\ acpiNext' = 1
    /\ UNCHANGED <<hpet, ticks, clock>>

\* Mutant: revision 2 is not told apart.
AlwaysRsdt == rsdtTables

TablesListed == IF rsdp.rev >= 2 THEN xsdtTables ELSE rsdtTables

RootIsSound == rsdp.sum /\ (rsdp.rev >= 2 => rsdp.xsum) /\ rsdp.root

\* Femtoseconds per tick, scaled down: below 1 ns the clock is left alone.
MinPeriod == 10

\* init_hpet: this is the clock from now on, its counter is stopped, set to 0
\* and started; one that counts too fast is left as it is.
InitHpet(t) ==
    IF ~t.memory THEN hpet
    ELSE IF t.period < MinPeriod THEN [hpet EXCEPT !.mapped = TRUE, !.enabled = FALSE]
    ELSE [mapped |-> TRUE, enabled |-> TRUE, multiplier |-> t.period \div MinPeriod, start |-> 0]

\* acpi_process_table
ProcessTable ==
    LET t == TablesListed[acpiNext] IN
    /\ RootIsSound
    /\ acpiNext \in DOMAIN TablesListed
    /\ acpiNext' = acpiNext + 1
    /\ hpet' = IF t.valid /\ t.hpet THEN InitHpet(t) ELSE hpet
    /\ ticks' = IF hpet' # hpet /\ hpet'.enabled THEN 0 ELSE ticks
    /\ UNCHANGED <<rsdp, rsdtTables, xsdtTables, clock>>

AcpiDone == acpiNext > 0 /\ (RootIsSound => acpiNext > Len(TablesListed))

Tick ==
    /\ hpet.enabled
    /\ ticks < MaxTicks
    /\ ticks' = ticks + 1
    /\ UNCHANGED <<rsdp, rsdtTables, xsdtTables, acpiNext, hpet, clock>>

\* sc_handle_clock_read, by a process; without a clock it reads address 0.
ClockRead ==
    /\ AcpiDone
    /\ hpet.mapped
    /\ clock' = ((ticks % CounterWrap) - hpet.start) * hpet.multiplier
    /\ UNCHANGED <<rsdp, rsdtTables, xsdtTables, acpiNext, hpet, ticks>>

AcpiStep ==
    \/ \E rev \in {0, 2}, sum, xsum, root \in BOOLEAN, n \in 0 .. MaxTables :
          \E rsdt \in [1 .. n -> AcpiTables], xsdt \in [1 .. MaxTables - n -> AcpiTables] :
              InitRsdp([rev |-> rev, sum |-> sum, xsum |-> xsum, root |-> root], rsdt, xsdt)
    \/ ProcessTable
    \/ Tick
    \/ ClockRead

-----------------------------------------------------------------------------
(* Properties *)

\* The last HPET in memory whose table is intact is the clock, if the tables
\* the firmware's revision prescribes can be trusted and it does not count too
\* fast; a table with a wrong checksum never changes it.
ClockIsFound ==
    AcpiDone =>
        LET listed == IF rsdp.rev >= 2 THEN xsdtTables ELSE rsdtTables
            clocks == {i \in DOMAIN listed : listed[i].hpet /\ listed[i].valid /\ listed[i].memory}
            good == rsdp.sum /\ rsdp.root /\ (rsdp.rev = 0 \/ rsdp.xsum)
        IN  hpet.enabled <=> good /\ clocks # {} /\ listed[Max(clocks)].period >= MinPeriod

=============================================================================
