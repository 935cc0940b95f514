----------------------------- MODULE MCStartup -----------------------------
(* Instances of Startup for TLC.                                           *)
EXTENDS Startup
CONSTANTS a1, a2, a3

(* The boot processor is in the middle of the MADT.                        *)
MCInfos == <<a1, BSP, a2, a3>>

(* One IOAPIC or two, the line of the PIT where it is or moved to line 2,  *)
(* as firmware does, or to no IOAPIC's, and an IOAPIC that is not the one  *)
(* the MADT lists.                                                         *)
IOAPIC(base, last) == [base |-> base, last |-> last, matches |-> TRUE]
Unknown == [base |-> 4, last |-> 3, matches |-> FALSE]
Moved(irq, line) == [irq |-> irq, global |-> line]

MCWirings == [apic_id : {0, 1},
              ioapics : {<<IOAPIC(0, 3)>>, <<IOAPIC(0, 1), IOAPIC(2, 1)>>, <<IOAPIC(0, 3), Unknown>>},
              overrides : {<< >>, <<Moved(0, 9), Moved(1, 3), Moved(0, 2)>>, <<Moved(0, 9)>>}]
=============================================================================
