-------------------------------- MODULE Xhci --------------------------------
(***************************************************************************)
(* Finding and starting the USB host controller: the PCI scans of pci.c    *)
(* and pcie.c, xhci.c, and usb_host_init.                                  *)
(*                                                                         *)
(* A machine is the sequence of its PCI functions in the order in which    *)
(* the scans meet them.  A function's registers are at its BAR; it is      *)
(* named by its place in the sequence, and 0 is no address.  near is a bus *)
(* below 8, as far as the table of pcie.c and the legacy scans reach.      *)
(***************************************************************************)
EXTENDS Integers, Sequences, FiniteSets

CONSTANTS
    Machines,
    PCIE_MAX_DEVICES,
    MinCap               \* the least CAPLENGTH that xhci_init accepts, 0x20

ASSUME XhciAssumption ==
    /\ Machines \subseteq Seq([xhci : BOOLEAN, bar : BOOLEAN, cap : Nat, near : BOOLEAN])
    /\ PCIE_MAX_DEVICES \in Nat /\ MinCap \in Nat

VARIABLES
    machine,             \* the PCI functions: [xhci, bar, cap, near]
    g_devices,           \* the table of pcie.c; its order is that of the scan
    g_xhci_present, g_xhci_mmio, g_op_base,
    halted,              \* HCHalted of the controller at g_xhci_mmio
    g_usb_present

xhciVars == <<machine, g_devices, g_xhci_present, g_xhci_mmio, g_op_base, halted,
              g_usb_present>>

XhciInit ==
    /\ machine \in Machines
    /\ g_devices = {}
    /\ g_xhci_present = FALSE /\ g_xhci_mmio = 0 /\ g_op_base = <<0, 0>>
    /\ halted \in BOOLEAN
    /\ g_usb_present = FALSE

Functions == 1 .. Len(machine)
First(S)  == CHOOSE i \in S : \A j \in S : i <= j

(* pci_get_bar.                                                             *)
Bar(i) == IF machine[i].bar THEN i ELSE 0

(* Faulty variant: the size of the table is not looked at.                  *)
Fitting_All(S) == S

Fitting(S) == {i \in S : Cardinality({j \in S : j < i}) < PCIE_MAX_DEVICES}

(* pcie_init: the functions on near buses, as many as the table holds.      *)
pcie_init ==
    /\ g_devices' = Fitting({i \in Functions : machine[i].near})
    /\ UNCHANGED <<machine, g_xhci_present, g_xhci_mmio, g_op_base, halted, g_usb_present>>

(* pci_find_device_by_class, xHCI's class: the first of all.                *)
Controllers == {i \in Functions : machine[i].xhci}
Good(i)     == Bar(i) # 0 /\ machine[i].cap >= MinCap

(* Where xhci_init finds a controller: the first one, when there is a table *)
(* and it is good; else the first good one of the legacy scan; else nowhere.*)
Found ==
    LET scan == {i \in Controllers : machine[i].near /\ Good(i)}
    IN  IF g_devices # {} /\ Controllers # {} /\ Good(First(Controllers))
        THEN First(Controllers)
        ELSE IF scan # {} THEN First(scan) ELSE 0

(* xhci_try_start, xhci_start_controller: a halted controller is told to    *)
(* run, and does, or not while it is polled.                                *)
Take(i) == /\ g_xhci_present' = TRUE /\ g_xhci_mmio' = i
           /\ g_op_base' = <<i, machine[i].cap>>

(* Faulty variant: the flag survives the address.                           *)
Drop_KeepsFlag == UNCHANGED g_xhci_present /\ g_xhci_mmio' = 0

(* The end of a failed xhci_init, which forgets the address, but not        *)
(* g_op_base.                                                               *)
Drop == g_xhci_present' = FALSE /\ g_xhci_mmio' = 0

xhci_init ==
    /\ IF Found # 0 THEN Take(Found) /\ halted' \in {FALSE, halted}
                    ELSE Drop /\ UNCHANGED <<g_op_base, halted>>
    /\ UNCHANGED <<machine, g_devices, g_usb_present>>

(* What xhci_init_full resets and starts: the controller it knows, or the   *)
(* first of the table that has an address, whatever its CAPLENGTH.          *)
Listed == {i \in g_devices : machine[i].xhci /\ Bar(i) # 0}
Known  == IF g_xhci_present /\ g_xhci_mmio # 0 THEN g_xhci_mmio
          ELSE IF Listed # {} THEN First(Listed) ELSE 0

(* usb_host_init: xhci_init_full, which resets the controller, not looking  *)
(* at the outcome, and starts it; when it does not run, or there is none,   *)
(* it is xhci_init's turn.                                                  *)
usb_host_init ==
    /\ UNCHANGED <<machine, g_devices>>
    /\ \/ /\ Known # 0 /\ Take(Known)
          /\ halted' = FALSE /\ g_usb_present' = TRUE
       \/ /\ IF Found # 0 THEN Take(Found)
             ELSE Drop /\ g_op_base' = IF Known # 0 THEN <<Known, machine[Known].cap>>
                                       ELSE g_op_base
          /\ halted' \in BOOLEAN /\ g_usb_present' = (Found # 0)

-----------------------------------------------------------------------------
(* Properties.                                                              *)

(* While xHCI counts as present, the cached register addresses are those of *)
(* one and the same xHCI function of the machine, although xhci_init,       *)
(* xhci_init_full and usb_host_init may each move or drop them and a failed *)
(* xhci_init keeps the old g_op_base (xhci.c:121-206, 277-322).             *)
OneController ==
    g_xhci_present =>
        /\ g_xhci_mmio \in Controllers /\ machine[g_xhci_mmio].bar
        /\ g_op_base = <<g_xhci_mmio, machine[g_xhci_mmio].cap>>
=============================================================================
