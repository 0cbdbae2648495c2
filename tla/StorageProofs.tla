---------------------------- MODULE StorageProofs ----------------------------
(***************************************************************************)
(* Proofs about Storage and Xhci, for every machine, every order of the    *)
(* start-up calls, every disk and every set of calls.                      *)
(***************************************************************************)
EXTENDS Storage, FiniteSetTheorems, SequenceTheorems, WellFoundedInduction, TLAPS

(* A non-empty set of naturals has a least element.                         *)
LEMMA Least ==
    ASSUME NEW S, S \subseteq Nat, S # {}
    PROVE  \E x \in S : \A y \in S : x <= y
  <1>1. IsWellFoundedOn(OpToRel(<, Nat), Nat)
    BY NatLessThanWellFounded
  <1>2. IsWellFoundedOn({p \in Nat \X Nat : p[1] < p[2]}, Nat)
    BY <1>1 DEF OpToRel
  <1>3. PICK x \in S : \A y \in S : ~(<<y, x>> \in {p \in Nat \X Nat : p[1] < p[2]})
    BY <1>2, WFMin
  <1>4. \A y \in S : ~(y < x)
    BY <1>3
  <1> QED
    BY <1>4

-----------------------------------------------------------------------------
(* Finding the controller.                                                  *)

(* First is the least element of a set of functions.                        *)
LEMMA FirstIn == ASSUME NEW S, S \subseteq Nat, S # {} PROVE First(S) \in S
  <1>1. \E c \in S : \A j \in S : c <= j
    BY Least
  <1> QED
    BY <1>1 DEF First

(* A bounded set of naturals has a greatest element.                        *)
LEMMA Greatest ==
    ASSUME NEW b \in Nat, NEW S, S \subseteq 0 .. b, S # {}
    PROVE  \E m \in S : \A t \in S : t <= m
  <1> DEFINE T == {b - s : s \in S}
  <1>0. \A s \in S : b - s \in Nat
    OBVIOUS
  <1>1. T \subseteq Nat /\ T # {}
    BY <1>0
  <1> HIDE DEF T
  <1>2. PICK k \in T : \A t \in T : k <= t
    BY <1>1, Least
  <1>3. PICK m \in S : k = b - m
    BY <1>2 DEF T
  <1>4. \A t \in S : b - t \in T
    BY DEF T
  <1>5. \A t \in S : t <= m
    <2> TAKE t \in S
    <2>1. k <= b - t
      BY <1>2, <1>4
    <2> QED
      BY <2>1, <1>3
  <1> QED
    BY <1>5

(* The loop of pcie_init stops when the table is full.                      *)
LEMMA FittingFits ==
    ASSUME NEW b \in Nat, NEW S, S \subseteq 1 .. b
    PROVE  Fitting(S) \subseteq S /\ Cardinality(Fitting(S)) <= PCIE_MAX_DEVICES
  <1> DEFINE F == Fitting(S)
  <1>1. F \subseteq S
    BY DEF Fitting
  <1>2. IsFiniteSet(1 .. b)
    BY FS_Interval
  <1>3. IsFiniteSet(S) /\ IsFiniteSet(F)
    BY <1>1, <1>2, FS_Subset
  <1>4. CASE F = {}
    BY <1>4, FS_EmptySet, XhciAssumption
  <1>5. CASE F # {}
    <2>1. F \subseteq 0 .. b
      <3>1. \A x \in 1 .. b : x \in 0 .. b
        OBVIOUS
      <3> HIDE DEF F
      <3> QED
        BY <1>1, <3>1
    <2>2. PICK m \in F : \A t \in F : t <= m
      BY <1>5, <2>1, Greatest
    <2> DEFINE B == {j \in S : j < m}
    <2>3. Cardinality(B) < PCIE_MAX_DEVICES
      BY <2>2 DEF Fitting
    <2>4. IsFiniteSet(B)
      BY <1>3, FS_Subset
    <2>5. F \ {m} \subseteq B
      BY <2>1, <2>2, <1>1
    <2>6. Cardinality(F \ {m}) <= Cardinality(B)
      BY <2>4, <2>5, FS_Subset
    <2>7. Cardinality(F \ {m}) = Cardinality(F) - 1
      BY <1>3, <2>2, FS_RemoveElement
    <2>8. Cardinality(B) \in Nat /\ Cardinality(F) \in Nat
      BY <1>3, <2>4, FS_CardinalityType
    <2> QED
      BY <1>1, <2>3, <2>6, <2>7, <2>8, XhciAssumption
  <1> QED
    BY <1>1, <1>4, <1>5

(* xhci.c's state: OneController needs that the table names functions of    *)
(* the machine, one of which xhci_init_full may take.                       *)
XhciInv ==
    /\ machine \in Machines
    /\ g_devices \subseteq Functions /\ Cardinality(g_devices) <= PCIE_MAX_DEVICES
    /\ g_xhci_present \in BOOLEAN /\ halted \in BOOLEAN
    /\ g_xhci_mmio \in 0 .. Len(machine)
    /\ OneController

LEMMA MachineType ==
    ASSUME machine \in Machines
    PROVE  /\ Len(machine) \in Nat
           /\ Functions \subseteq Nat \ {0} /\ Functions \subseteq 1 .. Len(machine)
           /\ \A c \in Functions : machine[c] \in [xhci : BOOLEAN, bar : BOOLEAN, cap : Nat, near : BOOLEAN]
  <1> DEFINE R == [xhci : BOOLEAN, bar : BOOLEAN, cap : Nat, near : BOOLEAN]
  <1>1. machine \in Seq(R)
    BY XhciAssumption
  <1> HIDE DEF R
  <1>2. Len(machine) \in Nat /\ \A c \in 1 .. Len(machine) : machine[c] \in R
    BY <1>1
  <1>3. 1 .. Len(machine) \subseteq Nat \ {0}
    BY <1>2
  <1> QED
    BY <1>2, <1>3 DEF Functions, R

(* Where xhci_init and xhci_init_full look for a controller, they find one  *)
(* of the machine, with an address, or nothing.                             *)
LEMMA FoundIsController ==
    ASSUME XhciInv
    PROVE  /\ Found # 0 => Found \in Controllers /\ machine[Found].bar
           /\ Known # 0 => Known \in Controllers /\ machine[Known].bar
  <1>0. Controllers \subseteq Functions /\ Functions \subseteq Nat \ {0}
    BY MachineType DEF XhciInv, Controllers
  <1>1. \A c \in Functions : Bar(c) # 0 => machine[c].bar
    BY DEF Bar
  <1>2. Found # 0 => Found \in Controllers /\ machine[Found].bar
    <2> DEFINE scan == {c \in Controllers : machine[c].near /\ Good(c)}
    <2>1. Controllers # {} => First(Controllers) \in Controllers
      BY <1>0, FirstIn
    <2>2. scan \subseteq Nat
      BY <1>0
    <2>3. scan # {} => First(scan) \in scan
      BY <2>2, FirstIn
    <2>4. Found = IF g_devices # {} /\ Controllers # {} /\ Good(First(Controllers))
                  THEN First(Controllers)
                  ELSE IF scan # {} THEN First(scan) ELSE 0
      BY DEF Found
    <2> QED
      BY <1>0, <1>1, <2>1, <2>3, <2>4 DEF Good
  <1>3. Known # 0 => Known \in Controllers /\ machine[Known].bar
    <2>1. Listed \subseteq Functions
      BY DEF XhciInv, Listed
    <2>2. Listed # {} => First(Listed) \in Listed
      BY <1>0, <2>1, FirstIn
    <2>3. \A c \in Listed : c \in Controllers /\ machine[c].bar
      BY <2>1, <1>1 DEF Listed, Controllers
    <2> QED
      BY <2>2, <2>3 DEF Known, XhciInv, OneController
  <1> QED
    BY <1>2, <1>3

LEMMA XhciSteps ==
    ASSUME XhciInv, pcie_init \/ xhci_init \/ usb_host_init \/ UNCHANGED xhciVars
    PROVE  XhciInv'
  <1>0. Found # 0 => Found \in Controllers /\ machine[Found].bar
    BY FoundIsController
  <1>00. Known # 0 => Known \in Controllers /\ machine[Known].bar
    BY FoundIsController
  <1>1. \A c \in Controllers : c \in 0 .. Len(machine)
    BY MachineType DEF Controllers, XhciInv
  <1>11. 0 \in 0 .. Len(machine)
    BY MachineType DEF XhciInv
  <1>2. CASE pcie_init
    <2> DEFINE S == {c \in Functions : machine[c].near}
    <2>1. S \subseteq 1 .. Len(machine) /\ Len(machine) \in Nat
      BY MachineType DEF XhciInv
    <2>2. Fitting(S) \subseteq S /\ Cardinality(Fitting(S)) <= PCIE_MAX_DEVICES
      BY <2>1, FittingFits
    <2>3. g_devices' = Fitting(S)
      BY <1>2 DEF pcie_init
    <2> QED
      BY <1>2, <2>2, <2>3 DEF pcie_init, XhciInv, OneController, Controllers, Functions
  <1>3. CASE xhci_init
    BY <1>3, <1>0, <1>1, <1>11 DEF xhci_init, Take, Drop, XhciInv, OneController, Controllers, Functions
  <1>4. CASE usb_host_init
    <2>1. CASE Known # 0 /\ Take(Known) /\ halted' = FALSE
      BY <1>4, <2>1, <1>00, <1>1 DEF usb_host_init, Take, XhciInv, OneController, Controllers, Functions
    <2>2. CASE Found # 0 /\ Take(Found) /\ halted' \in BOOLEAN
      BY <1>4, <2>2, <1>0, <1>1 DEF usb_host_init, Take, XhciInv, OneController, Controllers, Functions
    <2>3. CASE Drop /\ halted' \in BOOLEAN
      BY <1>4, <2>3, <1>11 DEF usb_host_init, Drop, XhciInv, OneController, Controllers, Functions
    <2> QED
      BY <1>4, <2>1, <2>2, <2>3 DEF usb_host_init
  <1>5. CASE UNCHANGED xhciVars
    BY <1>5 DEF xhciVars, XhciInv, OneController, Controllers, Functions
  <1> QED
    BY <1>2, <1>3, <1>4, <1>5

-----------------------------------------------------------------------------
(* Start-up, and the search for the size of the disk.                       *)

Pcs == {"start", "idle", "grow", "search", "capacity", "direct", "command", "data", "status",
        "done", "fail"}

(* What the search knows on a port that runs: the sector that was read      *)
(* before the doubling ended exists, and both ends of the interval stay     *)
(* below its double.                                                        *)
Doubled ==
    /\ pc = "grow" => ci = 0 /\ (lo = 0 \/ (lo < size /\ probe = 2 * lo))
    /\ pc = "search" => lo = 0 \/ (lo <= 2 * size - 3 /\ hi <= 2 * size - 3)
    /\ pc = "capacity" => last_lba <= 2 * size - 3

(* The transport looks for the last sector only when there is a disk, and   *)
(* keeps none unless the device is then present.                            *)
ProbeInv ==
    /\ pc \in Pcs /\ sata \in BOOLEAN /\ size \in DiskSizes /\ blind \in BOOLEAN
    /\ pc \in {"grow", "search", "capacity"} => sata /\ ~g_present /\ probe # 0
    /\ BackedBySata
    /\ last_lba # 0 => g_present \/ pc = "capacity"
    /\ lo \in Nat /\ last_lba \in Nat /\ probe \in Nat /\ hi \in Int
    /\ g_num_blocks \in 0 .. 2^LbaBits
    /\ ~blind => Doubled
    /\ CapacityWithin

CmdType == [valid : BOOLEAN, tag : {"none", "read", "write", "init"}, in : BOOLEAN,
            op : {"none", "read", "write", "capacity", "other"}, lba : Nat, count : Nat]

(* The call under way: there is none during start-up and between calls.     *)
AtRest == pc \in {"start", "idle", "grow", "search", "capacity"}

ReqInv ==
    IF AtRest THEN req = NoReq /\ n = 0 /\ buf = <<>>
    ELSE /\ req.op \in {"read", "write"} /\ req.via \in {"block", "ms"}
         /\ req.lba \in LBAs /\ req.count \in Counts \union {1}
         /\ req.op = "write" => req.data \in Payloads(req.count)
         /\ n \in 0 .. req.count
         /\ buf \in IF req.op = "read" THEN [1 .. n -> Data] ELSE {<<>>}

(* A port that has stopped stays so; when it stops during a call, the call  *)
(* fails.                                                                   *)
StopInv ==
    /\ ci \in 0 .. NumSlots
    /\ ~AtRest => /\ req.stopped \in BOOLEAN
                  /\ req.stopped => ci > 0
                  /\ ci > 0 => req.stopped \/ pc = "fail"

(* Unless the port had stopped before the call, what has been transferred   *)
(* so far is on the disk, or in the buffer.                                 *)
DoneSoFar ==
    ~AtRest /\ ~req.stopped =>
        /\ \A k \in 0 .. n - 1 : req.lba + k \in Sectors
        /\ req.op = "write" => \A k \in 0 .. n - 1 : disk[req.lba + k] = req.data[k + 1]
        /\ req.op = "read" => buf = [k \in 1 .. n |-> disk[req.lba + k - 1]]

(* The sectors a call is asked for: its count, cut to the command's width.  *)
Amount == req.count % 2^CountBits

(* How far the call has got: the command that the transport holds is the    *)
(* call's until its data has been transferred, and a status it keeps from   *)
(* then on is that of the whole transfer.                                   *)
Progress ==
    /\ cbw \in CmdType /\ csw \in {"none", "read", "write", "init"}
    /\ pc = "direct" => n = 0 /\ req.count = 1 /\ sata
    /\ pc = "command" => n = 0 /\ req.count \in Counts
    /\ pc = "data" => cbw.count = Amount /\ cbw.tag = req.op
    /\ pc = "status" => csw = "none" \/ n = Amount
    /\ pc = "done" => n = Amount

Inv ==
    /\ XhciInv
    /\ ProbeInv
    /\ disk \in [Sectors -> Data] /\ faults \in 0 .. MaxFaults
    /\ ReqInv
    /\ StopInv
    /\ DoneSoFar
    /\ Progress

(* A sector the disk has is one of the model's.                             *)
LEMMA SectorsOfDisk ==
    ASSUME size \in DiskSizes, NEW l \in Nat, l < size
    PROVE  l \in Sectors
  <1> DEFINE m == CHOOSE x \in DiskSizes : \A k \in DiskSizes : k <= x
  <1>1. m \in DiskSizes /\ \A k \in DiskSizes : k <= m
    BY StorageAssumption
  <1>2. Sectors = 0 .. m - 1
    BY DEF Sectors
  <1> HIDE DEF m
  <1>3. m \in Nat /\ size \in Nat /\ size <= m
    BY <1>1, StorageAssumption
  <1> QED
    BY <1>2, <1>3

LEMMA InvInit == Init => Inv
  <1> SUFFICES ASSUME Init PROVE Inv
    OBVIOUS
  <1>1. XhciInv
    <2>1. Cardinality({}) <= PCIE_MAX_DEVICES
      BY FS_EmptySet, XhciAssumption
    <2>2. 0 \in 0 .. Len(machine)
      BY MachineType DEF Init, XhciInit
    <2> QED
      BY <2>1, <2>2 DEF Init, XhciInit, XhciInv, OneController
  <1>2. ProbeInv
    <2>1. size \in Nat \ {0}
      BY StorageAssumption DEF Init
    <2>2. 0 \in 0 .. 2^LbaBits /\ ProbeStart \in Nat \ {0}
      BY StorageAssumption
    <2>3. sata \in BOOLEAN /\ blind \in BOOLEAN /\ BackedBySata /\ CapacityWithin
      BY Zenon DEF Init, BackedBySata, CapacityWithin
    <2>4. /\ lo \in Nat /\ last_lba \in Nat /\ g_num_blocks \in 0 .. 2^LbaBits
          /\ probe \in Nat /\ hi \in Int
      BY <2>2 DEF Init
    <2> QED
      BY <2>3, <2>4 DEF Init, ProbeInv, Pcs, Doubled
  <1>3. disk \in [Sectors -> Data] /\ faults \in 0 .. MaxFaults
    BY StorageAssumption DEF Init
  <1>4. ReqInv /\ DoneSoFar
    BY DEF Init, ReqInv, DoneSoFar, AtRest
  <1>6. StopInv
    BY StorageAssumption DEF Init, StopInv, AtRest
  <1>5. Progress
    BY DEF Init, Progress, CmdType, NoCbw
  <1> QED
    BY <1>1, <1>2, <1>3, <1>4, <1>5, <1>6 DEF Inv

(* The search is over, and what it found is kept.                           *)
LEMMA ProbeKept ==
    ASSUME ProbeInv, pc' \in Pcs \ {"grow", "search", "capacity"},
           sata' \in {sata, TRUE},
           last_lba # 0 => g_present,
           UNCHANGED <<size, last_lba, g_num_blocks, g_present, search>>
    PROVE  ProbeInv'
  BY DEF ProbeInv, BackedBySata, CapacityWithin, Doubled, search

(* Between calls the conjuncts about the call under way are trivial.        *)
LEMMA AtRestInv ==
    ASSUME Inv, AtRest, AtRest', UNCHANGED <<disk, req, n, buf>>,
           cbw' \in CmdType, csw' \in {"none", "read", "write", "init"},
           faults' \in 0 .. MaxFaults, ci' \in 0 .. NumSlots, XhciInv', ProbeInv'
    PROVE  Inv'
  BY DEF Inv, AtRest, ReqInv, StopInv, DoneSoFar, Progress

LEMMA DriveType ==
    ASSUME Inv, NEW l, SectorOk(l) \/ SectorFails(l) \/ SectorSilent
    PROVE  faults' \in 0 .. MaxFaults /\ ci' \in 0 .. NumSlots
  <1>1. faults \in 0 .. MaxFaults /\ ci \in 0 .. NumSlots /\ NumSlots \in Nat \ {0} /\ MaxFaults \in Nat
    BY StorageAssumption DEF Inv, StopInv
  <1> QED
    BY <1>1 DEF SectorOk, SectorFails, SectorSilent, Occupied, drive

LEMMA StartInv ==
    ASSUME Inv, StartPci \/ StartSata \/ SkipMs \/ ms_init
    PROVE  Inv'
  <1>1. XhciInv'
    BY XhciSteps DEF Inv, StartPci, StartSata, SkipMs, ms_init
  <1>2. ProbeInv'
    <2>1. last_lba # 0 => g_present
      BY DEF Inv, ProbeInv, StartPci, StartSata, SkipMs, ms_init, AskedForMs
    <2>2. CASE StartPci \/ SkipMs \/ StartSata
      BY <2>1, <2>2, ProbeKept DEF Inv, StartPci, SkipMs, StartSata, Started, bulk, Pcs
    <2>3. CASE ms_init /\ Started /\ UNCHANGED search
      BY <2>1, <2>3, ProbeKept DEF Inv, ms_init, Started, bulk, Pcs
    <2>4. CASE ms_init /\ sata /\ ~g_present /\ ~(Started /\ UNCHANGED search)
      <3>0. last_lba = 0
        BY <2>1, <2>4
      <3>1. /\ pc' = "grow" /\ probe' = ProbeStart /\ lo' = 0 /\ hi' = 0
            /\ UNCHANGED <<sata, size, last_lba, g_num_blocks, g_present, ci>>
        BY <2>4, <3>0 DEF ms_init, bulk, drive
      <3>2. ProbeStart \in Nat \ {0} /\ ci \in Nat
        BY StorageAssumption DEF Inv, StopInv
      <3>3. ci = 0 => Doubled'
        BY <3>1 DEF Doubled
      <3>4. blind' = (ci > 0)
        BY <2>4 DEF ms_init
      <3>50. (ci > 0) \in BOOLEAN
        OBVIOUS
      <3>5. blind' \in BOOLEAN /\ (~blind' => ~(ci > 0))
        BY <3>4, <3>50
      <3>6. ~blind' => Doubled'
        BY <3>2, <3>3, <3>5
      <3> QED
        BY <2>4, <3>0, <3>1, <3>2, <3>5, <3>6 DEF Inv, ProbeInv, Pcs, BackedBySata, CapacityWithin
    <2> QED
      BY <2>2, <2>3, <2>4 DEF ms_init
  <1>3. /\ AtRest /\ AtRest' /\ UNCHANGED <<disk, req, n, buf, faults, cbw, csw>>
        /\ ci' \in {0, ci}
    BY DEF StartPci, StartSata, SkipMs, ms_init, AskedForMs, Started, AtRest, bulk, drive
  <1>4. ci' \in 0 .. NumSlots
    BY <1>3, StorageAssumption DEF Inv, StopInv
  <1> QED
    BY <1>1, <1>2, <1>3, <1>4, AtRestInv DEF Inv, Progress

LEMMA ProbeInvStep ==
    ASSUME Inv, ProbeGrow \/ ProbeLimit \/ ProbeSearch \/ ProbeEnd \/ ReadCapacity
    PROVE  Inv'
  <1>0. size \in Nat \ {0} /\ 2^LbaBits \in Nat \ {0}
    BY StorageAssumption DEF Inv, ProbeInv
  <1>1. XhciInv'
    BY XhciSteps DEF Inv, ProbeGrow, ProbeLimit, ProbeSearch, ProbeEnd, ReadCapacity
  <1>2. ProbeInv'
    <2>0. UNCHANGED <<sata, size, blind>> /\ size \in DiskSizes /\ blind \in BOOLEAN /\ sata
      BY DEF Inv, ProbeInv, ProbeGrow, ProbeLimit, ProbeSearch, ProbeEnd, ReadCapacity, search
    <2>00. ~g_present /\ lo \in Nat /\ probe \in Nat \ {0} /\ hi \in Int
      BY DEF Inv, ProbeInv, ProbeGrow, ProbeLimit, ProbeSearch, ProbeEnd, ReadCapacity
    <2>1. CASE ProbeGrow
      <3>1. \/ /\ ~blind => probe < size
               /\ lo' = probe /\ probe' = 2 * probe /\ hi' = hi /\ pc' = "grow" /\ (ci = 0 => ci' = 0)
            \/ hi' = probe - 1 /\ pc' = "search" /\ lo' = lo /\ probe' = probe
        BY <2>1 DEF Inv, ProbeInv, Doubled, ProbeGrow, SectorOk, SectorSilent, Exists, drive
      <3>2. ~blind => Doubled'
        BY <1>0, <2>0, <2>00, <2>1, <3>1 DEF Inv, ProbeInv, Doubled, ProbeGrow
      <3>3. lo' \in Nat /\ hi' \in Int /\ probe' \in Nat \ {0} /\ pc' \in {"grow", "search"}
        BY <2>00, <3>1
      <3>4. UNCHANGED <<last_lba, g_present, g_num_blocks>> /\ pc = "grow"
        BY <2>1 DEF ProbeGrow, bulk
      <3> QED
        BY <2>0, <2>00, <3>2, <3>3, <3>4 DEF Inv, ProbeInv, Pcs, BackedBySata, CapacityWithin
    <2>2. CASE ProbeLimit
      <3>1. /\ hi' = probe - 1 /\ pc' = "search" /\ UNCHANGED <<lo, probe>> /\ pc = "grow"
            /\ UNCHANGED <<last_lba, g_present, g_num_blocks>>
        BY <2>2 DEF ProbeLimit, bulk
      <3>2. ~blind => Doubled'
        BY <1>0, <2>0, <2>00, <3>1 DEF Inv, ProbeInv, Doubled
      <3> QED
        BY <2>0, <2>00, <3>1, <3>2 DEF Inv, ProbeInv, Pcs, BackedBySata, CapacityWithin
    <2>3. CASE ProbeSearch
      <3> DEFINE mid == lo + (hi - lo + 1) \div 2
      <3>0. pc = "search" /\ pc' = "search" /\ lo # 0 /\ lo < hi
        BY <2>3 DEF ProbeSearch
      <3>1. mid \in Nat /\ mid <= hi /\ mid > lo
        BY <2>00, <3>0
      <3>2. \/ lo' = mid /\ hi' = hi
            \/ hi' = mid - 1 /\ lo' = lo
        BY <2>3 DEF ProbeSearch, Lower
      <3> HIDE DEF mid
      <3>3. lo' \in Nat /\ hi' \in Int
        BY <2>00, <3>1, <3>2
      <3>4. ~blind => Doubled'
        BY <1>0, <2>0, <2>00, <3>0, <3>1, <3>2 DEF Inv, ProbeInv, Doubled
      <3>5. UNCHANGED <<last_lba, g_present, g_num_blocks, probe>>
        BY <2>3 DEF ProbeSearch, bulk
      <3> QED
        BY <2>0, <2>00, <3>0, <3>3, <3>4, <3>5 DEF Inv, ProbeInv, Pcs, BackedBySata, CapacityWithin
    <2>4. CASE ProbeEnd
      <3>1. /\ pc = "search" /\ last_lba' = lo /\ UNCHANGED <<g_present, g_num_blocks, lo, hi, probe>>
            /\ IF lo = 0 THEN pc' \in {"start", "idle"} ELSE pc' = "capacity"
        BY <2>4 DEF ProbeEnd, Started, search
      <3>2. ~blind => Doubled'
        BY <2>0, <3>1 DEF Inv, ProbeInv, Doubled
      <3> QED
        BY <2>0, <2>00, <3>1, <3>2 DEF Inv, ProbeInv, Pcs, BackedBySata, CapacityWithin
    <2>5. CASE ReadCapacity
      <3> DEFINE b == (last_lba % 2^LbaBits) + 1
      <3>0. last_lba \in Nat /\ pc = "capacity" /\ pc' \in {"start", "idle"}
        BY <2>5 DEF Inv, ProbeInv, ReadCapacity, Started
      <3>1. b \in 1 .. last_lba + 1 /\ b \in 0 .. 2^LbaBits
        BY <1>0, <3>0
      <3>2. g_num_blocks' = b /\ g_present' = TRUE /\ UNCHANGED <<last_lba, lo, hi, probe>>
        BY <2>5 DEF ReadCapacity, search
      <3> HIDE DEF b
      <3>3. ~blind => b \in 1 .. 2 * (size - 1)
        BY <1>0, <3>0, <3>1 DEF Inv, ProbeInv, Doubled
      <3>4. CapacityWithin'
        BY <2>0, <3>2, <3>3 DEF CapacityWithin
      <3>5. ~blind => Doubled'
        BY <3>0 DEF Doubled
      <3> QED
        BY <2>0, <2>00, <3>0, <3>1, <3>2, <3>4, <3>5 DEF Inv, ProbeInv, Pcs, BackedBySata
    <2> QED
      BY <2>1, <2>2, <2>3, <2>4, <2>5
  <1>3. AtRest /\ AtRest' /\ UNCHANGED <<disk, req, n, buf>>
    BY DEF ProbeGrow, ProbeLimit, ProbeSearch, ProbeEnd, ReadCapacity, Started, AtRest
  <1>4. faults' \in 0 .. MaxFaults /\ ci' \in 0 .. NumSlots
    <2>1. CASE UNCHANGED drive
      BY <2>1 DEF Inv, StopInv, drive
    <2>2. CASE ProbeGrow \/ ProbeSearch
      BY <2>2, DriveType DEF ProbeGrow, ProbeSearch
    <2>3. CASE ProbeEnd
      BY <2>3, StorageAssumption DEF ProbeEnd, Occupied, Inv, StopInv
    <2> QED
      BY <2>1, <2>2, <2>3 DEF ProbeLimit, ReadCapacity
  <1>5. cbw' \in CmdType /\ csw' \in {"none", "read", "write", "init"}
    <2>1. CASE ReadCapacity
      BY <2>1 DEF ReadCapacity, CmdType, NoCbw
    <2>2. CASE UNCHANGED <<cbw, csw>>
      BY <2>2 DEF Inv, Progress
    <2> QED
      BY <2>1, <2>2 DEF ProbeGrow, ProbeLimit, ProbeSearch, ProbeEnd, bulk
  <1> QED
    BY <1>1, <1>2, <1>3, <1>4, <1>5, AtRestInv

-----------------------------------------------------------------------------
(* The calls.                                                               *)

LEMMA ArgsNat == LBAs \subseteq Nat /\ Counts \union {1} \subseteq Nat
  <1>1. Counts \subseteq Nat
    BY StorageAssumption
  <1> QED
    BY <1>1, StorageAssumption

(* How many sectors a call is asked for.                                    *)
LEMMA AmountType ==
    ASSUME NEW c \in Nat
    PROVE  /\ c % 2^CountBits \in 0 .. c
           /\ c = 0 => c % 2^CountBits = 0
           /\ c = 1 => c % 2^CountBits = 1
  <1> DEFINE m == 2^CountBits
  <1>1. m \in Nat \ {0, 1}
    BY StorageAssumption
  <1> HIDE DEF m
  <1>2. c % m \in 0 .. c /\ (c = 0 => c % m = 0) /\ (c = 1 => c % m = 1)
    BY <1>1
  <1> QED
    BY <1>2 DEF m

LEMMA EmptyBuffer == <<>> \in [1 .. 0 -> Data]
  OBVIOUS

LEMMA BeginInv ==
    ASSUME Inv, NEW via \in {"block", "ms"}, NEW op \in {"read", "write"}, NEW l \in LBAs,
           NEW c, via = "block" => c = 1, via = "ms" => c \in Counts,
           NEW d, op = "write" => d \in Payloads(c), Begin(via, op, l, c, d)
    PROVE  Inv'
  <1>0. /\ req' = [op |-> op, lba |-> l, count |-> c, data |-> d, via |-> via, stopped |-> ci > 0]
        /\ n' = 0 /\ buf' = <<>> /\ UNCHANGED <<disk, faults, ci, sata, bulk>> /\ pc = "idle"
        /\ pc' \in {"direct", "fail", "done", "command"}
    BY DEF Begin, drive
  <1>1. XhciInv'
    BY XhciSteps DEF Inv, Begin
  <1>2. ProbeInv'
    <2>1. last_lba # 0 => g_present
      BY <1>0 DEF Inv, ProbeInv
    <2> QED
      BY <1>0, <2>1, ProbeKept DEF Inv, Begin, bulk, Pcs
  <1>3. c \in Nat
    BY ArgsNat
  <1>4. ReqInv'
    <2>1. buf' \in [1 .. n' -> Data]
      BY <1>0, EmptyBuffer
    <2> QED
      BY <1>0, <1>3, <2>1 DEF ReqInv, AtRest
  <1>5. DoneSoFar'
    <2>1. [k \in 1 .. n' |-> disk'[req'.lba + k - 1]] = <<>>
      BY <1>0
    <2> QED
      BY <1>0, <2>1 DEF DoneSoFar
  <1>6. Progress'
    <2>1. pc' = "done" => c = 0
      BY DEF Begin
    <2>2. pc' = "direct" => via = "block" /\ sata
      BY DEF Begin
    <2>3. pc' = "command" => via = "ms"
      BY DEF Begin, Inv, ProbeInv, BackedBySata
    <2>4. Amount' = c % 2^CountBits
      BY <1>0 DEF Amount
    <2>5. c = 0 => Amount' = 0
      BY <1>3, <2>4, AmountType
    <2> QED
      BY <1>0, <2>1, <2>2, <2>3, <2>5 DEF Progress, Inv, bulk
  <1>7. StopInv'
    <2>1. req'.stopped = (ci > 0) /\ (ci > 0) \in BOOLEAN
      BY <1>0
    <2> QED
      BY <1>0, <2>1 DEF Inv, StopInv
  <1> QED
    BY <1>0, <1>1, <1>2, <1>4, <1>5, <1>6, <1>7 DEF Inv

(* A step of a call that keeps what xhci.c and the search know.             *)
LEMMA EndKeeps ==
    ASSUME Inv, ~AtRest, NEW p \in Pcs \ {"grow", "search", "capacity"}, End(p), UNCHANGED last_lba
    PROVE  XhciInv' /\ ProbeInv' /\ pc' = p /\ UNCHANGED <<req, sata, size>>
  <1>1. last_lba # 0 => g_present
    BY DEF Inv, ProbeInv, AtRest
  <1> QED
    BY <1>1, XhciSteps, ProbeKept DEF Inv, End

(* A step that transfers nothing.                                           *)
LEMMA NoTransferInv ==
    ASSUME Inv, ~AtRest, pc # "fail", NEW p \in {"data", "status", "done", "fail"}, End(p),
           UNCHANGED <<last_lba, disk, n, buf, drive>>, Progress'
    PROVE  Inv'
  <1>1. XhciInv' /\ ProbeInv' /\ pc' = p /\ UNCHANGED req
    BY EndKeeps DEF Pcs
  <1>2. ReqInv'
    BY <1>1 DEF Inv, ReqInv, AtRest
  <1>3. DoneSoFar' /\ StopInv'
    BY <1>1 DEF Inv, DoneSoFar, StopInv, AtRest, drive
  <1> QED
    BY <1>1, <1>2, <1>3 DEF Inv, drive

LEMMA CommandInv == Inv /\ SendCommand => Inv'
  <1> SUFFICES ASSUME Inv, SendCommand PROVE Inv'
    OBVIOUS
  <1>1. Amount \in Nat /\ req.lba \in Nat
    <2>1. req.count \in Counts \union {1} /\ req.lba \in LBAs
      BY DEF Inv, ReqInv, AtRest, SendCommand
    <2>2. req.count \in Nat /\ req.lba \in Nat
      BY <2>1, ArgsNat
    <2> QED
      BY <2>2, AmountType DEF Amount
  <1>2. cbw' = [valid |-> TRUE, tag |-> req.op, in |-> req.op = "read", op |-> req.op,
                lba |-> req.lba, count |-> Amount] /\ csw' = "none"
    BY DEF SendCommand, NewCommand, Amount
  <1>3. (req.op = "read") \in BOOLEAN /\ req.op \in {"read", "write"}
    BY DEF Inv, ReqInv, AtRest, SendCommand
  <1>4. cbw' \in CmdType
    BY <1>1, <1>2, <1>3 DEF CmdType
  <1>5. pc' = "data" /\ UNCHANGED req
    BY DEF SendCommand, End
  <1>6. Progress'
    BY <1>2, <1>4, <1>5 DEF Progress, Amount
  <1> QED
    BY <1>6, NoTransferInv DEF SendCommand, AtRest

LEMMA PhasesInv == Inv /\ (MistakenData \/ DataRefused \/ DataEnd) => Inv'
  <1> SUFFICES ASSUME Inv, MistakenData \/ DataRefused \/ DataEnd PROVE Inv'
    OBVIOUS
  <1>1. CASE MistakenData
    <2>1. cbw' \in CmdType /\ csw' = "none"
      <3>1. PICK c \in Lookalikes : cbw' = c /\ csw' = "none"
        BY <1>1 DEF MistakenData, NewCommand
      <3>2. c \in CmdType
        <4>1. c.valid \in BOOLEAN /\ c.in \in BOOLEAN
          BY Zenon DEF Lookalikes
        <4>2. /\ c.tag \in {"read", "write"} /\ c.op \in {"read", "write", "capacity", "other"}
              /\ c.lba \in Nat /\ c.count \in Nat
              /\ c = [valid |-> c.valid, tag |-> c.tag, in |-> c.in, op |-> c.op, lba |-> c.lba,
                      count |-> c.count]
          BY DEF Lookalikes
        <4> QED
          BY <4>1, <4>2 DEF CmdType
      <3> QED
        BY <3>1, <3>2
    <2>2. Progress'
      BY <1>1, <2>1 DEF MistakenData, Progress, End
    <2> QED
      BY <1>1, <2>2, NoTransferInv DEF MistakenData, AtRest
  <1>2. CASE DataRefused
    <2>1. Progress'
      BY <1>2 DEF DataRefused, Progress, Inv, End, bulk
    <2> QED
      BY <1>2, <2>1, NoTransferInv DEF DataRefused, AtRest, bulk
  <1>3. CASE DataEnd
    <2>1. cbw' \in CmdType /\ csw' \in {"none", "read", "write", "init"}
      BY <1>3 DEF DataEnd, CmdType, Inv, Progress
    <2>2. Progress'
      BY <1>3, <2>1 DEF DataEnd, Progress, Amount, Inv, End
    <2> QED
      BY <1>3, <2>2, NoTransferInv DEF DataEnd, AtRest
  <1> QED
    BY <1>1, <1>2, <1>3

LEMMA StatusInv == Inv /\ (StatusPending \/ Status) => Inv'
  <1> SUFFICES ASSUME Inv, StatusPending \/ Status PROVE Inv'
    OBVIOUS
  <1>1. CASE StatusPending
    <2>1. cbw' \in CmdType /\ csw' \in {"none", "read", "write", "init"}
      BY <1>1 DEF StatusPending, CmdType, Inv, Progress
    <2>2. Progress'
      BY <1>1, <2>1 DEF StatusPending, Progress, End
    <2> QED
      BY <1>1, <2>2, NoTransferInv DEF StatusPending, AtRest
  <1>2. CASE Status
    <2>1. req.op \in {"read", "write"}
      BY <1>2 DEF Status, Inv, ReqInv, AtRest
    <2>2. Progress'
      BY <1>2, <2>1 DEF Status, Progress, Amount, Inv, End
    <2> DEFINE p == IF csw = req.op THEN "done" ELSE "fail"
    <2>3. p \in {"data", "status", "done", "fail"} /\ End(p)
      BY <1>2 DEF Status
    <2> HIDE DEF p
    <2> QED
      BY <1>2, <2>2, <2>3, NoTransferInv DEF Status, AtRest
  <1> QED
    BY <1>1, <1>2

(* The next sector of a request that is not complete: what Transfer does to *)
(* it, when it succeeds, when it fails, and when it only says so.           *)
Unfinished ==
    /\ ~AtRest /\ pc # "fail" /\ n < Amount
    /\ req.op = "write" => req.data \in Payloads(req.count)

LEMMA UnfinishedArgs ==
    ASSUME Inv, Unfinished
    PROVE  /\ req.lba \in Nat /\ req.count \in Nat /\ n \in Nat /\ req.op \in {"read", "write"}
           /\ req.lba \in LBAs /\ req.count \in Counts \union {1} /\ req.via \in {"block", "ms"}
           /\ Amount \in Nat /\ n < Amount /\ n + 1 \in 1 .. req.count /\ req.lba + n \in Nat
           /\ req.op = "write" => req.data[n + 1] \in Data
           /\ req # NoReq /\ (ci > 0 => req.stopped) /\ ci \in Nat
  <1>1. /\ req.lba \in LBAs /\ req.count \in Counts \union {1} /\ n \in 0 .. req.count
        /\ req.op \in {"read", "write"} /\ req.via \in {"block", "ms"}
    BY DEF Inv, ReqInv, Unfinished
  <1>2. req.lba \in Nat /\ req.count \in Nat
    BY <1>1, ArgsNat
  <1>3. Amount \in 0 .. req.count
    BY <1>2, AmountType DEF Amount
  <1>4. n \in Nat /\ n < Amount /\ n + 1 \in 1 .. req.count
    BY <1>1, <1>2, <1>3 DEF Unfinished
  <1>5. req.op = "write" => req.data[n + 1] \in Data
    BY <1>4 DEF Unfinished, Payloads
  <1>6. req # NoReq
    BY <1>1 DEF NoReq
  <1>7. (ci > 0 => req.stopped) /\ ci \in Nat
    BY StorageAssumption DEF Inv, StopInv, Unfinished
  <1> QED
    BY <1>1, <1>2, <1>3, <1>4, <1>5, <1>6, <1>7

LEMMA TransferSteps ==
    ASSUME Inv, Unfinished, NEW p, Transfer(p)
    PROVE  LET l == req.lba + n
           IN  \/ /\ l < size /\ l \in Sectors /\ n' = n + 1 /\ End(p) /\ ci = 0 /\ ci' = 0
                  /\ disk' = IF req.op = "write" THEN Stored(l, req.data[n + 1]) ELSE disk
                  /\ buf' = IF req.op = "read" THEN Append(buf, disk[l]) ELSE buf
               \/ /\ UNCHANGED <<n, buf>> /\ End("fail") /\ ci' > 0
                  /\ \/ disk' = disk
                     \/ /\ req.op = "write" /\ l < size /\ l \in Sectors
                        /\ disk' = Stored(l, req.data[n + 1])
               \/ /\ n' = n + 1 /\ disk' = disk /\ End(p) /\ ci > 0 /\ ci' > 0
                  /\ \/ req.op = "read" /\ \E d \in Data : buf' = Append(buf, d)
                     \/ req.op # "read" /\ buf' = buf
  <1> DEFINE l == req.lba + n
  <1>1. l \in Nat
    BY UnfinishedArgs
  <1>2. l < size => l \in Sectors
    BY <1>1, SectorsOfDisk DEF Inv, ProbeInv
  <1>3. NumSlots \in Nat \ {0} /\ ci \in 0 .. NumSlots
    BY StorageAssumption DEF Inv, StopInv
  <1>4. SectorOk(l) => ci = 0 /\ ci' = 0 /\ l < size
    BY DEF SectorOk, Exists, drive
  <1>5. SectorFails(l) => ci' > 0
    BY <1>3 DEF SectorFails, drive
  <1>6. SectorSilent => ci > 0 /\ ci' > 0
    BY <1>3 DEF SectorSilent, Occupied
  <1> QED
    BY <1>2, <1>4, <1>5, <1>6 DEF Transfer

(* Appending to a sequence that lists the first m values of a function.     *)
LEMMA AppendTabulated ==
    ASSUME NEW S, NEW b \in Nat, NEW m \in Nat, NEW f, \A k \in 1 .. m : f[b + k - 1] \in S,
           f[b + m] \in S
    PROVE  Append([k \in 1 .. m |-> f[b + k - 1]], f[b + m]) = [k \in 1 .. m + 1 |-> f[b + k - 1]]
  <1> DEFINE s == [k \in 1 .. m |-> f[b + k - 1]]
             t == [k \in 1 .. m + 1 |-> f[b + k - 1]]
  <1>1. s \in [1 .. m -> S]
    OBVIOUS
  <1>2. s \in Seq(S)
    BY <1>1, SeqDef
  <1>3. Len(s) \in Nat /\ DOMAIN s = 1 .. Len(s)
    BY <1>2, LenProperties
  <1>4. Len(s) = m
    BY <1>3
  <1>5. /\ Append(s, f[b + m]) \in Seq(S) /\ Len(Append(s, f[b + m])) = m + 1
        /\ \A k \in 1 .. m : Append(s, f[b + m])[k] = s[k]
        /\ Append(s, f[b + m])[m + 1] = f[b + m]
    BY <1>2, <1>4, AppendProperties
  <1>6. Append(s, f[b + m]) \in [1 .. m + 1 -> S]
    BY <1>5, LenProperties
  <1>7. \A k \in 1 .. m + 1 : Append(s, f[b + m])[k] = t[k]
    <2> TAKE k \in 1 .. m + 1
    <2>1. CASE k \in 1 .. m
      BY <2>1, <1>5
    <2>2. CASE k = m + 1
      BY <2>2, <1>5
    <2> QED
      BY <2>1, <2>2
  <1>8. DOMAIN Append(s, f[b + m]) = 1 .. m + 1 /\ DOMAIN t = 1 .. m + 1
    BY <1>6
  <1> QED
    BY <1>6, <1>7

LEMMA AppendType ==
    ASSUME NEW S, NEW m \in Nat, NEW s \in [1 .. m -> S], NEW e \in S
    PROVE  Append(s, e) \in [1 .. m + 1 -> S]
  <1>1. s \in Seq(S)
    BY SeqDef
  <1>2. Len(s) \in Nat /\ DOMAIN s = 1 .. Len(s)
    BY <1>1, LenProperties
  <1>3. Len(s) = m
    BY <1>2
  <1>4. Append(s, e) \in Seq(S) /\ Len(Append(s, e)) = m + 1
    BY <1>1, <1>3, AppendProperties
  <1> QED
    BY <1>4, LenProperties

LEMMA TransferInv ==
    ASSUME Inv, Unfinished, NEW p \in {"done", "data"}, Transfer(p), UNCHANGED bulk,
           p = "done" => Amount = 1 /\ n = 0,
           p = "data" => cbw.count = Amount /\ cbw.tag = req.op
    PROVE  Inv'
  <1> DEFINE l == req.lba + n
  <1>0. /\ req.lba \in Nat /\ req.count \in Nat /\ n \in Nat /\ req.op \in {"read", "write"}
        /\ req.lba \in LBAs /\ req.count \in Counts \union {1} /\ req.via \in {"block", "ms"}
        /\ n + 1 \in 1 .. req.count /\ l \in Nat
        /\ req.op = "write" => req.data[n + 1] \in Data
    BY UnfinishedArgs
  <1>2. faults' \in 0 .. MaxFaults /\ ci' \in 0 .. NumSlots
    BY DriveType DEF Transfer
  <1>3. disk' \in [Sectors -> Data]
    BY <1>0, TransferSteps DEF Stored, Inv
  <1>1. ~AtRest /\ ReqInv /\ req.stopped \in BOOLEAN /\ (ci > 0 <=> req.stopped) /\ ci \in Nat
    BY UnfinishedArgs DEF Inv, StopInv, Unfinished
  <1>4. CASE /\ l < size /\ l \in Sectors /\ n' = n + 1 /\ End(p) /\ ci = 0 /\ ci' = 0
             /\ disk' = IF req.op = "write" THEN Stored(l, req.data[n + 1]) ELSE disk
             /\ buf' = IF req.op = "read" THEN Append(buf, disk[l]) ELSE buf
    <2>1. XhciInv' /\ ProbeInv' /\ pc' = p /\ UNCHANGED req
      BY <1>1, <1>4, EndKeeps DEF Pcs, bulk
    <2>2. ReqInv'
      <3>1. buf' \in IF req.op = "read" THEN [1 .. n' -> Data] ELSE {<<>>}
        BY <1>0, <1>1, <1>4, AppendType DEF ReqInv, Inv
      <3> QED
        BY <1>0, <1>1, <1>4, <2>1, <3>1 DEF ReqInv, AtRest
    <2>3. Progress' /\ StopInv'
      BY <1>0, <1>1, <1>2, <1>4, <2>1 DEF Progress, Amount, StopInv, Inv, bulk
    <2>30. ~req.stopped
      BY <1>1, <1>4
    <2>4. \A k \in 0 .. n' - 1 : req.lba + k \in Sectors
      BY <1>0, <1>1, <1>4, <2>30 DEF Inv, DoneSoFar
    <2>5. ASSUME req.op = "write"
          PROVE  \A k \in 0 .. n' - 1 : disk'[req.lba + k] = req.data[k + 1]
      BY <1>0, <1>1, <1>4, <2>30, <2>4, <2>5 DEF Inv, DoneSoFar, Stored
    <2>6. ASSUME req.op = "read"
          PROVE  buf' = [k \in 1 .. n' |-> disk'[req.lba + k - 1]]
      <3>1. buf = [k \in 1 .. n |-> disk[req.lba + k - 1]] /\ disk' = disk
        BY <1>1, <1>4, <2>30, <2>6 DEF Inv, DoneSoFar
      <3>2. \A k \in 1 .. n : disk[req.lba + k - 1] \in Data
        <4> TAKE k \in 1 .. n
        <4>1. k - 1 \in 0 .. n' - 1 /\ req.lba + (k - 1) = req.lba + k - 1
          BY <1>0, <1>4
        <4> QED
          BY <2>4, <4>1 DEF Inv
      <3>3. disk[l] \in Data
        BY <1>4 DEF Inv
      <3>4. buf' = Append(buf, disk[l])
        BY <1>4, <2>6
      <3>5. buf' = [k \in 1 .. n + 1 |-> disk[req.lba + k - 1]]
        BY <1>0, <3>1, <3>2, <3>3, <3>4, AppendTabulated
      <3> QED
        BY <1>4, <3>1, <3>5
    <2> QED
      BY <1>2, <1>3, <2>1, <2>2, <2>3, <2>4, <2>5, <2>6 DEF Inv, DoneSoFar
  <1>5. CASE UNCHANGED <<n, buf>> /\ End("fail") /\ ci' > 0
    <2>1. XhciInv' /\ ProbeInv' /\ pc' = "fail" /\ UNCHANGED req
      BY <1>1, <1>5, EndKeeps DEF Pcs, bulk
    <2>2. ReqInv' /\ Progress' /\ StopInv'
      BY <1>1, <1>2, <1>5, <2>1 DEF ReqInv, Progress, StopInv, AtRest, Inv, bulk
    <2>3. ASSUME ~req.stopped PROVE \A k \in 0 .. n - 1 : disk'[req.lba + k] = disk[req.lba + k]
      <3>1. disk' = disk \/ disk' = Stored(l, disk'[l])
        BY <1>1, <1>5, TransferSteps DEF Stored, Inv
      <3> QED
        BY <1>0, <1>1, <2>3, <3>1 DEF Stored, Inv, DoneSoFar
    <2>4. DoneSoFar'
      <3> SUFFICES ASSUME ~req.stopped PROVE DoneSoFar'
        BY <2>1 DEF DoneSoFar
      <3>1. buf = [k \in 1 .. n |-> disk[req.lba + k - 1]] =>
              buf = [k \in 1 .. n |-> disk'[req.lba + k - 1]]
        <4>1. \A k \in 1 .. n : disk'[req.lba + k - 1] = disk[req.lba + k - 1]
          <5> TAKE k \in 1 .. n
          <5>1. k - 1 \in 0 .. n - 1 /\ req.lba + k - 1 = req.lba + (k - 1)
            BY <1>0
          <5> QED
            BY <2>3, <5>1
        <4> QED
          BY <4>1
      <3> QED
        BY <1>1, <1>5, <2>1, <2>3, <3>1 DEF Inv, DoneSoFar
    <2> QED
      BY <1>2, <1>3, <2>1, <2>2, <2>4 DEF Inv
  <1>6. CASE /\ n' = n + 1 /\ disk' = disk /\ End(p) /\ ci > 0 /\ ci' > 0
             /\ \/ req.op = "read" /\ \E d \in Data : buf' = Append(buf, d)
                \/ req.op # "read" /\ buf' = buf
    <2>1. XhciInv' /\ ProbeInv' /\ pc' = p /\ UNCHANGED req
      BY <1>1, <1>6, EndKeeps DEF Pcs, bulk
    <2>2. ReqInv'
      <3>1. buf' \in IF req.op = "read" THEN [1 .. n' -> Data] ELSE {<<>>}
        BY <1>0, <1>1, <1>6, AppendType DEF ReqInv
      <3> QED
        BY <1>0, <1>1, <1>6, <2>1, <3>1 DEF ReqInv, AtRest
    <2>3. Progress' /\ StopInv' /\ DoneSoFar'
      BY <1>0, <1>1, <1>2, <1>6, <2>1 DEF Progress, Amount, StopInv, DoneSoFar, Inv, bulk
    <2> QED
      BY <1>2, <1>3, <2>1, <2>2, <2>3 DEF Inv
  <1> QED
    BY <1>4, <1>5, <1>6, TransferSteps

LEMMA ReturnInv == Inv /\ Return => Inv'
  <1> SUFFICES ASSUME Inv, Return PROVE Inv'
    OBVIOUS
  <1>0. last_lba # 0 => g_present
    BY DEF Inv, ProbeInv, Return
  <1>1. XhciInv' /\ ProbeInv'
    BY <1>0, XhciSteps, ProbeKept DEF Inv, Return, bulk, Pcs
  <1>2. ReqInv' /\ StopInv' /\ DoneSoFar'
    BY DEF Inv, Return, ReqInv, StopInv, DoneSoFar, AtRest, drive
  <1>3. Progress'
    BY DEF Inv, Return, Progress, bulk
  <1> QED
    BY <1>1, <1>2, <1>3 DEF Inv, Return, drive

LEMMA DirectUnfinished ==
    ASSUME Inv
    PROVE  /\ Direct \/ DataSector => Unfinished
           /\ Direct => Amount = 1 /\ n = 0
  <1>1. Direct => Amount = 1 /\ n = 0
    BY AmountType DEF Inv, Progress, Amount, Direct
  <1> QED
    BY <1>1 DEF Inv, Progress, ReqInv, AtRest, Direct, DataSector, Unfinished

LEMMA InvStep == Inv /\ [Next]_vars => Inv'
  <1> SUFFICES ASSUME Inv, [Next]_vars PROVE Inv'
    OBVIOUS
  <1>1. CASE StartPci \/ StartSata \/ SkipMs \/ ms_init
    BY <1>1, StartInv
  <1>2. CASE ProbeGrow \/ ProbeLimit \/ ProbeSearch \/ ProbeEnd \/ ReadCapacity
    BY <1>2, ProbeInvStep
  <1>3. ASSUME NEW l \in LBAs, block_read_sector(l) PROVE Inv'
    BY <1>3, BeginInv DEF block_read_sector
  <1>4. ASSUME NEW l \in LBAs, NEW d \in Payloads(1), block_write_sector(l, d) PROVE Inv'
    BY <1>4, BeginInv DEF block_write_sector
  <1>5. ASSUME NEW l \in LBAs, NEW c \in Counts, ms_read_blocks(l, c) PROVE Inv'
    BY <1>5, BeginInv DEF ms_read_blocks
  <1>6. ASSUME NEW l \in LBAs, NEW c \in Counts, NEW d \in Payloads(c), ms_write_blocks(l, c, d)
        PROVE  Inv'
    BY <1>6, BeginInv DEF ms_write_blocks
  <1>7. CASE Direct
    BY <1>7, TransferInv, DirectUnfinished DEF Direct, Inv, Progress
  <1>8. CASE DataSector
    BY <1>8, TransferInv, DirectUnfinished DEF DataSector, Inv, Progress
  <1>9. CASE SendCommand \/ MistakenData \/ DataRefused \/ DataEnd \/ StatusPending \/ Status \/ Return
    BY <1>9, CommandInv, PhasesInv, StatusInv, ReturnInv
  <1>10. CASE UNCHANGED vars
    <2>1. XhciInv'
      BY <1>10, XhciSteps DEF vars, Inv
    <2> QED
      BY <1>10, <2>1 DEF vars, bulk, search, Inv, ProbeInv, BackedBySata, CapacityWithin,
                         Doubled, ReqInv, StopInv, DoneSoFar, Progress, Amount, AtRest, drive
  <1> QED
    BY <1>1, <1>2, <1>3, <1>4, <1>5, <1>6, <1>7, <1>8, <1>9, <1>10 DEF Next

(* The invariant is inductive.                                              *)
THEOREM Invariance == Spec => []Inv
  BY InvInit, InvStep, PTL DEF Spec

(* The drivers' state keeps its type: pcie.c's table is not overrun and no  *)
(* call transfers more sectors than it was asked for.                       *)
THEOREM TypeCorrect == Spec => []TypeOK
  <1>1. Inv => TypeOK
    <2> SUFFICES ASSUME Inv PROVE TypeOK
      OBVIOUS
    <2>1. n \in 0 .. req.count /\ Len(buf) <= n
      <3>1. CASE AtRest
        BY <3>1, EmptySeq DEF Inv, ReqInv, NoReq
      <3>2. CASE ~AtRest /\ req.op = "write"
        <4>1. n \in Nat /\ buf = <<>> /\ n \in 0 .. req.count
          BY <3>2 DEF Inv, ReqInv
        <4> QED
          BY <4>1, EmptySeq
      <3>3. CASE ~AtRest /\ req.op = "read"
        <4>1. n \in Nat /\ n \in 0 .. req.count /\ buf \in [1 .. n -> Data]
          BY <3>3 DEF Inv, ReqInv
        <4>2. Len(buf) = n
          BY <4>1
        <4> QED
          BY <4>1, <4>2
      <3> QED
        BY <3>1, <3>2, <3>3 DEF Inv, ReqInv
    <2> QED
      BY <2>1 DEF Inv, XhciInv, ProbeInv, StopInv, Progress, TypeOK
  <1> QED
    BY <1>1, Invariance, PTL

(* The register addresses xhci.c keeps are those of one controller.         *)
THEOREM ControllerConsistent == Spec => []OneController
  <1>1. Inv => OneController
    BY DEF Inv, XhciInv
  <1> QED
    BY <1>1, Invariance, PTL

(* Mass storage is never present without the disk it is emulated with, so   *)
(* that block.c and the bulk transport do not call each other without end.  *)
THEOREM NoRecursion == Spec => []BackedBySata
  <1>1. Inv => BackedBySata
    BY DEF Inv, ProbeInv
  <1> QED
    BY <1>1, Invariance, PTL

(* The size that probe_sata_last_lba finds on a port that runs is less than *)
(* twice that of the disk, although the read that ends the doubling stops   *)
(* the port: for every disk and every way in which reads may fail.          *)
THEOREM CapacityBounded == Spec => []CapacityWithin
  <1>1. Inv => CapacityWithin
    BY DEF Inv, ProbeInv
  <1> QED
    BY <1>1, Invariance, PTL

-----------------------------------------------------------------------------
(* The block layer implements SectorStore.                                  *)

LEMMA CallStep ==
    ASSUME Inv, NEW via \in {"block", "ms"}, NEW op \in {"read", "write"}, NEW l \in LBAs,
           NEW c \in Counts \union {1}, NEW d,
           op = "write" => d \in Payloads(c), op = "read" => d = <<>>, Begin(via, op, l, c, d)
    PROVE  Store!Call
  <1>1. d \in UNION {Payloads(k) : k \in Counts \union {0, 1}}
    <2>1. CASE op = "write"
      BY <2>1
    <2>2. CASE op = "read"
      <3>1. <<>> \in Payloads(0)
        BY DEF Payloads
      <3> QED
        BY <2>2, <3>1
    <2> QED
      BY <2>1, <2>2
  <1>2. req = NoReq /\ UNCHANGED <<disk, got, ret, ci>> /\ pc = "idle"
    BY DEF Inv, ReqInv, AtRest, Begin, out, drive
  <1>3. req' = [op |-> op, lba |-> l, count |-> c, data |-> d, via |-> via, stopped |-> ci > 0]
    BY DEF Begin
  <1>4. pc' \in {"direct", "fail", "done", "command"}
    BY DEF Begin
  <1>5. req' # NoReq /\ req'.stopped = (ci > 0) /\ (ci > 0) \in BOOLEAN
    BY <1>3 DEF NoReq
  <1>6. req' \in [op : {"read", "write"}, lba : LBAs, count : Counts \union {1},
                  data : UNION {Payloads(k) : k \in Counts \union {0, 1}},
                  via : {"block", "ms"}, stopped : BOOLEAN]
    BY <1>1, <1>3
  <1> QED
    BY <1>2, <1>4, <1>5, <1>6 DEF Store!Call

(* A sector that SATA writes, also one of a write that fails, is a change   *)
(* the abstract store may make; a sector read is invisible.                 *)
LEMMA ChangeStep ==
    ASSUME Inv, Unfinished, NEW p \in {"done", "data"}, Transfer(p)
    PROVE  (\E l \in Sectors : Store!Change(l)) \/ UNCHANGED Store!vars
  <1> DEFINE l == req.lba + n
  <1>1. req.lba \in Nat /\ n \in Nat /\ Amount \in Nat /\ n < Amount /\ req # NoReq
    BY UnfinishedArgs
  <1>2. UNCHANGED <<req, got, ret>> /\ pc' \in {p, "fail"}
    BY DEF Transfer, End, out
  <1>3. l \in Store!Range(req) /\ l - req.lba + 1 = n + 1
    BY <1>1 DEF Store!Range, Store!Asked, Amount
  <1>4. \/ disk' = disk
        \/ req.op = "write" /\ l \in Sectors /\ disk' = [disk EXCEPT ![l] = req.data[n + 1]]
    BY TransferSteps DEF Stored
  <1>5. /\ pc \notin {"start", "grow", "search", "capacity"}
        /\ pc' \notin {"start", "grow", "search", "capacity"}
    BY <1>2 DEF Unfinished, AtRest
  <1> QED
    BY <1>1, <1>2, <1>3, <1>4, <1>5 DEF Store!Change, Store!vars

LEMMA ReturnStep == Inv /\ Return => Store!Succeed \/ Store!Fail
  <1> SUFFICES ASSUME Inv, Return PROVE Store!Succeed \/ Store!Fail
    OBVIOUS
  <1>0. ~AtRest /\ req' = NoReq /\ UNCHANGED <<disk, ci>> /\ pc \in {"done", "fail"} /\ pc' = "idle"
    BY DEF AtRest, Return, drive
  <1>1. /\ req.lba \in Nat /\ Amount \in Nat /\ req.op \in {"read", "write"}
        /\ n \in Nat /\ req # NoReq /\ req.stopped \in BOOLEAN
    <2>1. req.lba \in LBAs /\ req.count \in Counts \union {1} /\ n \in 0 .. req.count
      BY <1>0 DEF Inv, ReqInv
    <2>2. req.op \in {"read", "write"} /\ req.stopped \in BOOLEAN
      BY <1>0 DEF Inv, ReqInv, StopInv
    <2>3. req # NoReq
      BY <2>2 DEF NoReq
    <2>4. req.lba \in Nat /\ req.count \in Nat
      BY <2>1, ArgsNat
    <2>5. Amount \in Nat
      BY <2>4, AmountType DEF Amount
    <2> QED
      BY <2>1, <2>2, <2>3, <2>4, <2>5
  <1>2. /\ req.stopped => ci > 0
        /\ ci > 0 => req.stopped \/ pc = "fail"
        /\ (ci > 0) \in BOOLEAN
    BY <1>0 DEF Inv, StopInv
  <1>3. CASE pc = "fail"
    <2>1. ret' = -1 /\ UNCHANGED got
      BY <1>3 DEF Return
    <2>2. (ci > 0) \in {req.stopped, TRUE}
      BY <1>1, <1>2
    <2> QED
      BY <1>0, <1>1, <1>3, <2>1, <2>2 DEF Store!Fail
  <1>4. CASE pc = "done"
    <2>0. n = Amount /\ ret' = 0 /\ Amount = Store!Asked(req)
      BY <1>4 DEF Inv, Progress, Return, Amount, Store!Asked
    <2>00. req.stopped = (ci > 0)
      BY <1>1, <1>2, <1>4
    <2>1. CASE ~req.stopped
      <3>1. \A l \in Store!Range(req) : l - req.lba \in 0 .. n - 1 /\ l = req.lba + (l - req.lba)
        BY <1>1, <2>0 DEF Store!Range
      <3>2. Store!Range(req) \subseteq Sectors
        BY <1>0, <2>1, <3>1 DEF Inv, DoneSoFar
      <3>3. ASSUME req.op = "write"
            PROVE  (\A l \in Store!Range(req) : disk[l] = req.data[l - req.lba + 1]) /\ UNCHANGED got
        BY <1>0, <2>1, <3>1, <3>3 DEF Inv, DoneSoFar, Return
      <3>4. ASSUME req.op = "read"
            PROVE  got' = [k \in 1 .. Store!Asked(req) |-> disk[req.lba + k - 1]]
        BY <1>0, <1>4, <2>0, <2>1, <3>4 DEF Inv, DoneSoFar, Return
      <3>5. Store!Done
        BY <1>1, <3>2, <3>3, <3>4 DEF Store!Done
      <3> QED
        BY <1>0, <1>1, <1>4, <2>0, <2>00, <2>1, <3>5 DEF Store!Succeed
    <2>2. CASE req.stopped
      <3>1. IF req.op = "write" THEN UNCHANGED got ELSE got' \in [1 .. Store!Asked(req) -> Data]
        BY <1>0, <1>1, <1>4, <2>0 DEF Return, Inv, ReqInv
      <3> QED
        BY <1>0, <1>1, <1>4, <2>0, <2>00, <2>2, <3>1 DEF Store!Succeed
    <2> QED
      BY <1>1, <2>1, <2>2
  <1> QED
    BY <1>0, <1>3, <1>4

(* A step of start-up: no call is under way, and the port may stop.         *)
LEMMA PrepareStep ==
    ASSUME Inv, pc \in {"start", "grow", "search", "capacity"},
           UNCHANGED <<disk, req, out>>
    PROVE  Store!Prepare
  <1>1. req = NoReq
    BY DEF Inv, ReqInv, AtRest
  <1>2. (ci' > 0) \in BOOLEAN /\ (pc' \notin {"start", "grow", "search", "capacity"}) \in BOOLEAN
    OBVIOUS
  <1> QED
    BY <1>1, <1>2 DEF Store!Prepare, out

LEMMA RefinementStep == Inv /\ [Next]_vars => [Store!Next]_(Store!vars)
  <1> SUFFICES ASSUME Inv, [Next]_vars PROVE Store!Next \/ UNCHANGED Store!vars
    OBVIOUS
  <1>1. ASSUME NEW l \in LBAs, block_read_sector(l) PROVE Store!Call
    BY <1>1, CallStep DEF block_read_sector
  <1>2. ASSUME NEW l \in LBAs, NEW d \in Payloads(1), block_write_sector(l, d) PROVE Store!Call
    BY <1>2, CallStep DEF block_write_sector
  <1>3. ASSUME NEW l \in LBAs, NEW c \in Counts, ms_read_blocks(l, c) PROVE Store!Call
    BY <1>3, CallStep DEF ms_read_blocks
  <1>4. ASSUME NEW l \in LBAs, NEW c \in Counts, NEW d \in Payloads(c), ms_write_blocks(l, c, d)
        PROVE  Store!Call
    BY <1>4, CallStep DEF ms_write_blocks
  <1>5. CASE Direct \/ DataSector
    <2>1. Unfinished
      BY <1>5, DirectUnfinished
    <2> QED
      BY <1>5, <2>1, ChangeStep DEF Direct, DataSector, Store!Next
  <1>6. CASE Return
    BY <1>6, ReturnStep DEF Store!Next
  <1>7. CASE StartPci \/ StartSata \/ SkipMs \/ ms_init
    BY <1>7, PrepareStep DEF StartPci, StartSata, SkipMs, ms_init, AskedForMs, Store!Next
  <1>8. CASE ProbeGrow \/ ProbeLimit \/ ProbeSearch \/ ProbeEnd \/ ReadCapacity
    BY <1>8, PrepareStep DEF ProbeGrow, ProbeLimit, ProbeSearch, ProbeEnd, ReadCapacity, Store!Next
  <1>9. CASE SendCommand \/ MistakenData \/ DataRefused \/ DataEnd \/ StatusPending \/ Status
    <2>1. /\ UNCHANGED <<disk, req, out, ci>> /\ pc \in {"command", "data", "status"}
          /\ pc' \in {"data", "status", "done", "fail"}
      BY <1>9 DEF SendCommand, MistakenData, DataRefused, DataEnd, StatusPending, Status, End, drive
    <2> QED
      BY <2>1 DEF out, Store!vars
  <1>10. CASE UNCHANGED vars
    BY <1>10 DEF vars, out, drive, Store!vars
  <1> QED
    BY <1>1, <1>2, <1>3, <1>4, <1>5, <1>6, <1>7, <1>8, <1>9, <1>10 DEF Next, Store!Next

(* The file systems see a sector store, whichever way a call takes: every   *)
(* step of the drivers is a step of SectorStore or changes nothing of it.   *)
THEOREM Refinement == Spec => IsSectorStore
  <1>1. Init => Store!Init
    <2>1. Init => disk \in [Sectors -> Data]
      BY StorageAssumption DEF Init
    <2> QED
      BY <2>1 DEF Init, Store!Init
  <1> QED
    BY <1>1, Invariance, RefinementStep, PTL DEF Spec, IsSectorStore, Store!Spec
=============================================================================
