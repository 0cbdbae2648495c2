------------------------------- MODULE Storage -------------------------------
(***************************************************************************)
(* The block layer and what is under it: block.c, the mass-storage driver  *)
(* mass_storage.c, the bulk transport of usb_host_xhci.c, which is an      *)
(* emulation that keeps its blocks on the SATA disk, and the order in      *)
(* which the programs start the drivers.                                   *)
(*                                                                         *)
(* A sector operation of sata.c is one step here, with the outcomes it has *)
(* in Sata: done; failed, which stops the port; or reported as done by a   *)
(* port that has stopped.  A controller that leaves a command unanswered   *)
(* while its port runs is Sata's DeviceHangs, and left out.                *)
(* The contents of a sector is a member of Data; Commands are those whose  *)
(* first bytes are the signature of a command block.                       *)
(***************************************************************************)
EXTENDS Xhci

CONSTANTS
    Starts,             \* the sequences of start-up calls of the programs
    DiskSizes,          \* sectors of the disk
    Data, Commands,     \* Commands \subseteq Data
    Blank,              \* what the disk holds at first
    LBAs, Counts,       \* arguments of the calls
    LbaBits, CountBits, \* widths of a command's block number and count, 32 and 16
    NumSlots,           \* command slots of the port, 32
    ProbeStart,         \* the first sector probed, 2^20
    MaxProbes,          \* how often it is doubled, 30
    MaxFaults, MaxCalls

ASSUME StorageAssumption ==
    /\ Commands \subseteq Data /\ Blank \in Data
    /\ DiskSizes \subseteq Nat \ {0} /\ \E m \in DiskSizes : \A k \in DiskSizes : k <= m
    /\ LbaBits \in Nat \ {0} /\ CountBits \in Nat \ {0}
    /\ 2^LbaBits \in Nat \ {0} /\ 2^CountBits \in Nat \ {0, 1}      \* a fact the provers lack
    /\ LBAs \subseteq Nat /\ Counts \subseteq Nat                   \* block.c asks for 1
    /\ NumSlots \in Nat \ {0}
    /\ ProbeStart \in Nat \ {0} /\ MaxProbes \in Nat \ {0}
    /\ MaxFaults \in Nat /\ MaxCalls \in Nat

Sectors == 0 .. (CHOOSE m \in DiskSizes : \A k \in DiskSizes : k <= m) - 1
NoReq   == [op |-> "none", lba |-> 0, count |-> 0, data |-> <<>>, via |-> "none", stopped |-> FALSE]
NoCbw   == [valid |-> FALSE, tag |-> "none", in |-> FALSE, op |-> "none", lba |-> 0, count |-> 0]

VARIABLES
    todo,               \* start-up calls still to be made
    sata,               \* sata_is_present()
    ci,                 \* commands in PORT_CI; a port that holds any has stopped
    size, disk,
    last_lba,           \* usbms.last_lba, 0 for not probed
    cbw, csw,           \* the command of usbms, and its status: a tag or none
    g_present, g_num_blocks,
    pc, req,            \* the call under way; req.stopped observes whether the port
                        \* had stopped before it
    probe, lo, hi, i,   \* probe_sata_last_lba
    blind,              \* observed: the port had stopped before the search
    n, buf,             \* sectors transferred, and the buffer of a read
    got, ret,           \* what the latest read put in the buffer, and call returned
    faults, calls

out    == <<got, ret>>
bulk   == <<last_lba, cbw, csw>>
search == <<probe, lo, hi, i, blind>>
drive  == <<ci, faults>>
vars   == <<xhciVars, todo, sata, size, disk, bulk, g_present, g_num_blocks, pc, req, search,
            n, buf, out, drive, calls>>

Init ==
    /\ XhciInit
    /\ todo \in Starts
    /\ sata = FALSE /\ ci = 0 /\ size \in DiskSizes /\ disk = [l \in Sectors |-> Blank]
    /\ last_lba = 0 /\ cbw = NoCbw /\ csw = "none"
    /\ g_present = FALSE /\ g_num_blocks = 0
    /\ pc = "start" /\ req = NoReq /\ probe = 0 /\ lo = 0 /\ hi = 0 /\ i = 0 /\ blind = FALSE
    /\ n = 0 /\ buf = <<>> /\ got = <<>> /\ ret = 0 /\ faults = 0 /\ calls = 0

-----------------------------------------------------------------------------
(* sata_read_sector and sata_write_sector.  A running port carries the      *)
(* command out, or reports an error, as it does for a sector the disk does  *)
(* not have; the port then stops, and keeps the command.  On a stopped port *)
(* a command occupies one more slot, times out and is reported as done; and *)
(* with no slot left the call fails.                                        *)
Exists(l)   == sata /\ l < size
SectorOk(l) == ci = 0 /\ Exists(l) /\ UNCHANGED drive
SectorFails(l) ==
    \/ /\ ci = 0 /\ ci' = 1
       /\ Exists(l) => faults < MaxFaults
       /\ faults' = faults + (IF Exists(l) THEN 1 ELSE 0)
    \/ ci = NumSlots /\ UNCHANGED drive

Occupied     == IF ci < NumSlots THEN ci + 1 ELSE ci
SectorSilent == ci \in 1 .. NumSlots - 1 /\ ci' = Occupied /\ UNCHANGED faults

(* Start-up: pcie_init, xhci_init, sata_init and ms_init in the order of    *)
(* the program.                                                             *)
Started == todo' = Tail(todo) /\ pc' = IF Len(todo) = 1 THEN "idle" ELSE "start"

StartPci ==
    /\ pc = "start" /\ Head(todo) \in {"pcie", "xhci"} /\ Started
    /\ IF Head(todo) = "pcie" THEN pcie_init ELSE xhci_init
    /\ UNCHANGED <<sata, size, disk, bulk, g_present, g_num_blocks, req, search, n, buf, out,
                   drive, calls>>

(* The disk is there, and its port is started anew, or not.                 *)
StartSata ==
    /\ pc = "start" /\ Head(todo) = "sata" /\ Started
    /\ \/ sata' = TRUE /\ ci' = 0
       \/ UNCHANGED <<sata, ci>>
    /\ UNCHANGED <<xhciVars, size, disk, bulk, g_present, g_num_blocks, req, search, n, buf,
                   out, faults, calls>>

(* kernel_main asks for mass storage only when there is an xHCI controller. *)
SkipMs ==
    /\ pc = "start" /\ Head(todo) = "ms if xhci" /\ ~g_xhci_present /\ Started
    /\ UNCHANGED <<xhciVars, sata, size, disk, bulk, g_present, g_num_blocks, req, search, n,
                   buf, out, drive, calls>>

AskedForMs == pc = "start" /\ \/ Head(todo) = "ms"
                              \/ Head(todo) = "ms if xhci" /\ g_xhci_present

(* Faulty variant: the device is not looked for.                            *)
ms_init_NotFound ==
    /\ AskedForMs /\ usb_host_init
    /\ pc' = "capacity" /\ UNCHANGED <<todo, search>>
    /\ UNCHANGED <<sata, size, disk, bulk, g_present, g_num_blocks, req, n, buf, out, drive,
                   calls>>

(* ms_init and usb_host_find_mass_storage: without a SATA disk there is     *)
(* nothing to emulate with; its size is probed once.                        *)
ms_init ==
    /\ AskedForMs
    /\ IF g_present
       THEN Started /\ UNCHANGED <<xhciVars, search>>
       ELSE /\ usb_host_init
            /\ IF sata
               THEN /\ pc' = IF last_lba = 0 THEN "grow" ELSE "capacity"
                    /\ probe' = ProbeStart /\ lo' = 0 /\ hi' = 0 /\ i' = 0
                    /\ blind' = (ci > 0)
                    /\ UNCHANGED todo
               ELSE Started /\ UNCHANGED search
    /\ UNCHANGED <<sata, size, disk, bulk, g_present, g_num_blocks, req, n, buf, out, drive,
                   calls>>

(* probe_sata_last_lba: the sector is doubled as long as it can be read,    *)
(* then the last one is searched for in between.                            *)
ProbeGrow ==
    /\ pc = "grow" /\ i < MaxProbes
    /\ \/ /\ SectorOk(probe) \/ SectorSilent
          /\ lo' = probe /\ probe' = 2 * probe /\ i' = i + 1 /\ UNCHANGED <<hi, pc>>
       \/ /\ SectorFails(probe)
          /\ hi' = probe - 1 /\ pc' = "search" /\ UNCHANGED <<lo, probe, i>>
    /\ UNCHANGED <<xhciVars, todo, sata, size, disk, bulk, g_present, g_num_blocks, req, blind,
                   n, buf, out, calls>>

ProbeLimit ==
    /\ pc = "grow" /\ i = MaxProbes
    /\ hi' = probe - 1 /\ pc' = "search"
    /\ UNCHANGED <<xhciVars, todo, sata, size, disk, bulk, g_present, g_num_blocks, req, probe,
                   lo, i, blind, n, buf, out, drive, calls>>

(* Faulty variant: the interval starts one too high.                        *)
Lower_Next(mid) == mid + 1
Lower(mid)      == mid

ProbeSearch ==
    /\ pc = "search" /\ lo # 0 /\ lo < hi
    /\ LET mid == lo + (hi - lo + 1) \div 2
       IN  \/ (SectorOk(mid) \/ SectorSilent) /\ lo' = Lower(mid) /\ UNCHANGED hi
           \/ SectorFails(mid) /\ hi' = mid - 1 /\ UNCHANGED lo
    /\ UNCHANGED <<xhciVars, todo, sata, size, disk, bulk, g_present, g_num_blocks, pc, req,
                   probe, i, blind, n, buf, out, calls>>

(* When the very first read fails there is no size, whatever a read of      *)
(* sector 0 on the port stopped by then says, and ms_init fails.            *)
ProbeEnd ==
    /\ pc = "search" /\ (lo = 0 \/ lo >= hi)
    /\ last_lba' = lo
    /\ IF lo = 0 THEN Started /\ ci' = Occupied ELSE pc' = "capacity" /\ UNCHANGED <<todo, ci>>
    /\ UNCHANGED <<xhciVars, sata, size, disk, cbw, csw, g_present, g_num_blocks, req, search,
                   n, buf, out, faults, calls>>

(* READ CAPACITY, with command, data and status in order; the last block    *)
(* number is cut to its width.                                              *)
ReadCapacity ==
    /\ pc = "capacity" /\ Started
    /\ cbw' = [NoCbw EXCEPT !.tag = "init", !.in = TRUE, !.op = "capacity"] /\ csw' = "none"
    /\ g_num_blocks' = (last_lba % 2^LbaBits) + 1 /\ g_present' = TRUE
    /\ UNCHANGED <<xhciVars, sata, size, disk, last_lba, req, search, n, buf, out, drive, calls>>

-----------------------------------------------------------------------------
(* Calls: block_read_sector, block_write_sector (via "block", one sector),  *)
(* ms_read_blocks, ms_write_blocks.                                         *)
Payloads(c) == [1 .. c -> Data]

Begin(via, op, l, c, d) ==
    /\ pc = "idle" /\ calls < MaxCalls
    /\ calls' = calls + 1
    /\ req' = [op |-> op, lba |-> l, count |-> c, data |-> d, via |-> via,
               stopped |-> ci > 0]
    /\ pc' = IF via = "block" /\ sata THEN "direct"
             ELSE IF ~g_present        THEN "fail"
             ELSE IF c = 0             THEN "done"
             ELSE IF l >= 2^LbaBits    THEN "fail"
             ELSE "command"
    /\ n' = 0 /\ buf' = <<>>
    /\ UNCHANGED <<xhciVars, todo, sata, size, disk, bulk, g_present, g_num_blocks, search, out,
                   drive>>

block_read_sector(l)     == Begin("block", "read", l, 1, <<>>)
block_write_sector(l, d) == Begin("block", "write", l, 1, d)
ms_read_blocks(l, c)     == Begin("ms", "read", l, c, <<>>)
ms_write_blocks(l, c, d) == Begin("ms", "write", l, c, d)

End(p) ==
    /\ pc' = p
    /\ UNCHANGED <<xhciVars, todo, sata, size, g_present, g_num_blocks, search, calls, req, out>>

(* One sector of the request: SATA does it; or fails, and a failed write    *)
(* may have changed the sector; or says it did, and the buffer of a read    *)
(* keeps what it held.                                                      *)
Stored(l, d) == [disk EXCEPT ![l] = d]

Transfer(next) ==
    LET l == req.lba + n
    IN  \/ /\ SectorOk(l) /\ n' = n + 1
           /\ disk' = IF req.op = "write" THEN Stored(l, req.data[n + 1]) ELSE disk
           /\ buf' = IF req.op = "read" THEN Append(buf, disk[l]) ELSE buf
           /\ End(next)
        \/ /\ SectorFails(l) /\ UNCHANGED <<n, buf>> /\ End("fail")
           /\ disk' \in {disk} \union
                        IF req.op = "write" /\ l < size THEN {Stored(l, req.data[n + 1])} ELSE {}
        \/ /\ SectorSilent /\ n' = n + 1 /\ UNCHANGED disk
           /\ IF req.op = "read" THEN \E d \in Data : buf' = Append(buf, d) ELSE UNCHANGED buf
           /\ End(next)

Direct == pc = "direct" /\ Transfer("done") /\ UNCHANGED bulk

(* send_cbw, and usb_host_bulk_out, which knows a command by its signature  *)
(* and forgets a status nobody fetched.                                     *)
(* Faulty variant: an old status stays.                                     *)
NewCommand_KeepsStatus(c) == cbw' = c /\ UNCHANGED csw

NewCommand(c) == cbw' = c /\ csw' = "none"

SendCommand ==
    /\ pc = "command"
    /\ NewCommand([valid |-> TRUE, tag |-> req.op, in |-> req.op = "read", op |-> req.op,
                   lba |-> req.lba, count |-> req.count % 2^CountBits])
    /\ UNCHANGED <<last_lba, disk, n, buf, drive>>
    /\ End("data")

(* The data phase of a write whose first bytes look like a command: it is   *)
(* taken for one, with whatever fields it has, and nothing is written.      *)
Lookalikes == [valid : {TRUE}, tag : {"read", "write"}, in : BOOLEAN,
               op : {"read", "write", "capacity", "other"}, lba : {0}, count : {0, 1}]

MistakenData ==
    /\ pc = "data" /\ req.op = "write" /\ req.data[1] \in Commands
    /\ \E c \in Lookalikes : NewCommand(c)
    /\ UNCHANGED <<last_lba, disk, n, buf, drive>>
    /\ End("status")

(* The sectors of READ(10), WRITE(10), by way of block.c, which goes to     *)
(* SATA; a block number with its top bit set is not read.                   *)
Readable == req.op = "read" => req.lba < 2^(LbaBits - 1)

DataSector ==
    /\ pc = "data" /\ Readable /\ n < cbw.count
    /\ req.op = "write" => req.data[1] \notin Commands
    /\ Transfer("data")
    /\ UNCHANGED bulk

DataRefused ==
    /\ pc = "data" /\ ~Readable /\ End("fail")
    /\ UNCHANGED <<bulk, disk, n, buf, drive>>

DataEnd ==
    /\ pc = "data" /\ Readable /\ n = cbw.count
    /\ req.op = "write" => req.data[1] \notin Commands
    /\ cbw' = [cbw EXCEPT !.valid = FALSE] /\ csw' = cbw.tag
    /\ UNCHANGED <<last_lba, disk, n, buf, drive>>
    /\ End("status")

(* recv_csw: a command that is still waiting for its data is answered       *)
(* first, and that is no status; else the status must carry the call's tag. *)
Pending == cbw.valid /\ cbw.in /\ cbw.op \in {"read", "capacity"}

StatusPending ==
    /\ pc = "status" /\ Pending /\ End("fail")
    /\ IF cbw.op = "capacity" \/ cbw.count = 0
       THEN cbw' = [cbw EXCEPT !.valid = FALSE] /\ csw' = cbw.tag
       ELSE UNCHANGED <<cbw, csw>>
    /\ UNCHANGED <<last_lba, disk, n, buf, drive>>

Status ==
    /\ pc = "status" /\ ~Pending
    /\ End(IF csw = req.op THEN "done" ELSE "fail")
    /\ csw' = "none"
    /\ UNCHANGED <<last_lba, cbw, disk, n, buf, drive>>

Return ==
    /\ pc \in {"done", "fail"}
    /\ got' = IF pc = "done" /\ req.op = "read" THEN buf ELSE got
    /\ ret' = IF pc = "done" THEN 0 ELSE -1
    /\ pc' = "idle" /\ req' = NoReq /\ n' = 0 /\ buf' = <<>>
    /\ UNCHANGED <<xhciVars, todo, sata, size, disk, bulk, g_present, g_num_blocks, search,
                   drive, calls>>

-----------------------------------------------------------------------------
Next ==
    \/ StartPci \/ StartSata \/ SkipMs \/ ms_init
    \/ ProbeGrow \/ ProbeLimit \/ ProbeSearch \/ ProbeEnd \/ ReadCapacity
    \/ \E l \in LBAs : block_read_sector(l)
    \/ \E l \in LBAs, d \in Payloads(1) : block_write_sector(l, d)
    \/ \E l \in LBAs, c \in Counts : ms_read_blocks(l, c)
    \/ \E l \in LBAs, c \in Counts : \E d \in Payloads(c) : ms_write_blocks(l, c, d)
    \/ Direct \/ SendCommand \/ MistakenData \/ DataSector \/ DataRefused \/ DataEnd
    \/ StatusPending \/ Status \/ Return

Spec == Init /\ [][Next]_vars

-----------------------------------------------------------------------------
(* Properties.                                                              *)

(* The drivers' state has its type; in particular pcie.c's table is not     *)
(* overrun, and no call transfers more sectors than it was asked for.       *)
TypeOK ==
    /\ g_xhci_mmio \in 0 .. Len(machine) /\ halted \in BOOLEAN
    /\ g_devices \subseteq Functions /\ Cardinality(g_devices) <= PCIE_MAX_DEVICES
    /\ disk \in [Sectors -> Data]
    /\ csw \in {"none", "read", "write", "init"}
    /\ g_num_blocks \in 0 .. 2^LbaBits
    /\ n \in 0 .. req.count /\ Len(buf) <= n
    /\ ci \in 0 .. NumSlots /\ faults \in 0 .. MaxFaults

(* Mass storage is never there without the SATA disk that backs it: block.c *)
(* would call mass_storage.c for a sector, that the bulk transport, and     *)
(* that block.c again, without end (block.c:29-42, usb_host_xhci.c:153,     *)
(* 225).                                                                    *)
BackedBySata == g_present => sata

(* What the search for the last sector can be trusted for: on a port that   *)
(* runs, the capacity is less than twice the size of the disk.  Not more:   *)
(* the read beyond the end with which the doubling ends stops the port,     *)
(* every read of the search is then reported as done, and the search ends   *)
(* just below the sector that failed (usb_host_xhci.c:72-93), while its     *)
(* comment has it return the last sector.                                   *)
CapacityWithin == g_present /\ ~blind => g_num_blocks \in 1 .. 2 * (size - 1)

(* The file systems see the sector store of SectorStore, whichever of the   *)
(* two ways a call takes: until a disk error is reported, a call that       *)
(* returns 0 has transferred everything, and the call the error strikes     *)
(* returns -1; at any time only sectors of the write under way change, to   *)
(* its data.  So also after calls that failed in the middle of a command,   *)
(* and for data that looks like a command.                                  *)
Store == INSTANCE SectorStore WITH
            Sectors   <- Sectors,
            Limit     <- 2^CountBits,
            Requests  <- [op : {"read", "write"}, lba : LBAs, count : Counts \union {1},
                          data : UNION {Payloads(c) : c \in Counts \union {0, 1}},
                          via : {"block", "ms"}, stopped : BOOLEAN],
            NoRequest <- NoReq,
            up        <- pc \notin {"start", "grow", "search", "capacity"},
            failed    <- IF req = NoReq THEN ci > 0 ELSE req.stopped

IsSectorStore == Store!Spec
=============================================================================
