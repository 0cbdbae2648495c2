-------------------------------- MODULE Sata --------------------------------
(***************************************************************************)
(* The AHCI driver, drivers/sata/sata.c: one command at a time, issued in  *)
(* a command slot and waited for by polling PORT_CI, with at most          *)
(* AHCI_WRITE_MAX_ATTEMPTS attempts for a write.                           *)
(*                                                                         *)
(* The controller runs concurrently with the driver: it completes or fails *)
(* any issued command at any moment, or leaves it pending for ever.  It is *)
(* external; the facts about it that the driver relies on are that PORT_CI *)
(* loses a bit when that command completes, that a task file error halts   *)
(* the port with its PORT_CI bits still set, and that clearing PORT_CMD.ST *)
(* (ahci_port_stop) drops all commands and lifts the halt.                 *)
(*                                                                         *)
(* Abstractions: sectors and their contents are small sets; the wait for   *)
(* an idle task file before a command, which only delays, is left out.     *)
(***************************************************************************)
EXTENDS Integers, FiniteSets

CONSTANTS
    NumSlots,       \* command slots of the port (32 in the code)
    LBAs, Data,     \* sectors and sector contents
    NoData,         \* the content of a buffer nothing has been read into
    MaxAttempts,    \* AHCI_WRITE_MAX_ATTEMPTS
    DeviceHangs     \* may a running controller leave a command pending?

ASSUME SataAssumption ==
    /\ NumSlots \in Nat \ {0}
    /\ MaxAttempts \in Nat \ {0}
    /\ NoData \notin Data
    /\ DeviceHangs \in BOOLEAN

Slots == 0 .. NumSlots - 1
Ops   == {"read", "write", "identify", "flush"}
NoCmd == [op |-> "none"]

VARIABLES
    ahci_initialized,
    (* The controller, as its registers show it. *)
    ci,        \* PORT_CI
    tfes,      \* PORT_IS.TFES
    halted,    \* the port stopped on an error and waits for ST to be cleared
    table,     \* the command header and table of each slot
    disk,
    (* The call under way. *)
    pc,        \* "idle", "build", "wait", "check"
    slot, attempt,
    op, lba, data,   \* its arguments; for a read, data is the buffer
    ret,       \* what the latest call returned
    (* Observations; the driver does not keep them. *)
    done,      \* the command of the current attempt was completed
    doubt,     \* a wait has ended with neither completion nor error reported
    acked      \* the contents each sector may have, going by what the calls
               \* returned: the last one written with success, and those
               \* written without since

hba   == <<ci, tfes, halted, table, disk>>
call  == <<slot, attempt, op, lba, data>>
vars  == <<ahci_initialized, hba, pc, call, ret, done, doubt, acked>>

Init ==
    /\ ahci_initialized = FALSE
    /\ ci = {} /\ tfes = FALSE /\ halted = FALSE
    /\ table = [s \in Slots |-> NoCmd]
    /\ disk \in [LBAs -> Data]
    /\ pc = "idle" /\ slot = 0 /\ attempt = 0
    /\ op = "none" /\ lba = 0 /\ data = NoData /\ ret = 0
    /\ done = FALSE /\ doubt = FALSE
    /\ acked = [l \in LBAs |-> {disk[l]}]

-----------------------------------------------------------------------------
(* The controller.                                                          *)

(* The command in slot s takes effect: a write on the disk, a read in the   *)
(* buffer it was given, which is this call's only if this call issued it.   *)
Current(s) == pc \in {"wait", "check"} /\ s = slot

Transfer(s) ==
    /\ disk' = IF table[s].op = "write"
               THEN [disk EXCEPT ![table[s].lba] = table[s].data] ELSE disk
    /\ data' = IF table[s].op = "read" /\ Current(s)
               THEN disk[table[s].lba] ELSE data

HbaComplete(s) ==
    /\ s \in ci /\ ~halted
    /\ ci' = ci \ {s}
    /\ Transfer(s)
    /\ done' = (done \/ Current(s))
    /\ UNCHANGED <<ahci_initialized, tfes, halted, table, pc, slot, attempt, op, lba, ret, doubt, acked>>

(* A task file error; the data may or may not have been transferred.        *)
HbaError(s) ==
    /\ s \in ci /\ ~halted
    /\ tfes' = TRUE
    /\ halted' = TRUE
    /\ Transfer(s) \/ UNCHANGED <<disk, data>>
    /\ UNCHANGED <<ahci_initialized, ci, table, pc, slot, attempt, op, lba, ret, done, doubt, acked>>

-----------------------------------------------------------------------------
(* The driver.                                                              *)

(* Faulty variant: the error bits are cleared but the port is not stopped.  *)
ahci_port_init_NoStop ==
    /\ ci' = ci
    /\ halted' = FALSE
    /\ tfes' = FALSE

(* ahci_port_init: stop the port, clear the error and interrupt bits, start *)
(* it again.                                                                *)
ahci_port_init ==
    /\ ci' = {}
    /\ halted' = FALSE
    /\ tfes' = FALSE

(* sata_init, which finds a controller with a device on a port, or does not. *)
sata_init(found) ==
    /\ pc = "idle"
    /\ ahci_initialized' = (ahci_initialized \/ found)
    /\ IF found THEN ahci_port_init ELSE UNCHANGED <<ci, tfes, halted>>
    /\ ret' = IF found THEN 0 ELSE -1
    /\ UNCHANGED <<table, disk, pc, call, done, doubt, acked>>

Return(r) ==
    /\ pc' = "idle"
    /\ ret' = r
    /\ slot' = 0 /\ attempt' = 0 /\ op' = "none" /\ lba' = 0 /\ data' = NoData
    /\ done' = FALSE

(* ahci_find_free_slot: the lowest slot the controller has no command in.   *)
FreeSlots == Slots \ ci
ahci_find_free_slot == CHOOSE s \in FreeSlots : \A t \in FreeSlots : s <= t

(* sata_read_sector, sata_write_sector, sata_get_num_blocks and             *)
(* sata_flush_cache up to the slot they get.                                *)
Begin(o, l, d) ==
    /\ pc = "idle"
    /\ ahci_initialized /\ FreeSlots # {}
    /\ pc' = "build"
    /\ slot' = ahci_find_free_slot
    /\ attempt' = 1
    /\ op' = o /\ lba' = l /\ data' = d
    /\ UNCHANGED <<ahci_initialized, hba, ret, done, doubt, acked>>

(* Their early returns: not initialised, or every slot is occupied.         *)
Refuse ==
    /\ pc = "idle"
    /\ ~ahci_initialized \/ FreeSlots = {}
    /\ ret' = -1
    /\ UNCHANGED <<ahci_initialized, hba, pc, call, done, doubt, acked>>

(* ahci_build_cmd: every field of the slot's header and table is rewritten. *)
Build == [table EXCEPT ![slot] = [op |-> op, lba |-> lba, data |-> data]]

(* Faulty variant: the buffer address is only filled in the first time.     *)
ahci_build_cmd_KeepsBuffer ==
    IF table[slot].op = op /\ table[slot].lba = lba THEN table ELSE Build

ahci_build_cmd == Build

(* ahci_build_cmd and the first two lines of ahci_issue_and_wait.           *)
Issue ==
    /\ pc = "build"
    /\ table' = ahci_build_cmd
    /\ tfes' = FALSE
    /\ ci' = ci \union {slot}
    /\ pc' = "wait"
    /\ done' = FALSE
    /\ UNCHANGED <<ahci_initialized, halted, disk, call, ret, doubt, acked>>

(* The polling loop of ahci_issue_and_wait ends: PORT_CI has lost the bit,  *)
(* or AHCI_CMD_TIMEOUT polls have passed.                                   *)
PollCleared ==
    /\ pc = "wait"
    /\ slot \notin ci
    /\ pc' = "check"
    /\ UNCHANGED <<ahci_initialized, hba, call, ret, done, doubt, acked>>

PollTimeout ==
    /\ pc = "wait"
    /\ slot \in ci
    /\ DeviceHangs \/ halted
    /\ pc' = "check"
    /\ UNCHANGED <<ahci_initialized, hba, call, ret, done, doubt, acked>>

(* ahci_issue_and_wait's return value: 0 unless PORT_IS shows an error.     *)
Succeeded == ~tfes

(* What a call makes of a success.  sata_get_num_blocks fails when the      *)
(* sector count it finds is zero: the device says so, or has put nothing in *)
(* the zeroed buffer.                                                       *)
Results ==
    CASE op # "identify"         -> {0}
      [] op = "identify" /\ done  -> {0, -1}
      [] op = "identify" /\ ~done -> {-1}

CheckSuccess ==
    /\ pc = "check"
    /\ Succeeded
    /\ \E r \in Results : Return(r)
    /\ doubt' = (doubt \/ slot \in ci)
    /\ acked' = IF op = "write" THEN [acked EXCEPT ![lba] = {data}] ELSE acked
    /\ UNCHANGED <<ahci_initialized, hba>>

(* Faulty variant: one attempt too many.                                    *)
MayRetry_OneMore == op = "write" /\ attempt <= MaxAttempts

MayRetry == op = "write" /\ attempt < MaxAttempts

(* Faulty variant: the attempts are not counted.                            *)
CheckRetry_NotCounted ==
    /\ pc = "check"
    /\ ~Succeeded
    /\ MayRetry
    /\ ahci_port_init
    /\ pc' = "build"
    /\ UNCHANGED <<ahci_initialized, table, disk, call, ret, done, doubt, acked>>

(* An error is cleared; sata_write_sector resets the port and tries again   *)
(* in the same slot.                                                        *)
CheckRetry ==
    /\ pc = "check"
    /\ ~Succeeded
    /\ MayRetry
    /\ ahci_port_init
    /\ attempt' = attempt + 1
    /\ pc' = "build"
    /\ UNCHANGED <<ahci_initialized, table, disk, slot, op, lba, data, ret, done, doubt, acked>>

(* Otherwise the call fails; the port is left as it is.                     *)
CheckFail ==
    /\ pc = "check"
    /\ ~Succeeded
    /\ ~MayRetry
    /\ tfes' = FALSE
    /\ Return(-1)
    /\ acked' = IF op = "write" THEN [acked EXCEPT ![lba] = @ \union {data}] ELSE acked
    /\ UNCHANGED <<ahci_initialized, ci, halted, table, disk, doubt>>

Driver == Issue \/ PollCleared \/ PollTimeout \/ CheckSuccess \/ CheckRetry \/ CheckFail

Next ==
    \/ \E s \in Slots : HbaComplete(s) \/ HbaError(s)
    \/ \E found \in BOOLEAN : sata_init(found)
    \/ \E l \in LBAs : Begin("read", l, NoData)
    \/ \E l \in LBAs, d \in Data : Begin("write", l, d)
    \/ Begin("identify", 0, NoData)
    \/ Begin("flush", 0, NoData)
    \/ Refuse
    \/ Driver

Spec == Init /\ [][Next]_vars

(* The driver's polling loops are bounded and it runs on; nothing is        *)
(* assumed of the controller.                                               *)
FairSpec == Spec /\ WF_vars(Driver)

-----------------------------------------------------------------------------
Commands == {NoCmd} \union [op : Ops, lba : LBAs \union {0}, data : Data \union {NoData}]

TypeOK ==
    /\ ahci_initialized \in BOOLEAN
    /\ ci \subseteq Slots
    /\ tfes \in BOOLEAN /\ halted \in BOOLEAN
    /\ table \in [Slots -> Commands]
    /\ disk \in [LBAs -> Data]
    /\ pc \in {"idle", "build", "wait", "check"}
    /\ slot \in Slots
    /\ attempt \in 0 .. MaxAttempts
    /\ op \in Ops \union {"none"}
    /\ lba \in LBAs \union {0}
    /\ data \in Data \union {NoData}
    /\ ret \in {0, -1}
    /\ done \in BOOLEAN /\ doubt \in BOOLEAN
    /\ acked \in [LBAs -> SUBSET Data]

(* ahci_build_cmd rewrites the header and table of a slot: the controller   *)
(* must not have a command in it, on the first attempt and on every retry   *)
(* of a write, which reuses the slot.                                       *)
NoRebuildInFlight == pc = "build" => slot \notin ci

(* A call has returned, or has been given another slot, while the           *)
(* controller may still execute its command: it would transfer into a       *)
(* buffer that is no longer the driver's, or put old data on the disk.      *)
(* That is possible only once a wait has ended with neither a completion    *)
(* nor an error.                                                            *)
NothingAbandoned == ~doubt => \A s \in ci : Current(s) \/ halted

(* As long as that has not happened, the disk holds what the return values  *)
(* of sata_write_sector say, and a read that is about to return 0 has it in *)
(* its buffer.                                                              *)
AckedOnDisk ==
    ~doubt =>
        /\ pc = "idle" => \A l \in LBAs : disk[l] \in acked[l]
        /\ pc = "check" /\ op = "read" /\ Succeeded /\ slot \notin ci => data \in acked[lba]

(* The comment on ahci_issue_and_wait: it returns "0 on success, -1 on Task *)
(* File Error or timeout".                                                  *)
SuccessMeansDone == pc = "check" /\ Succeeded => done

(* Every call returns, whatever the controller does.                        *)
CallsReturn == pc # "idle" ~> pc = "idle"
=============================================================================
