----------------------------- MODULE SataProofs -----------------------------
(***************************************************************************)
(* Proofs about Sata, for every number of slots, every set of sectors and  *)
(* contents, and whatever the controller does.                             *)
(***************************************************************************)
EXTENDS Sata, WellFoundedInduction, TLAPS

(* A non-empty set of naturals has a least element.                         *)
LEMMA Least ==
    ASSUME NEW S, S \subseteq Nat, S # {}
    PROVE  \E x \in S : \A y \in S : x <= y
  <1>1. IsWellFoundedOn(OpToRel(<, Nat), Nat)
    BY NatLessThanWellFounded
  <1>2. IsWellFoundedOn({p \in Nat \X Nat : p[1] < p[2]}, Nat)
    BY <1>1 DEF OpToRel
  <1>3. PICK x \in S : \A y \in S : ~(<<y, x>> \in {p \in Nat \X Nat : p[1] < p[2]})
    BY <1>2, WFMin
  <1>4. \A y \in S : ~(y < x)
    BY <1>3
  <1> QED
    BY <1>4

(* What ahci_build_cmd puts in a slot: a read or a write names a sector, a  *)
(* write carries what is to be written.                                     *)
ValidCmd(c) ==
    /\ c \in [op : Ops, lba : LBAs \union {0}, data : Data \union {NoData}]
    /\ c.op \in {"read", "write"} => c.lba \in LBAs
    /\ c.op = "write" => c.data \in Data

Issued == pc \in {"wait", "check"}

(* The arguments of the call under way, and the commands issued, are valid. *)
ArgsValid ==
    /\ pc # "idle" => ValidCmd([op |-> op, lba |-> lba, data |-> data])
    /\ \A s \in ci : ValidCmd(table[s])

(* The table of the slot is that of the call under way.                     *)
TableOfCall ==
    Issued => /\ table[slot].op = op /\ table[slot].lba = lba
              /\ op = "write" => table[slot].data = data

(* A port with an error reported stands still until it is reset.            *)
ErrorHalts == tfes => halted

(* While a write is under way its sector may already hold the new contents; *)
(* every other sector holds what the calls that returned say.               *)
DiskKnown ==
    ~doubt => \A l \in LBAs :
                disk[l] \in acked[l] \union
                            IF pc # "idle" /\ op = "write" /\ l = lba THEN {data} ELSE {}

(* A command that the controller has taken out of PORT_CI has been done.    *)
ClearedDone ==
    ~doubt /\ Issued /\ slot \notin ci =>
        /\ op = "write" => disk[lba] = data
        /\ op = "read" => data = disk[lba]

Inv ==
    /\ TypeOK
    /\ NoRebuildInFlight
    /\ NothingAbandoned
    /\ ArgsValid
    /\ TableOfCall
    /\ ErrorHalts
    /\ DiskKnown
    /\ ClearedDone

(* ahci_find_free_slot returns a free slot when there is one.               *)
LEMMA FreeSlotIsFree == FreeSlots # {} => ahci_find_free_slot \in FreeSlots
  <1>1. FreeSlots \subseteq Nat
    BY SataAssumption DEF FreeSlots, Slots
  <1>2. FreeSlots # {} => \E s \in FreeSlots : \A t \in FreeSlots : s <= t
    BY <1>1, Least
  <1> QED
    BY <1>2 DEF ahci_find_free_slot

LEMMA InvInit == Init => Inv
  <1> SUFFICES ASSUME Init PROVE Inv
    OBVIOUS
  <1>1. 0 \in Slots /\ 0 \in 0 .. MaxAttempts
    BY SataAssumption DEF Slots
  <1>2. TypeOK
    BY <1>1 DEF Init, TypeOK, Commands
  <1>3. DiskKnown
    BY DEF Init, DiskKnown
  <1> QED
    BY <1>2, <1>3 DEF Init, Inv, NoRebuildInFlight, NothingAbandoned, ArgsValid,
                      TableOfCall, Issued, ErrorHalts, ClearedDone

(* What a completed or failed command can do to the disk and the buffer.    *)
LEMMA TransferType ==
    ASSUME Inv, NEW s \in ci, Transfer(s) \/ UNCHANGED <<disk, data>>
    PROVE  disk' \in [LBAs -> Data] /\ data' \in Data \union {NoData}
  BY DEF Inv, TypeOK, ArgsValid, ValidCmd, Transfer

(* As long as nothing was abandoned, only the command of the call under way *)
(* takes effect, and on no other sector than the call's.                    *)
LEMMA TransferOfCall ==
    ASSUME Inv, ~doubt, ~halted, NEW s \in ci, Transfer(s)
    PROVE  /\ Issued /\ s = slot
           /\ op = "write" => lba \in LBAs /\ disk' = [disk EXCEPT ![lba] = data] /\ data' = data
           /\ op = "read"  => lba \in LBAs /\ disk' = disk /\ data' = disk[lba]
           /\ op \notin {"read", "write"} => disk' = disk /\ data' = data
  <1>1. Current(s)
    BY DEF Inv, NothingAbandoned
  <1>2. Issued /\ s = slot
    BY <1>1 DEF Current, Issued
  <1>3. table[s].op = op /\ table[s].lba = lba /\ (op = "write" => table[s].data = data)
    BY <1>2 DEF Inv, TableOfCall
  <1>4. op \in {"read", "write"} => lba \in LBAs
    BY <1>3 DEF Inv, ArgsValid, ValidCmd
  <1> QED
    BY <1>1, <1>2, <1>3, <1>4 DEF Transfer

LEMMA HbaCompleteInv ==
    ASSUME Inv, NEW s \in Slots, HbaComplete(s)
    PROVE  Inv'
  <1> USE DEF Inv, HbaComplete
  <1>1. TypeOK'
    BY TransferType DEF TypeOK, Current
  <1>2. NoRebuildInFlight'
    BY DEF NoRebuildInFlight
  <1>3. NothingAbandoned'
    BY DEF NothingAbandoned, Current
  <1>4. ArgsValid'
    BY <1>1 DEF ArgsValid, ValidCmd, Transfer, Current, TypeOK
  <1>5. TableOfCall'
    BY DEF TableOfCall, Issued, Transfer, Current
  <1>6. ErrorHalts'
    BY DEF ErrorHalts
  <1>7. DiskKnown'
    BY TransferOfCall DEF DiskKnown, TypeOK, Issued
  <1>8. ClearedDone'
    BY TransferOfCall DEF ClearedDone, TypeOK, Issued
  <1> QED
    BY <1>1, <1>2, <1>3, <1>4, <1>5, <1>6, <1>7, <1>8

LEMMA HbaErrorInv ==
    ASSUME Inv, NEW s \in Slots, HbaError(s)
    PROVE  Inv'
  <1> USE DEF Inv, HbaError
  <1>1. TypeOK'
    BY TransferType DEF TypeOK
  <1>2. NoRebuildInFlight'
    BY DEF NoRebuildInFlight
  <1>3. NothingAbandoned'
    BY DEF NothingAbandoned
  <1>4. ArgsValid'
    BY <1>1 DEF ArgsValid, ValidCmd, Transfer, Current, TypeOK
  <1>5. TableOfCall'
    BY DEF TableOfCall, Issued, Transfer, Current
  <1>6. ErrorHalts'
    BY DEF ErrorHalts
  <1>7. DiskKnown'
    BY TransferOfCall DEF DiskKnown, TypeOK, Issued
  <1>8. ClearedDone'
    BY TransferOfCall DEF ClearedDone, TypeOK, Issued
  <1> QED
    BY <1>1, <1>2, <1>3, <1>4, <1>5, <1>6, <1>7, <1>8

(* The driver's own steps.  The ones that leave the disk and the buffer     *)
(* alone disturb few of the conjuncts.                                      *)
LEMMA InitInv ==
    ASSUME Inv, NEW found \in BOOLEAN, sata_init(found)
    PROVE  Inv'
  BY DEF Inv, sata_init, ahci_port_init, call, TypeOK, NoRebuildInFlight, NothingAbandoned,
         ArgsValid, ValidCmd, TableOfCall, Issued, ErrorHalts, DiskKnown, ClearedDone, Current

LEMMA BeginInv ==
    ASSUME Inv, NEW o, NEW l, NEW d, ValidCmd([op |-> o, lba |-> l, data |-> d]),
           Begin(o, l, d)
    PROVE  Inv'
  <1> USE DEF Inv, Begin, hba
  <1>1. slot' \in Slots /\ slot' \notin ci
    BY FreeSlotIsFree DEF FreeSlots
  <1>2. o \in Ops /\ l \in LBAs \union {0} /\ d \in Data \union {NoData}
    BY DEF ValidCmd
  <1>3. TypeOK'
    BY <1>1, <1>2, SataAssumption DEF TypeOK
  <1>4. ArgsValid'
    BY DEF ArgsValid
  <1>5. DiskKnown'
    BY DEF DiskKnown
  <1> QED
    BY <1>1, <1>3, <1>4, <1>5 DEF NoRebuildInFlight, NothingAbandoned, Current, TableOfCall,
                                  Issued, ErrorHalts, ClearedDone

LEMMA IssueInv == Inv /\ Issue => Inv'
  <1> SUFFICES ASSUME Inv, Issue PROVE Inv'
    OBVIOUS
  <1> USE DEF Inv, Issue, call
  <1>0. /\ ValidCmd([op |-> op, lba |-> lba, data |-> data])
        /\ table' = [table EXCEPT ![slot] = [op |-> op, lba |-> lba, data |-> data]]
    BY DEF ArgsValid, ahci_build_cmd, Build
  <1>1. TypeOK'
    BY <1>0 DEF TypeOK, ValidCmd, Commands
  <1>2. NothingAbandoned'
    BY DEF NothingAbandoned, Current
  <1>3. ArgsValid'
    BY <1>0 DEF ArgsValid, TypeOK
  <1>4. TableOfCall'
    BY <1>0 DEF TableOfCall, TypeOK
  <1>5. DiskKnown' /\ ClearedDone'
    BY DEF DiskKnown, ClearedDone
  <1> QED
    BY <1>1, <1>2, <1>3, <1>4, <1>5 DEF NoRebuildInFlight, ErrorHalts

LEMMA PollInv == Inv /\ (PollCleared \/ PollTimeout) => Inv'
  BY DEF Inv, PollCleared, PollTimeout, hba, call, TypeOK, NoRebuildInFlight, NothingAbandoned,
         ArgsValid, ValidCmd, TableOfCall, Issued, ErrorHalts, DiskKnown, ClearedDone, Current

LEMMA CheckSuccessInv == Inv /\ CheckSuccess => Inv'
  <1> SUFFICES ASSUME Inv, CheckSuccess PROVE Inv'
    OBVIOUS
  <1> USE DEF Inv, CheckSuccess, Return, hba
  <1>r. ret' \in {0, -1}
    BY DEF Results
  <1>0. op = "write" => lba \in LBAs /\ data \in Data
    BY DEF ArgsValid, ValidCmd
  <1>1. TypeOK'
    <2>1. slot' \in Slots /\ attempt' \in 0 .. MaxAttempts
      BY SataAssumption DEF Slots
    <2>2. acked' \in [LBAs -> SUBSET Data]
      BY <1>0 DEF TypeOK
    <2> QED
      BY <1>r, <2>1, <2>2 DEF TypeOK
  <1>2. NothingAbandoned'
    BY DEF NothingAbandoned, Current
  <1>3. ArgsValid'
    BY DEF ArgsValid
  <1>4. DiskKnown'
    BY <1>0 DEF DiskKnown, ClearedDone, Issued, TypeOK
  <1> QED
    BY <1>1, <1>2, <1>3, <1>4 DEF NoRebuildInFlight, TableOfCall, Issued, ErrorHalts,
                                  ClearedDone

LEMMA CheckRetryInv == Inv /\ CheckRetry => Inv'
  <1> SUFFICES ASSUME Inv, CheckRetry PROVE Inv'
    OBVIOUS
  <1> USE DEF Inv, CheckRetry, ahci_port_init
  <1>1. TypeOK'
    <2>1. attempt' \in 0 .. MaxAttempts
      BY SataAssumption DEF TypeOK, MayRetry
    <2> QED
      BY <2>1 DEF TypeOK
  <1>2. ArgsValid'
    BY DEF ArgsValid, ValidCmd
  <1>3. DiskKnown'
    BY DEF DiskKnown
  <1> QED
    BY <1>1, <1>2, <1>3 DEF NoRebuildInFlight, NothingAbandoned, TableOfCall, Issued,
                            ErrorHalts, ClearedDone

LEMMA CheckFailInv == Inv /\ CheckFail => Inv'
  <1> SUFFICES ASSUME Inv, CheckFail PROVE Inv'
    OBVIOUS
  <1> USE DEF Inv, CheckFail, Return
  <1>0. op = "write" => lba \in LBAs /\ data \in Data
    BY DEF ArgsValid, ValidCmd
  <1>1. TypeOK'
    <2>1. slot' \in Slots /\ attempt' \in 0 .. MaxAttempts
      BY SataAssumption DEF Slots
    <2>2. acked' \in [LBAs -> SUBSET Data]
      BY <1>0 DEF TypeOK
    <2> QED
      BY <2>1, <2>2 DEF TypeOK
  <1>2. NothingAbandoned'
    BY DEF NothingAbandoned, Current, ErrorHalts, Succeeded
  <1>3. ArgsValid'
    BY DEF ArgsValid
  <1>4. DiskKnown'
    BY <1>0 DEF DiskKnown, TypeOK
  <1> QED
    BY <1>1, <1>2, <1>3, <1>4 DEF NoRebuildInFlight, TableOfCall, Issued, ErrorHalts,
                                  ClearedDone

LEMMA InvStep == Inv /\ [Next]_vars => Inv'
  <1> SUFFICES ASSUME Inv, [Next]_vars PROVE Inv'
    OBVIOUS
  <1>1. ASSUME NEW s \in Slots, HbaComplete(s) \/ HbaError(s) PROVE Inv'
    BY <1>1, HbaCompleteInv, HbaErrorInv
  <1>2. ASSUME NEW found \in BOOLEAN, sata_init(found) PROVE Inv'
    BY <1>2, InitInv
  <1>3. ASSUME NEW l \in LBAs, Begin("read", l, NoData) PROVE Inv'
    BY <1>3, BeginInv DEF ValidCmd, Ops
  <1>4. ASSUME NEW l \in LBAs, NEW d \in Data, Begin("write", l, d) PROVE Inv'
    BY <1>4, BeginInv DEF ValidCmd, Ops
  <1>5. CASE Begin("identify", 0, NoData) \/ Begin("flush", 0, NoData)
    BY <1>5, BeginInv DEF ValidCmd, Ops
  <1>6. CASE Refuse
    BY <1>6 DEF Refuse, Inv, hba, call, TypeOK, NoRebuildInFlight, NothingAbandoned, ArgsValid,
                ValidCmd, TableOfCall, Issued, ErrorHalts, DiskKnown, ClearedDone, Current
  <1>7. CASE Driver
    BY <1>7, IssueInv, PollInv, CheckSuccessInv, CheckRetryInv, CheckFailInv DEF Driver
  <1>8. CASE UNCHANGED vars
    BY <1>8 DEF vars, Inv, hba, call, TypeOK, NoRebuildInFlight, NothingAbandoned, ArgsValid,
                ValidCmd, TableOfCall, Issued, ErrorHalts, DiskKnown, ClearedDone, Current
  <1> QED
    BY <1>1, <1>2, <1>3, <1>4, <1>5, <1>6, <1>7, <1>8 DEF Next

(* The invariant is an invariant.                                           *)
THEOREM Invariance == Spec => []Inv
  BY InvInit, InvStep, PTL DEF Spec

(* The driver's and the controller's state keep their types: in particular  *)
(* a retried write never counts past AHCI_WRITE_MAX_ATTEMPTS.               *)
THEOREM TypeCorrect == Spec => []TypeOK
  <1>1. Inv => TypeOK
    BY DEF Inv
  <1> QED
    BY <1>1, Invariance, PTL

(* ahci_build_cmd never rewrites a slot the controller has a command in, on *)
(* the first attempt and on every retry.                                    *)
THEOREM NeverRebuilt == Spec => []NoRebuildInFlight
  <1>1. Inv => NoRebuildInFlight
    BY DEF Inv
  <1> QED
    BY <1>1, Invariance, PTL

(* Until a wait has ended with neither completion nor error reported, no    *)
(* call leaves a command behind that the controller may still execute.  A   *)
(* hanging device ends a wait so, and also a read error, which halts the    *)
(* port: the next wait then does.                                           *)
THEOREM NeverAbandoned == Spec => []NothingAbandoned
  <1>1. Inv => NothingAbandoned
    BY DEF Inv
  <1> QED
    BY <1>1, Invariance, PTL

(* Until then the return values of sata_write_sector tell what the disk     *)
(* holds, and a read that is about to return 0 has it in its buffer.        *)
THEOREM ReturnsTrue == Spec => []AckedOnDisk
  <1>1. Inv => AckedOnDisk
    <2> SUFFICES ASSUME Inv, ~doubt PROVE
            /\ pc = "idle" => \A l \in LBAs : disk[l] \in acked[l]
            /\ pc = "check" /\ op = "read" /\ Succeeded /\ slot \notin ci => data \in acked[lba]
      BY DEF AckedOnDisk
    <2>1. pc = "idle" => \A l \in LBAs : disk[l] \in acked[l]
      BY DEF Inv, DiskKnown
    <2>2. ASSUME pc = "check", op = "read", slot \notin ci PROVE data \in acked[lba]
      <3>1. lba \in LBAs
        BY <2>2 DEF Inv, ArgsValid, ValidCmd
      <3>2. disk[lba] \in acked[lba]
        BY <2>2, <3>1 DEF Inv, DiskKnown
      <3> QED
        BY <2>2, <3>2 DEF Inv, ClearedDone, Issued
    <2> QED
      BY <2>1, <2>2
  <1> QED
    BY <1>1, Invariance, PTL
=============================================================================
