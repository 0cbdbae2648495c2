----------------------------- MODULE SectorStore -----------------------------
(***************************************************************************)
(* What the block layer promises to the file systems: sectors that hold    *)
(* what was written to them.  The disk reports an error at most once: the  *)
(* call it strikes fails, and every call that returned 0 before has done   *)
(* all it was asked for.  From then on 0 means nothing any more.  At any   *)
(* time only sectors of the write under way change, and to its data.       *)
(* A call is asked for its count modulo Limit: mass_storage.c cuts it to   *)
(* the 16 bits of a command.                                               *)
(***************************************************************************)
EXTENDS Integers

CONSTANTS Sectors, Data, Limit, Requests, NoRequest

VARIABLES
    disk,    \* the contents of every sector
    up,      \* the drivers have been started
    failed,  \* the disk has reported an error
    req,     \* the call under way
    got,     \* what the latest read that returned 0 put in its buffer
    ret      \* what the latest call returned

vars == <<disk, up, failed, req, got, ret>>

Asked(r) == r.count % Limit
Range(r) == r.lba .. r.lba + Asked(r) - 1

Init ==
    /\ disk \in [Sectors -> Data] /\ up = FALSE /\ failed = FALSE
    /\ req = NoRequest /\ got = <<>> /\ ret = 0

(* Starting a driver may read sectors, and meet an error.                   *)
Prepare == ~up /\ up' \in BOOLEAN /\ failed' \in BOOLEAN /\ UNCHANGED <<disk, req, got, ret>>

Call == up /\ req = NoRequest /\ req' \in Requests /\ UNCHANGED <<disk, up, failed, got, ret>>

Change(l) ==
    /\ req # NoRequest /\ req.op = "write" /\ l \in Range(req)
    /\ disk' = [disk EXCEPT ![l] = req.data[l - req.lba + 1]]
    /\ UNCHANGED <<up, failed, req, got, ret>>

Done ==
    /\ Range(req) \subseteq Sectors
    /\ IF req.op = "write"
       THEN (\A l \in Range(req) : disk[l] = req.data[l - req.lba + 1]) /\ UNCHANGED got
       ELSE got' = [i \in 1 .. Asked(req) |-> disk[req.lba + i - 1]]

Succeed ==
    /\ req # NoRequest /\ req' = NoRequest /\ ret' = 0
    /\ IF failed
       THEN IF req.op = "write" THEN UNCHANGED got ELSE got' \in [1 .. Asked(req) -> Data]
       ELSE Done
    /\ UNCHANGED <<disk, up, failed>>

Fail ==
    /\ req # NoRequest /\ req' = NoRequest /\ ret' = -1 /\ failed' \in {failed, TRUE}
    /\ UNCHANGED <<disk, up, got>>

Next == Prepare \/ Call \/ (\E l \in Sectors : Change(l)) \/ Succeed \/ Fail

Spec == Init /\ [][Next]_vars
=============================================================================
