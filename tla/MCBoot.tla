------------------------------- MODULE MCBoot -------------------------------
(* Instances of Boot for TLC: disks too small for the headers, exactly as   *)
(* large as the headers, too small for the second partition, large enough.  *)
EXTENDS Boot
=============================================================================
