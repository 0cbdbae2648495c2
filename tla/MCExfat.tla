------------------------------ MODULE MCExfat ------------------------------
(* An instance of Exfat for TLC: a file in the root, a directory, and in it *)
(* a file and another directory; the root is full after one entry, and five *)
(* clusters are free.                                                       *)
EXTENDS Exfat

MCUnder == [o \in {"os", "sys", "copy", "user"} |->
              IF o \in {"copy", "user"} THEN "sys" ELSE "root"]
=============================================================================
