---------------------------- MODULE MCTargetOpen ----------------------------
(* A system disk with a root and a boot partition, a built-in disk, two     *)
(* cards that share one slot, and a plain file given as a drive.            *)
EXTENDS TargetOpen

CONSTANTS sys, fixed, card1, card2, file, p1, p2

MCOsMount == [p \in {p1, p2} |-> IF p = p1 THEN "root" ELSE "boot"]

MCHome == [n \in Name |->
             CASE n = "sda" -> sys
               [] n = "sdb" -> fixed
               [] n = "sdc" -> card1
               [] OTHER     -> file]
=============================================================================
