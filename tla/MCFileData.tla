----------------------------- MODULE MCFileData -----------------------------
(* Open files 1 and 2 are of the same inode, which mkfs fills up to its    *)
(* indirect block; 3 is of one that is empty.  Processes differ in the     *)
(* byte they write and in nothing else.                                    *)
EXTENDS FileData, TLC

CONSTANTS p1, p2

MCSymmetry == Permutations(Procs)

MCInodeOf == <<2, 2, 3>>
MCLens == <<9, 0>>
=============================================================================
