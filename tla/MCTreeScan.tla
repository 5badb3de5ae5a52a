----------------------------- MODULE MCTreeScan ----------------------------
(***************************************************************************)
(* TreeScan and its inductive invariant for TLC.                           *)
(***************************************************************************)
EXTENDS TreeScanInv

MCKeys == {1, 2}
MCThreeKeys == {1, 2, 3}
\* Every table is compacted out of level 0, and two of them out of level 1.
MCFileSizes == {2}
=============================================================================
