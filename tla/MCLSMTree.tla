----------------------------- MODULE MCLSMTree -----------------------------
(***************************************************************************)
(* LSMTree for TLC: the configurations give the constants small values.    *)
(***************************************************************************)
EXTENDS LSMTreeInv

\* Two inserts of different keys fill a memtable.
MCKeys == {1, 2}
\* With BaseSize 1 and SizeRatio 2 a table of size 3 is too big for level 1
\* and fits level 2; two of them do not fit level 2.
MCFileSizes == {1, 3}
=============================================================================
