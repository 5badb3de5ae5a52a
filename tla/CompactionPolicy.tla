-------------------------- MODULE CompactionPolicy -------------------------
(***************************************************************************)
(* CompactionPolicy::pick: which level, if any, must be merged into the    *)
(* next one.  Level 0 is bounded by its number of tables, every deeper     *)
(* level by its total size.  The optional task is a set of at most one     *)
(* task.                                                                   *)
(***************************************************************************)
EXTENDS SSTableRegistry
LOCAL INSTANCE FiniteSetsExt

CONSTANTS
    L0Trigger,    \* level0_compaction_trigger
    SizeRatio,    \* size_ratio
    BaseSize,     \* base_level_size_bytes
    RowToColumn,  \* row_to_column_level
    SizeModulus   \* 2^64: sizes are uint64_t

ASSUME PolicyAssumption ==
    /\ L0Trigger \in Nat \ {0}
    /\ SizeRatio \in Nat
    /\ BaseSize \in Nat
    /\ RowToColumn \in Nat
    /\ SizeModulus \in Nat \ {0}

(* threshold = base * size_ratio^level, in uint64_t arithmetic.            *)
LevelThreshold(level) == (BaseSize * SizeRatio ^ level) % SizeModulus

LevelSize(reg, level) ==
    MapThenSumSet(LAMBDA i : i.size, AtLevel(reg, level)) % SizeModulus

(* The size bound of a level is exceeded; an empty level never is.         *)
Overfull(reg, level) ==
    /\ AtLevel(reg, level) # {}
    /\ LevelSize(reg, level) > LevelThreshold(level)

(* Level 0 holds as many tables as the trigger allows.                     *)
L0Full(reg) == Cardinality(AtLevel(reg, 0)) >= L0Trigger

(* The layout of a table written to level dst.                             *)
LayoutOf(dst) == IF dst >= RowToColumn THEN "COLUMN" ELSE "ROW"

(* The smallest overfull level below level 0.                              *)
SizeTriggered(reg) ==
    {level \in {i.level : i \in reg} \ {0} :
        /\ Overfull(reg, level)
        /\ \A m \in 1 .. (level - 1) : ~Overfull(reg, m)}

(* pick(registry)                                                          *)
Pick(reg) ==
    {[src |-> level, dst |-> level + 1, layout |-> LayoutOf(level + 1)] :
        level \in IF L0Full(reg) THEN {0} ELSE SizeTriggered(reg)}
=============================================================================
