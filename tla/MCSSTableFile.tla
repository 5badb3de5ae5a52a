--------------------------- MODULE MCSSTableFile ---------------------------
(***************************************************************************)
(* SSTableFile for TLC.                                                    *)
(***************************************************************************)
EXTENDS SSTableFile

MCKeys == 1 .. 4
MCRowSizes == {1, 2}
\* A fixed step, and adaptive steps with room for one, two and many entries.
MCIndexOptions ==
    {[fixed_step |-> 2, target_index_bytes |-> 0, min_step |-> 1, max_step |-> 4]}
      \cup [fixed_step : {0}, target_index_bytes : {4, 12, 24, 120},
            min_step : {1}, max_step : {3}]
=============================================================================
