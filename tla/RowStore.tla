------------------------------ MODULE RowStore -----------------------------
(***************************************************************************)
(* What one table promises its user, with no memtables, files or threads:  *)
(* a set of rows, of which some are durable.  While the store is up, an    *)
(* insert adds a row and may replace rows of the same key, but never a     *)
(* durable one, and rows become durable on their own; no row is lost.      *)
(* Stopping, in order or by a crash, may lose rows, but never a durable    *)
(* one; starting again changes nothing.                                    *)
(***************************************************************************)
CONSTANT Rows      \* the rows that may ever be inserted; each has a key

VARIABLES rows, durable, mode

storeVars == <<rows, durable, mode>>

StoreInit == rows = {} /\ durable = {} /\ mode = "up"

InsertRow ==
    /\ mode = "up"
    /\ \E row \in Rows \ rows :
         \E old \in SUBSET {r \in rows \ durable : r.key = row.key} :
           rows' = (rows \ old) \cup {row}
    /\ UNCHANGED <<durable, mode>>

Persist ==
    /\ mode = "up"
    /\ durable' \in SUBSET rows
    /\ durable \subseteq durable'
    /\ UNCHANGED <<rows, mode>>

Stop ==
    /\ mode = "up" /\ mode' = "down"
    /\ rows' \in SUBSET rows
    /\ durable \subseteq rows'
    /\ durable' = durable

Start ==
    /\ mode = "down" /\ mode' = "up"
    /\ UNCHANGED <<rows, durable>>

StoreNext == InsertRow \/ Persist \/ Stop \/ Start

StoreSpec == StoreInit /\ [][StoreNext]_storeVars
=============================================================================
