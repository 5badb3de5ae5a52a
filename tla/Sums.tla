-------------------------------- MODULE Sums --------------------------------
(***************************************************************************)
(* The exact sum of values some of which are NULL: a value is the set of   *)
(* at most one number.                                                     *)
(***************************************************************************)
EXTENDS Integers

Number(value) == IF value = {} THEN 0 ELSE CHOOSE v \in value : TRUE

(* The sums of `of' over the sets of its rows.                             *)
Sums(of) ==
    LET sum[rows \in SUBSET DOMAIN of] ==
          IF rows = {} THEN 0
          ELSE LET r == CHOOSE x \in rows : TRUE
               IN  Number(of[r]) + sum[rows \ {r}]
    IN  sum
=============================================================================
