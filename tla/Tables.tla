------------------------------- MODULE Tables -------------------------------
(***************************************************************************)
(* A database table is a function from the keys of its rows to their        *)
(* contents.                                                                *)
(***************************************************************************)

(* The effect of one written row, table[key] = value: an INSERT when the    *)
(* key is new, an UPDATE when it is not.                                    *)
Put(table, key, value) ==
    [k \in DOMAIN table \cup {key} |-> IF k = key THEN value ELSE table[k]]
=============================================================================
