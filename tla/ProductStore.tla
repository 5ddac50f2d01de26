---------------------------- MODULE ProductStore ----------------------------
(***************************************************************************)
(* What the importer promises of the table products: it changes by whole     *)
(* batches only, each one a transaction, and an import leaves the category   *)
(* of a product, which others assign, alone.  A batch is a function from the *)
(* positions of rows in a file to [key, facts].                              *)
(***************************************************************************)
EXTENDS Naturals

CONSTANTS Key,          \* (name, supermarket, product_url)
          Batch,
          Category, NoCategory

VARIABLE products       \* key |-> [category, facts]

Keys(batch) == {batch[j].key : j \in DOMAIN batch}

(* The facts of the row of the batch that is written last.                  *)
LastFacts(batch, k) ==
    LET rows == {j \in DOMAIN batch : batch[j].key = k}
    IN  batch[CHOOSE j \in rows : \A h \in rows : h <= j].facts

CategoryOf(table, k) == IF k \in DOMAIN table THEN table[k].category ELSE NoCategory

(* INSERT ... ON CONFLICT DO UPDATE, row after row.                         *)
Upserted(table, batch) ==
    [k \in DOMAIN table \cup Keys(batch) |->
        IF k \in Keys(batch)
        THEN [category |-> CategoryOf(table, k), facts |-> LastFacts(batch, k)]
        ELSE table[k]]

Init == products = [k \in {} |-> NoCategory]

Import(batch) == products' = Upserted(products, batch)

Assign(k, c) ==
    /\ k \in DOMAIN products
    /\ products' = [products EXCEPT ![k].category = c]

Next ==
    \/ \E batch \in Batch : Import(batch)
    \/ \E k \in Key, c \in Category : Assign(k, c)

Spec == Init /\ [][Next]_products
=============================================================================
