------------------------------ MODULE MCFiles ------------------------------
(***************************************************************************)
(* Files for TLC.  Two retailers share four contents: f1 and f2 are migros  *)
(* scrapes that meet in two products in opposite order, f2 naming a third   *)
(* one twice; f3 is a coop scrape; f0 is a header without rows, which       *)
(* either retailer may publish; bad holds a number that does not parse.     *)
(***************************************************************************)
EXTENDS CatalogFiles, TLC

CONSTANTS migros, coop, m1, m2, m3, k1, f0, f1, f2, f3, bad

AllFiles ==
    f0 :> <<>> @@ f1 :> <<m1, Untrusted, m2>> @@ f2 :> <<m2, m3, m1, m3>>
    @@ f3 :> <<k1>> @@ bad :> <<k1>>

Files == [c \in Content |-> AllFiles[c]]

Shops == m1 :> migros @@ m2 :> migros @@ m3 :> migros @@ k1 :> coop

BulkOnly == {Bulk}

(* Bulk, and a keyword only m1 has.                                         *)
BulkAndOne == {Bulk, Content \X {m1}}
=============================================================================
