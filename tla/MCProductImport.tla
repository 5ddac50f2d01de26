-------------------------- MODULE MCProductImport --------------------------
EXTENDS ProductImport

CONSTANTS i1, i2, asc, desc, long, odd, cut, stray, pieces

Cents(n) == [form |-> "amount", cents |-> n]
NoPrice == [form |-> "text", cents |-> 0]

(* A label whose number is written with the digits of size, if a count with *)
(* the digits of whole last.                                                *)
Label(form, packs, size, whole, unit) ==
    [form |-> form, packs |-> packs, size |-> size, decimal |-> size, whole |-> whole,
     unit |-> unit]

Row(name, price, unit) ==
    [name |-> name, complete |-> TRUE, price |-> price, unit |-> unit]

Cola == Label("pack", 6, 50000, 50, "cl")
Water == Label("plain", 1, 5000, 5, "dl")
Juice == Label("plain", 1, 250000, 250, "ml")
Sample == Label("plain", 1, 0, 0, "ml")
Bars == Label("plain", 1, 2000, 2, "Stk")
Rolls == Label("plain", 1, 10000, 10, "Rol")
Ribs == Label("plain", 1, 1500, 5, "Stk")

(* Two files that hold the same products in opposite orders; one of two     *)
(* batches that holds a product twice; one with a row that is refused; one  *)
(* with a row that is skipped, and cut off; one of no known supermarket; one *)
(* of products by the piece, of which the last, 1.5 Stk, is read as 5.      *)
MCRows ==
    [f \in File |->
        CASE f = asc   -> <<Row("cola", Cents(420), Cola), Row("water", Cents(90), Water)>>
          [] f = desc  -> <<Row("water", Cents(95), Water), Row("cola", Cents(440), Cola)>>
          [] f = long  -> <<Row("cola", Cents(420), Cola), Row("cola", NoPrice, Cola),
                            Row("juice", Cents(70), Juice)>>
          [] f = odd   -> <<Row("juice", Cents(80), Juice), Row("free", Cents(70), Sample)>>
          [] f = cut   -> <<[Row("cola", Cents(1), Cola) EXCEPT !.complete = FALSE],
                            Row("water", Cents(90), Water)>>
          [] f = stray -> <<Row("juice", Cents(70), Juice)>>
          [] f = pieces -> <<Row("bars", Cents(120), Bars), Row("rolls", Cents(200), Rolls),
                             Row("ribs", Cents(210), Ribs)>>]

MCShop == [f \in File |-> IF f = stray THEN "unknown" ELSE "coop"]

Scenario(files, importers, assigning) ==
    [files |-> files, importers |-> importers, assigning |-> assigning]

MCScenarios ==
    { Scenario({asc, desc}, {i1, i2}, FALSE),
      Scenario({asc, long}, {i1}, TRUE),
      Scenario({long, odd, cut, stray}, {i1}, FALSE),
      Scenario({odd}, {i1, i2}, TRUE),
      Scenario({pieces, stray}, {i1}, FALSE) }
=============================================================================
