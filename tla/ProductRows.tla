---------------------------- MODULE ProductRows ----------------------------
(***************************************************************************)
(* From a CSV row to the row of products the importer writes: the unit and   *)
(* price fields, read by patterns, and what Postgres makes of the quotient.  *)
(* A unit field is what its text means, [form, packs, size, unit], and what  *)
(* the patterns find before the unit: decimal, by \d+(?:[.,]\d+)?, and       *)
(* whole, by \d+ ("1.5 Stk" has size 1500 and whole 5; "1'000 g" has size    *)
(* 1000000 and decimal 0).  Sizes and decimals are in thousandths, prices in *)
(* cents.                                                                    *)
(***************************************************************************)
EXTENDS Integers, Sequences

Nothing == -1

Count == {"Stk", "Rol", "Tabl."}
Metric == {"mg", "g", "kg", "ml", "cl", "dl", "l"}
Known == Metric \cup Count \cup {"m", "m2"}

(* parsePrice: "CHF 3.95", "3.95" and the Swiss dash ".70" are amounts,     *)
(* other texts are not.                                                     *)
ParsePrice(text) == IF text.form = "amount" THEN text.cents ELSE Nothing

NoUnit == [quantity |-> Nothing, unit |-> "none"]

(* The number read before the unit: of a count, its last digits only.       *)
Read(text) == IF text.unit \in Count THEN 1000 * text.whole ELSE text.decimal

(* Mutant: a multi-pack counts as one pack.                                 *)
ExtractOnePack(text) ==
    IF text.form \in {"plain", "pack"} /\ text.unit \in Known
    THEN [quantity |-> Read(text), unit |-> text.unit] ELSE NoUnit

(* The units the multi-pack pattern lists: dl and counts are not among      *)
(* them, and of m2 it reads the m.                                          *)
PackUnit(unit) ==
    CASE unit \in {"g", "kg", "mg", "ml", "cl", "l", "m"} -> unit
      [] unit = "m2" -> "m"
      [] OTHER -> "none"

(* extractUnit: "per kg", then "6x500ml", then a size and a unit anywhere   *)
(* in the text, so that of "6x5dl" the last pattern finds "5dl".            *)
ExtractUnit(text) ==
    IF text.form = "per" /\ text.unit \in Metric \ {"mg"}
    THEN [quantity |-> 1000, unit |-> text.unit]
    ELSE IF text.form = "pack" /\ PackUnit(text.unit) # "none"
    THEN [quantity |-> text.packs * text.decimal, unit |-> PackUnit(text.unit)]
    ELSE IF text.form \in {"plain", "pack"} /\ text.unit \in Known
    THEN [quantity |-> Read(text), unit |-> text.unit]
    ELSE NoUnit

(* normalize: the standard unit, and how many millionths of it a thousandth *)
(* of the unit is.                                                          *)
Standard(unit) ==
    CASE unit \in {"mg", "g", "kg"} -> "g"
      [] unit \in {"ml", "cl", "dl", "l"} -> "L"
      [] unit \in Count -> "unit"
      [] OTHER -> unit

Factor(unit) ==
    CASE unit \in {"mg", "ml"} -> 1
      [] unit = "cl" -> 10
      [] unit = "dl" -> 100
      [] unit = "kg" -> 1000000
      [] OTHER -> 1000

Normalize(info) ==
    IF info = NoUnit THEN NoUnit
    ELSE [quantity |-> info.quantity * Factor(info.unit), unit |-> Standard(info.unit)]

(* calculateNormalizedPrice, as DECIMAL(10, 2) keeps it: rounded cents per  *)
(* standard unit.  A price over no quantity is Infinity, which Postgres     *)
(* refuses, or for a price of zero NaN, which it keeps.                     *)
Infinite == -2
NotANumber == -3

NormalizedPrice(price, normalized) ==
    IF price = Nothing \/ normalized = NoUnit THEN Nothing
    ELSE IF normalized.quantity = 0
         THEN IF price = 0 THEN NotANumber ELSE Infinite
         ELSE (price * 1000000 + normalized.quantity \div 2) \div normalized.quantity

(* transform.  The columns that are copies of the row, or of words in its   *)
(* name, are left out; a quantity of zero becomes a null.                   *)
Transform(row) ==
    LET price == ParsePrice(row.price)
        normalized == Normalize(ExtractUnit(row.unit))
    IN  [label |-> row.unit, price |-> price,
         normalized |-> IF normalized.quantity = 0
                        THEN [normalized EXCEPT !.quantity = Nothing] ELSE normalized,
         normalizedPrice |-> NormalizedPrice(price, normalized)]
-----------------------------------------------------------------------------
(* What the label says is in the pack, whatever the patterns make of it.    *)
Contents(label) == label.packs * label.size * Factor(label.unit)

(* Labels that are written as the patterns expect them: a number they read   *)
(* in full, so no fraction of a count and no thousands separator, and a      *)
(* multi-pack, if it is one, in a unit of theirs and without a space.        *)
Plain(label) ==
    /\ label.form \in {"plain", "pack"} /\ label.unit \in Known
    /\ label.packs > 0 /\ label.size > 0
    /\ Read(label) = label.size
    /\ label.form = "plain" => label.packs = 1
    /\ label.form = "pack" => PackUnit(label.unit) = label.unit
=============================================================================
