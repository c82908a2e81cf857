---------------------------- MODULE PriceLadder ----------------------------
(***************************************************************************)
(* The quantity bands of a tier-priced product or of Catering Kantor: what *)
(* catalogue.ValidateBands accepts, and the band pricing.bandFor charges   *)
(* for a quantity.  The code sorts the bands by their lower end and walks  *)
(* them in that order, so a ladder is a set of bands.                      *)
(***************************************************************************)
EXTENDS Integers

Band == [min : Int, max : Int, price : Int]

\* One unbroken ladder from minQty: the band before each of the others ends
\* where it begins, and none overlap.
ValidBands_Gaps(bands, minQty) ==
  /\ \E b \in bands : b.min = minQty
  /\ \A b \in bands : b.min >= minQty /\ b.max >= b.min /\ b.price > 0
  /\ \A b, c \in bands : b # c => b.max < c.min \/ c.max < b.min
ValidBands(bands, minQty) ==
  /\ \E b \in bands : b.min = minQty
  /\ \A b \in bands : b.min >= minQty /\ b.max >= b.min /\ b.price > 0
  /\ \A b \in bands : b.min # minQty => \E c \in bands : c.max + 1 = b.min
  /\ \A b, c \in bands : b # c => b.max < c.min \/ c.max < b.min

InBand(b, qty) == b.min <= qty /\ qty <= b.max

First(bands) == CHOOSE b \in bands : \A c \in bands : b.min <= c.min
LastBand(bands) == CHOOSE b \in bands : \A c \in bands : c.min <= b.min

\* The first band that holds the quantity, and the last one when none does.
BandFor(bands, qty) ==
  IF \E b \in bands : InBand(b, qty)
  THEN First({b \in bands : InBand(b, qty)})
  ELSE LastBand(bands)
=============================================================================
