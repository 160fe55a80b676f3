----------------------------- MODULE MCReturns -----------------------------
(* Ledgers of up to two invoices with up to two lines.  The amounts straddle a *)
(* rounding step, one rate is odd, 10000 paise at 18% overflow the chosen      *)
(* width of Cents within the bias that rounding adds, and of the largest       *)
(* amount Cents hold two lines, but not three.                                 *)
EXTENDS Returns

Sold(h, bps, base) == [hsn |-> h, bps |-> bps, base |-> base]

Items == {Sold("a", 100, 300), Sold("a", 100, 50), Sold("b", 1800, 0), Sold("b", 1800, 10000),
          Sold("a", 25, 10000), Sold("c", 0, MaxAmount)}

Invoices ==
    {[class |-> c, supply |-> s, items |-> i] :
        c \in {"B2B", "B2C"}, s \in Supply,
        i \in {<<>>} \cup {<<x>> : x \in Items} \cup {<<x, y>> : x \in Items, y \in Items}}

MCLedgers == {<<x>> : x \in Invoices} \cup {<<x, y>> : x \in Invoices, y \in Invoices}
=============================================================================
