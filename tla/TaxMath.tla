------------------------------ MODULE TaxMath ------------------------------
(***************************************************************************)
(* The statutory tax arithmetic of StateMatrix.cpp on integer paise:       *)
(* money::taxOn and StateMatrix::computeTaxSplit, and the signed integers  *)
(* of type Cents that they and the returns compute with.                   *)
(***************************************************************************)
EXTENDS Integers

CONSTANT MaxCents   \* numeric_limits<Cents>::max(); the code's is 2^63 - 1

\* the guard subtracts 5001 from it
ASSUME MaxCentsAssumption == MaxCents \in Nat /\ MaxCents > 5000

Supply == {"INTRA", "INTER"}

\* a sum of Cents: nothing guards it, and what leaves the type wraps around
Wrapped(n) == ((n + MaxCents + 1) % (2 * (MaxCents + 1))) - (MaxCents + 1)

\* mutant: the guard forgets the bias that rounding adds
TaxOverflowsLate(base, bps) == base # 0 /\ bps > MaxCents \div base

\* taxOn throws overflow_error
TaxOverflows(base, bps) == base # 0 /\ bps > (MaxCents - 5001) \div base

\* taxOn: base * rate / 10000, half a paisa up
TaxOn(base, bps) == (base * bps + 5000) \div 10000

\* computeTaxSplit hands each head this rate: the half is an integer division
HeadRate(bps, supply) == IF supply = "INTRA" THEN bps \div 2 ELSE bps

\* mutant: the whole tax is rounded once, then halved
SplitAfterwards(base, bps, supply) ==
    LET tax == TaxOn(base, bps) IN
    IF supply = "INTRA" THEN [igst |-> 0, cgst |-> tax \div 2, sgst |-> tax \div 2]
                        ELSE [igst |-> tax, cgst |-> 0, sgst |-> 0]

\* each head is rounded on its own; no cess is ever computed
TaxSplit(base, bps, supply) ==
    LET tax == TaxOn(base, HeadRate(bps, supply)) IN
    IF supply = "INTRA" THEN [igst |-> 0, cgst |-> tax, sgst |-> tax]
                        ELSE [igst |-> tax, cgst |-> 0, sgst |-> 0]
=============================================================================
