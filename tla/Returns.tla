------------------------------ MODULE Returns ------------------------------
(***************************************************************************)
(* GSTRGenerator.cpp as requestFiling drives it (Pipeline.cpp:314-318):    *)
(* the GSTR-1 Table 4A rows, then the HSN summary, then GSTR-3B, all from  *)
(* one ledger.  An overflow of a product in any of them throws out of the  *)
(* filing; the sums are not guarded, and wrap.                             *)
(*                                                                         *)
(* A line item is known by its place <<i, j>>: the j-th of the i-th        *)
(* invoice.  Abstracted: the CSV text, whose rows follow the places;       *)
(* quantities, which are doubles that are only summed and printed; the     *)
(* columns copied from the invoice as they are.                            *)
(***************************************************************************)
EXTENDS TaxMath, Sequences, FiniteSets, Functions

CONSTANTS
    MaxAmount,   \* the largest amount that toCents lets through; the code's is 10^15
    Ledgers      \* the ledgers filed

ASSUME MaxAmountAssumption == MaxAmount \in Nat

\* as the sanitizer leaves them: no negative amount, none beyond the cap of toCents,
\* and no negative rate
Item    == [hsn : STRING, bps : Nat, base : 0 .. MaxAmount]
Invoice == [class : STRING, supply : Supply, items : Seq(Item)]

ASSUME LedgersAssumption == Ledgers \subseteq Seq(Invoice)

VARIABLES
    ledger,
    next,      \* the file generated next, then "ready"; "thrown" on an overflow
    b2b,       \* Table 4A: a row for each line item it lists
    hsn,       \* the HSN summary: an aggregate per (hsn, rate)
    gstr3b     \* GSTR-3B: an aggregate per bucket that has a line
vars == <<ledger, next, b2b, hsn, gstr3b>>

Init ==
    /\ ledger \in Ledgers
    /\ next = "b2b"
    /\ b2b = <<>> /\ hsn = <<>> /\ gstr3b = <<>>

-----------------------------------------------------------------------------
Places(led) == UNION {{i} \X DOMAIN led[i].items : i \in DOMAIN led}

\* the line item at a place, with what its invoice says about it
LineAt(invoice, item) ==
    [hsn |-> item.hsn, bps |-> item.bps, base |-> item.base,
     supply |-> invoice.supply, class |-> invoice.class]
Lines(led) == [p \in Places(led) |-> LineAt(led[p[1]], led[p[1]].items[p[2]])]

Split(line)  == TaxSplit(line.base, line.bps, line.supply)
Throws(line) == TaxOverflows(line.base, HeadRate(line.bps, line.supply))

\* TaxAggregate: the taxable amount and the tax, head by head
Heads         == {"taxable", "igst", "cgst", "sgst"}
Amounts(line) == [head \in Heads |-> IF head = "taxable" THEN line.base ELSE Split(line)[head]]
Sum(terms, head) == SumFunction([k \in DOMAIN terms |-> terms[k][head]])
Total(terms)  == [head \in Heads |-> Wrapped(Sum(terms, head))]
TotalTax(a)   == Wrapped(a.igst + a.cgst + a.sgst)

Aggregate(lines, own) == Total([p \in own |-> Amounts(lines[p])])

\* an aggregate for each combination of these fields that some line has
Key(line, fields) == [f \in fields |-> line[f]]
With(lines, fields, k) == {p \in DOMAIN lines : Key(lines[p], fields) = k}
Group(lines, fields) ==
    [k \in {Key(lines[p], fields) : p \in DOMAIN lines} |-> Aggregate(lines, With(lines, fields, k))]

\* mutant: the total runs on from one invoice to the next
RunningValue(lines, i) ==
    LET own == Aggregate(lines, {p \in DOMAIN lines : p[1] <= i})
    IN  Wrapped(own.taxable + TotalTax(own))

\* the recomputed value of the i-th invoice
InvoiceValue(lines, i) ==
    LET own == Aggregate(lines, {p \in DOMAIN lines : p[1] = i})
    IN  Wrapped(own.taxable + TotalTax(own))

Row(lines, p) == [amounts |-> Amounts(lines[p]), value |-> InvoiceValue(lines, p[1])]

\* the lines that go into the file being generated
IsB2B(line) == line.class = "B2B"
B2B(lines)  == {p \in DOMAIN lines : IsB2B(lines[p])}
Scope == LET lines == Lines(ledger) IN IF next = "b2b" THEN Restrict(lines, B2B(lines)) ELSE lines
Fits  == \A p \in DOMAIN Scope : ~Throws(Scope[p])

Gstr1B2B ==
    /\ next = "b2b" /\ Fits
    /\ b2b' = [p \in DOMAIN Scope |-> Row(Lines(ledger), p)]
    /\ next' = "hsn"
    /\ UNCHANGED <<ledger, hsn, gstr3b>>

\* mutant: the summary lists the invoices of Table 4A only
Gstr1HsnSummaryB2B ==
    /\ next = "hsn" /\ Fits
    /\ hsn' = Group(Restrict(Scope, B2B(Scope)), {"hsn", "bps"})
    /\ next' = "gstr3b"
    /\ UNCHANGED <<ledger, b2b, gstr3b>>

Gstr1HsnSummary ==
    /\ next = "hsn" /\ Fits
    /\ hsn' = Group(Scope, {"hsn", "bps"})
    /\ next' = "gstr3b"
    /\ UNCHANGED <<ledger, b2b, gstr3b>>

Gstr3B ==
    /\ next = "gstr3b" /\ Fits
    /\ gstr3b' = Group(Scope, {"supply"})
    /\ next' = "ready"
    /\ UNCHANGED <<ledger, b2b, hsn>>

\* overflow_error leaves the generator, and requestFiling with it
Overflow ==
    /\ next \in {"b2b", "hsn", "gstr3b"} /\ ~Fits
    /\ next' = "thrown"
    /\ UNCHANGED <<ledger, b2b, hsn, gstr3b>>

Next == Gstr1B2B \/ Gstr1HsnSummary \/ Gstr3B \/ Overflow
Spec == Init /\ [][Next]_vars

-----------------------------------------------------------------------------
(* Properties *)

\* what the lines are worth, taxes included, and whether Cents can hold it
Worth(line)    == line.base + Split(line).igst + Split(line).cgst + Split(line).sgst
Value(lines)   == SumFunction([p \in DOMAIN lines |-> Worth(lines[p])])
ReadyAndHeld   == next = "ready" /\ Value(Lines(ledger)) <= MaxCents

\* what the rows of Table 4A, or the lines, at these places add up to
RowsSum(places, head) == Sum([p \in places |-> b2b[p].amounts], head)
LinesSum(lines, places, head) == Sum([p \in places |-> Amounts(lines[p])], head)

\* The three files of a filing whose value Cents can hold tell the tax authority the
\* same, head by head: the rows of the HSN summary and the buckets of GSTR-3B add up
\* to the same amounts, and so do those of Table 4A with the lines that it leaves out
\* (GSTRGenerator.cpp:114-238 recomputes the split in each).
ReturnsReconcile ==
    ReadyAndHeld =>
        LET lines == Lines(ledger) IN
        \A head \in Heads :
            /\ Sum(hsn, head) = Sum(gstr3b, head)
            /\ RowsSum(DOMAIN b2b, head) + LinesSum(lines, DOMAIN lines \ B2B(lines), head)
                   = Sum(gstr3b, head)

\* The invoice_value printed on every row of an invoice is what the rows of that
\* invoice add up to, as long as Cents can hold the ledger (GSTRGenerator.cpp:125-134).
InvoiceValueAdds ==
    ReadyAndHeld =>
        \A p \in DOMAIN b2b :
            LET own == {q \in DOMAIN b2b : q[1] = p[1]} IN
            b2b[p].value = RowsSum(own, "taxable") + RowsSum(own, "igst")
                               + RowsSum(own, "cgst") + RowsSum(own, "sgst")

\* an odd rate charged within a state loses a basis point of the base: each head takes
\* the truncated half of the rate (StateMatrix.cpp:112)
Charged(line) ==
    line.base * IF line.supply = "INTRA" THEN line.bps - (line.bps % 2) ELSE line.bps

\* The total tax of a bucket of GSTR-3B is off from base * rate by what an odd rate
\* loses and, beyond that, by at most half a paisa per line and head, however many
\* lines the bucket has, as long as Cents can hold the ledger (StateMatrix.hpp:49-52).
RoundingIsBounded ==
    ReadyAndHeld =>
        LET lines == Lines(ledger) IN
        \A bucket \in DOMAIN gstr3b :
            LET own   == {p \in DOMAIN lines : lines[p].supply = bucket.supply}
                exact == SumFunction([p \in own |-> Charged(lines[p])])
                error == 10000 * TotalTax(gstr3b[bucket]) - exact
                slack == 5000 * Cardinality(own) * IF bucket.supply = "INTRA" THEN 2 ELSE 1
            IN  -slack < error /\ error <= slack

\* the most that a line can add to a sum: the largest base, and two heads of the
\* largest tax that taxOn returns
MostWorth == MaxAmount + 2 * (MaxCents \div 10000)

\* The guard of taxOn leaves no product, with the bias that rounding adds, beyond
\* Cents (StateMatrix.cpp:87-93), and with it the cap of toCents (StateMatrix.cpp:70)
\* keeps every sum within Cents too, though nothing guards those, for ledgers of up
\* to MaxCents / MostWorth lines, some 3,200 in the code.
CentsSuffice ==
    LET lines == Lines(ledger) IN
    next = "ready" =>
        /\ \A p \in DOMAIN lines :
              lines[p].base * HeadRate(lines[p].bps, lines[p].supply) + 5000 <= MaxCents
        /\ Cardinality(DOMAIN lines) * MostWorth <= MaxCents => Value(lines) <= MaxCents
=============================================================================
