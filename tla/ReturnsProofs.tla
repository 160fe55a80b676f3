---------------------------- MODULE ReturnsProofs ----------------------------
(***************************************************************************)
(* What taxOn and computeTaxSplit guarantee for every amount, rate and     *)
(* width, and what the returns made from them guarantee for every ledger,  *)
(* whatever its length.                                                    *)
(***************************************************************************)
EXTENDS Returns, InductionLemmas

-----------------------------------------------------------------------------
(* The arithmetic of one line *)

\* Whatever the guard of taxOn lets through is computed within Cents: neither the
\* product nor the bias that rounding adds leaves the type, for any width of it
\* (StateMatrix.cpp:87-96).
THEOREM TaxOnFits ==
    ASSUME NEW base \in Nat, NEW bps \in Nat, ~TaxOverflows(base, bps)
    PROVE  base * bps + 5000 \in 0 .. MaxCents
<1>1. CASE base = 0
  BY <1>1, MaxCentsAssumption
<1>2. CASE base # 0
  <2> DEFINE q == (MaxCents - 5001) \div base
  <2>1. q \in Int /\ bps <= q
    BY <1>2, MaxCentsAssumption DEF TaxOverflows
  <2>2. base * q <= MaxCents - 5001
    BY <1>2, MaxCentsAssumption
  <2>3. base * bps <= base * q
    BY <2>1
  <2>4. base * bps \in Nat
    OBVIOUS
  <2> QED BY <2>1, <2>2, <2>3, <2>4, MaxCentsAssumption
<1> QED BY <1>1, <1>2

\* `tax` is n / 10000 rounded half up
HalfUp(tax, n) == -5000 < 10000 * tax - n /\ 10000 * tax - n <= 5000
\* `tax` is within a paisa of n / 10000
WithinPaisa(tax, n) == -10000 < 10000 * tax - n /\ 10000 * tax - n <= 10000

LEMMA DivisionRounds ==
    ASSUME NEW n \in Nat
    PROVE  (n + 5000) \div 10000 \in Nat /\ HalfUp((n + 5000) \div 10000, n)
BY DEF HalfUp

LEMMA Products ==
    ASSUME NEW base \in Nat, NEW bps \in Nat
    PROVE  base * bps \in Nat /\ base * (2 * bps) = 2 * (base * bps)
OBVIOUS

\* taxOn is base * rate / 10000 rounded half up, and nothing is left over
\* (StateMatrix.hpp:49-51).
THEOREM TaxOnRoundsHalfUp ==
    ASSUME NEW base \in Nat, NEW bps \in Nat
    PROVE  TaxOn(base, bps) \in Nat /\ HalfUp(TaxOn(base, bps), base * bps)
<1>1. PICK n \in Nat : n = base * bps
  BY Products
<1> QED BY <1>1, DivisionRounds DEF TaxOn

Even(n) == n % 2 = 0

LEMMA IntraSplit ==
    ASSUME NEW base \in Nat, NEW bps \in Nat, Even(bps)
    PROVE  \E tax \in Nat : /\ TaxSplit(base, bps, "INTRA") = [igst |-> 0, cgst |-> tax, sgst |-> tax]
                            /\ WithinPaisa(tax + tax, base * bps)
<1>1. PICK half \in Nat : half = bps \div 2 /\ bps = 2 * half
  BY DEF Even
<1>2. PICK tax \in Nat : tax = TaxOn(base, half) /\ HalfUp(tax, base * half)
  BY TaxOnRoundsHalfUp, Zenon
<1>3. PICK m \in Nat : m = base * half /\ base * bps = 2 * m
  BY <1>1, Products
<1>4. HalfUp(tax, m)
  BY <1>2, <1>3, Zenon
<1>5. WithinPaisa(tax + tax, 2 * m)
  BY <1>4 DEF HalfUp, WithinPaisa
<1>6. TaxSplit(base, bps, "INTRA") = [igst |-> 0, cgst |-> tax, sgst |-> tax]
  BY <1>1, <1>2, Zenon DEF TaxSplit, HeadRate
<1>7. WithinPaisa(tax + tax, base * bps)
  BY <1>3, <1>5, Zenon
<1> QED BY <1>6, <1>7

LEMMA InterSplit ==
    ASSUME NEW base \in Nat, NEW bps \in Nat
    PROVE  \E tax \in Nat : /\ TaxSplit(base, bps, "INTER") = [igst |-> tax, cgst |-> 0, sgst |-> 0]
                            /\ HalfUp(tax, base * bps)
<1>1. PICK tax \in Nat : tax = TaxOn(base, bps) /\ HalfUp(tax, base * bps)
  BY TaxOnRoundsHalfUp, Zenon
<1>2. TaxSplit(base, bps, "INTER") = [igst |-> tax, cgst |-> 0, sgst |-> 0]
  BY <1>1 DEF TaxSplit, HeadRate
<1> QED BY <1>1, <1>2

\* An intra-state line charges CGST and SGST alike, an inter-state one only IGST,
\* each head its own rate on the base rounded half up, and at an even rate the two
\* heads together stay within a paisa of the combined rate (StateMatrix.hpp:107-109).
THEOREM SplitIsStatutory ==
    ASSUME NEW base \in Nat, NEW bps \in Nat, bps % 2 = 0
    PROVE  LET intra == TaxSplit(base, bps, "INTRA")
               inter == TaxSplit(base, bps, "INTER")
           IN  /\ intra.cgst = intra.sgst /\ intra.igst = 0
               /\ WithinPaisa(intra.cgst + intra.sgst, base * bps)
               /\ inter.cgst = 0 /\ inter.sgst = 0
               /\ HalfUp(inter.igst, base * bps)
<1>1. PICK tax : /\ TaxSplit(base, bps, "INTRA") = [igst |-> 0, cgst |-> tax, sgst |-> tax]
                 /\ WithinPaisa(tax + tax, base * bps)
  <2>1. Even(bps)
    BY DEF Even
  <2>2. QED
    BY <2>1, IntraSplit, Zenon
<1>2. PICK whole : /\ TaxSplit(base, bps, "INTER") = [igst |-> whole, cgst |-> 0, sgst |-> 0]
                   /\ HalfUp(whole, base * bps)
  BY InterSplit, Zenon
<1> QED BY <1>1, <1>2

-----------------------------------------------------------------------------
(* The lines of a ledger *)

LEMMA PlacesAreFinite == ASSUME NEW led \in Seq(Invoice) PROVE IsFiniteSet(Places(led))
<1> DEFINE part == [i \in DOMAIN led |-> {i} \X DOMAIN led[i].items]
<1>1. IsFiniteSet(DOMAIN led)
  BY FS_Interval
<1>2. ASSUME NEW i \in DOMAIN led PROVE IsFiniteSet(part[i])
  <2>1. led[i] \in Invoice
    OBVIOUS
  <2>2. led[i].items \in Seq(Item)
    BY <2>1 DEF Invoice
  <2>3. IsFiniteSet(DOMAIN led[i].items) /\ IsFiniteSet({i})
    <3>1. PICK items \in Seq(Item) : items = led[i].items
      BY <2>2
    <3>2. DOMAIN items = 1 .. Len(items) /\ Len(items) \in Nat
      OBVIOUS
    <3>3. IsFiniteSet(1 .. Len(items))
      BY <3>2, FS_Interval
    <3>4. QED
      BY <3>1, <3>2, <3>3, FS_Singleton
  <2>4. IsFiniteSet({i} \X DOMAIN led[i].items)
    BY <2>3, FS_Product
  <2>5. QED
    BY <2>4
<1>3. Places(led) = UNION {part[i] : i \in DOMAIN led}
  BY DEF Places
<1> HIDE DEF part
<1>4. IsFiniteSet({part[i] : i \in DOMAIN led})
  BY <1>1, FiniteImage
<1>5. \A T \in {part[i] : i \in DOMAIN led} : IsFiniteSet(T)
  BY <1>2
<1>6. QED
  BY <1>3, <1>4, <1>5, FS_UNION

\* A line as the sanitizer and the split leave it.
Line == [hsn : STRING, bps : Nat, base : 0 .. MaxAmount, supply : Supply, class : STRING]

\* lines that a generator may be given
IsLines(lines) == IsFiniteSet(DOMAIN lines) /\ \A p \in DOMAIN lines : lines[p] \in Line

LEMMA LinesAreLines == ASSUME NEW led \in Seq(Invoice) PROVE IsLines(Lines(led))
<1>1. DOMAIN Lines(led) = Places(led)
  BY DEF Lines
<1>2. ASSUME NEW p \in Places(led) PROVE Lines(led)[p] \in Line
  <2>1. PICK i \in DOMAIN led : p \in {i} \X DOMAIN led[i].items
    BY DEF Places
  <2>2. p[1] = i /\ p[2] \in DOMAIN led[i].items
    BY <2>1
  <2>3. led[i] \in Invoice
    OBVIOUS
  <2>4. led[i].items \in Seq(Item) /\ led[i].supply \in Supply /\ led[i].class \in STRING
    BY <2>3 DEF Invoice
  <2>5. led[i].items[p[2]] \in Item
    BY <2>2, <2>4
  <2>6. LineAt(led[i], led[i].items[p[2]]) \in Line
    BY <2>4, <2>5 DEF LineAt, Line, Item
  <2>7. QED
    BY <2>2, <2>6 DEF Lines
<1>3. QED
  BY <1>1, <1>2, PlacesAreFinite DEF IsLines

LineTax(line) == Split(line).igst + Split(line).cgst + Split(line).sgst

LEMMA AmountsAreNatural ==
    ASSUME NEW line \in Line
    PROVE  /\ Worth(line) \in Nat /\ LineTax(line) \in Nat
           /\ Worth(line) = Amounts(line).taxable + LineTax(line)
           /\ LineTax(line) <= Worth(line)
           /\ \A head \in Heads : Amounts(line)[head] \in Nat /\ Amounts(line)[head] <= Worth(line)
<1>1. line.base \in Nat /\ line.bps \in Nat /\ line.supply \in Supply
  BY MaxAmountAssumption DEF Line
<1>2. HeadRate(line.bps, line.supply) \in Nat
  BY <1>1 DEF HeadRate
<1>3. PICK tax \in Nat : tax = TaxOn(line.base, HeadRate(line.bps, line.supply))
  BY <1>1, <1>2, TaxOnRoundsHalfUp, Zenon
<1>4. /\ Split(line).igst \in Nat /\ Split(line).cgst \in Nat /\ Split(line).sgst \in Nat
  BY <1>3 DEF Split, TaxSplit
<1>5. /\ Amounts(line).taxable = line.base
      /\ Amounts(line).igst = Split(line).igst
      /\ Amounts(line).cgst = Split(line).cgst
      /\ Amounts(line).sgst = Split(line).sgst
  BY DEF Amounts, Heads
<1>6. Heads = {"taxable", "igst", "cgst", "sgst"}
  BY DEF Heads
<1>7. QED
  BY <1>1, <1>4, <1>5, <1>6 DEF Worth, LineTax

-----------------------------------------------------------------------------
(* Totals *)

\* one head of the amounts of the lines, all the tax of each, and its worth
Column(lines, head) == [p \in DOMAIN lines |-> Amounts(lines[p])[head]]
TaxColumn(lines)    == [p \in DOMAIN lines |-> LineTax(lines[p])]
Worths(lines)       == [p \in DOMAIN lines |-> Worth(lines[p])]

\* lines whose value Cents can hold
Held(lines) == IsLines(lines) /\ Value(lines) <= MaxCents

SmallMod(a, b) == a % b = a
LEMMA SmallRemainder == ASSUME NEW a \in Nat, NEW b \in Nat, a < b PROVE SmallMod(a, b)
  BY DEF SmallMod

\* What Cents can hold does not wrap around.
LEMMA WrappedIsSame == ASSUME NEW n \in 0 .. MaxCents PROVE Wrapped(n) = n
<1> DEFINE m == n + MaxCents + 1
           w == 2 * (MaxCents + 1)
<1>1. n \in Nat /\ MaxCents \in Nat /\ n <= MaxCents
  BY MaxCentsAssumption
<1>2. m \in Nat /\ w \in Nat /\ m < w
  BY <1>1
<1>3. Wrapped(n) = (m % w) - (MaxCents + 1)
  BY DEF Wrapped
<1>4. m - (MaxCents + 1) = n
  BY <1>1
<1> HIDE DEF m, w
<1>5. m % w = m
  BY <1>2, SmallRemainder DEF SmallMod
<1>6. QED
  BY <1>3, <1>4, <1>5

\* A sum over some of the lines, of no more than each is worth, is no more than the
\* value of all.
LEMMA SumIsHeld ==
    ASSUME NEW lines, Held(lines), NEW own \in SUBSET DOMAIN lines, NEW f,
           \A p \in DOMAIN lines : f[p] \in Nat /\ f[p] <= Worth(lines[p])
    PROVE  SumFunctionOnSet(f, own) \in 0 .. MaxCents
<1> DEFINE S == DOMAIN lines
           h == Worths(lines)
<1>1. IsFiniteSet(S)
  BY DEF Held, IsLines
<1>2. \A p \in S : f[p] \in Nat /\ h[p] \in Nat /\ f[p] <= h[p]
  BY AmountsAreNatural DEF Held, IsLines, Worths
<1>3. Value(lines) = SumFunctionOnSet(h, S)
  BY DEF Value, SumFunction, Worths
<1>4. \A p \in S : h[p] \in Nat
  BY <1>2
<1>5. own \in SUBSET S
  OBVIOUS
<1> HIDE DEF S, h
<1>6. /\ SumFunctionOnSet(f, own) \in Nat
      /\ SumFunctionOnSet(f, own) <= SumFunctionOnSet(h, S)
  BY <1>1, <1>2, <1>5, SumMonotone
<1>7. SumFunctionOnSet(h, S) \in Nat
  BY <1>1, <1>4, SumNatural
<1>8. SumFunctionOnSet(h, S) <= MaxCents
  BY <1>3 DEF Held
<1>9. QED
  BY <1>6, <1>7, <1>8, MaxCentsAssumption

LEMMA ColumnsAreHeld ==
    ASSUME NEW lines, Held(lines), NEW own \in SUBSET DOMAIN lines
    PROVE  /\ \A head \in Heads : SumFunctionOnSet(Column(lines, head), own) \in 0 .. MaxCents
           /\ SumFunctionOnSet(TaxColumn(lines), own) \in 0 .. MaxCents
           /\ SumFunctionOnSet(Worths(lines), own) \in 0 .. MaxCents
<1>1. \A p \in DOMAIN lines : lines[p] \in Line
  BY DEF Held, IsLines
<1>2. ASSUME NEW head \in Heads
      PROVE  SumFunctionOnSet(Column(lines, head), own) \in 0 .. MaxCents
  <2>1. \A p \in DOMAIN lines : /\ Column(lines, head)[p] \in Nat
                                /\ Column(lines, head)[p] <= Worth(lines[p])
    BY <1>1, AmountsAreNatural DEF Column
  <2>2. QED
    BY <2>1, SumIsHeld
<1>3. SumFunctionOnSet(TaxColumn(lines), own) \in 0 .. MaxCents
  <2>1. \A p \in DOMAIN lines : /\ TaxColumn(lines)[p] \in Nat
                                /\ TaxColumn(lines)[p] <= Worth(lines[p])
    BY <1>1, AmountsAreNatural DEF TaxColumn
  <2>2. QED
    BY <2>1, SumIsHeld
<1>4. SumFunctionOnSet(Worths(lines), own) \in 0 .. MaxCents
  <2>1. \A p \in DOMAIN lines : /\ Worths(lines)[p] \in Nat
                                /\ Worths(lines)[p] <= Worth(lines[p])
    BY <1>1, AmountsAreNatural DEF Worths
  <2>2. QED
    BY <2>1, SumIsHeld
<1>5. QED
  BY <1>2, <1>3, <1>4

\* What some of the lines add up to is a sum over one column.
LEMMA LinesAddUp ==
    ASSUME NEW lines, IsLines(lines), NEW own \in SUBSET DOMAIN lines, NEW head \in Heads
    PROVE  /\ LinesSum(lines, own, head) = SumFunctionOnSet(Column(lines, head), own)
           /\ LinesSum(lines, own, head) \in Int
<1> DEFINE terms == [p \in own |-> Amounts(lines[p])]
           f == Column(lines, head)
           h == [p \in DOMAIN terms |-> terms[p][head]]
<1>1. LinesSum(lines, own, head) = SumFunctionOnSet(h, own)
  BY DEF LinesSum, Sum, SumFunction
<1>2. IsFiniteSet(own)
  BY FS_Subset DEF IsLines
<1>3. \A p \in own : f[p] \in Int /\ h[p] = f[p]
  BY AmountsAreNatural DEF IsLines, Column
<1> HIDE DEF h, f
<1>4. SumFunctionOnSet(h, own) = SumFunctionOnSet(f, own) /\ SumFunctionOnSet(f, own) \in Int
  BY <1>2, <1>3, SumSame, SumType
<1>5. QED
  BY <1>1, <1>4 DEF f

\* An aggregate of lines whose value Cents can hold is, head by head, a sum over its
\* own lines.
LEMMA AggregateIsSum ==
    ASSUME NEW lines, Held(lines), NEW own \in SUBSET DOMAIN lines, NEW head \in Heads
    PROVE  /\ Aggregate(lines, own)[head] = SumFunctionOnSet(Column(lines, head), own)
           /\ Aggregate(lines, own)[head] \in Int
<1>1. Aggregate(lines, own)[head] = Wrapped(LinesSum(lines, own, head))
  BY DEF Aggregate, Total, LinesSum
<1>2. LinesSum(lines, own, head) = SumFunctionOnSet(Column(lines, head), own)
  BY LinesAddUp DEF Held
<1>3. PICK n \in 0 .. MaxCents : n = SumFunctionOnSet(Column(lines, head), own)
  BY ColumnsAreHeld, Zenon
<1>4. Wrapped(n) = n
  BY WrappedIsSame
<1>5. QED
  BY <1>1, <1>2, <1>3, <1>4

\* However the lines are grouped, the groups together are all of them.
LEMMA GroupsAreTotal ==
    ASSUME NEW lines, Held(lines), NEW fields, NEW head \in Heads
    PROVE  Sum(Group(lines, fields), head) = SumFunctionOnSet(Column(lines, head), DOMAIN lines)
<1> DEFINE key   == [p \in DOMAIN lines |-> Key(lines[p], fields)]
           keys  == {key[p] : p \in DOMAIN lines}
           part  == [k \in keys |-> With(lines, fields, k)]
           f     == Column(lines, head)
           total == [k \in keys |-> Group(lines, fields)[k][head]]
<1>1. DOMAIN Group(lines, fields) = keys
  BY DEF Group
<1>2. Sum(Group(lines, fields), head) = SumFunctionOnSet(total, keys)
  BY <1>1 DEF Sum, SumFunction
<1>3. IsFiniteSet(keys)
  <2> HIDE DEF key
  <2> QED BY FiniteImage DEF Held, IsLines
<1>4. ASSUME NEW k \in keys
      PROVE  /\ IsFiniteSet(part[k])
             /\ \A p \in part[k] : f[p] \in Int
             /\ total[k] = SumFunctionOnSet(f, part[k])
             /\ \A l \in keys \ {k} : part[k] \cap part[l] = {}
  <2>1. part[k] \in SUBSET DOMAIN lines
    BY DEF With
  <2>2. IsFiniteSet(part[k])
    BY <2>1, FS_Subset DEF Held, IsLines
  <2>3. \A p \in part[k] : f[p] \in Int
    BY <2>1, AmountsAreNatural DEF Held, IsLines, Column
  <2>4. total[k] = Aggregate(lines, part[k])[head]
    BY DEF Group
  <2>5. \A l \in keys \ {k} : part[k] \cap part[l] = {}
    BY DEF With
  <2> HIDE DEF part, total, keys
  <2>6. total[k] = SumFunctionOnSet(f, part[k])
    BY <2>1, <2>4, AggregateIsSum
  <2>7. QED
    BY <2>2, <2>3, <2>5, <2>6
<1>5. UNION {part[k] : k \in keys} = DOMAIN lines
  BY DEF With
<1> HIDE DEF part, keys, total, f
<1>6. SumFunctionOnSet(total, keys) = SumFunctionOnSet(f, DOMAIN lines)
  BY <1>3, <1>4, <1>5, SumPartition
<1>7. QED
  BY <1>2, <1>6 DEF f

\* Table 4A as it is made from the lines
Table4A(lines) == [p \in B2B(lines) |-> Row(lines, p)]

LEMMA RowsAddUp ==
    ASSUME NEW lines, NEW places \in SUBSET B2B(lines), b2b = Table4A(lines), NEW head
    PROVE  RowsSum(places, head) = LinesSum(lines, places, head)
<1>1. \A p \in places : b2b[p].amounts = Amounts(lines[p])
  BY DEF Table4A, Row
<1>2. [p \in places |-> b2b[p].amounts] = [p \in places |-> Amounts(lines[p])]
  BY <1>1
<1>3. QED
  BY <1>2 DEF RowsSum, LinesSum

\* What is listed and what is left out are all of the lines.
LEMMA SplitsAddUp ==
    ASSUME NEW lines, IsLines(lines), NEW own \in SUBSET DOMAIN lines, NEW head \in Heads
    PROVE  LinesSum(lines, own, head) + LinesSum(lines, DOMAIN lines \ own, head)
               = SumFunctionOnSet(Column(lines, head), DOMAIN lines)
<1> DEFINE f == Column(lines, head)
           rest == DOMAIN lines \ own
<1>1. IsFiniteSet(own) /\ IsFiniteSet(rest)
  BY FS_Subset DEF IsLines
<1>2. \A p \in DOMAIN lines : f[p] \in Int
  BY AmountsAreNatural DEF IsLines, Column
<1>3. own \cup rest = DOMAIN lines /\ own \cap rest = {} /\ rest \in SUBSET DOMAIN lines
  OBVIOUS
<1>4. /\ LinesSum(lines, own, head) = SumFunctionOnSet(f, own)
      /\ LinesSum(lines, rest, head) = SumFunctionOnSet(f, rest)
  BY <1>3, LinesAddUp
<1> HIDE DEF f, rest
<1>5. SumFunctionOnSet(f, own \cup rest) = SumFunctionOnSet(f, own) + SumFunctionOnSet(f, rest)
  BY <1>1, <1>2, <1>3, SumUnion
<1>6. QED
  BY <1>3, <1>4, <1>5 DEF rest, f

\* The tax of some lines is the sum of theirs head by head, and they are worth that
\* and their taxable amounts.
LEMMA HeadsAddUp ==
    ASSUME NEW lines, IsLines(lines), NEW own \in SUBSET DOMAIN lines
    PROVE  LET sum(head) == SumFunctionOnSet(Column(lines, head), own) IN
           /\ SumFunctionOnSet(TaxColumn(lines), own) = sum("igst") + sum("cgst") + sum("sgst")
           /\ SumFunctionOnSet(Worths(lines), own)
                  = sum("taxable") + SumFunctionOnSet(TaxColumn(lines), own)
<1> DEFINE taxable == Column(lines, "taxable")
           igst  == Column(lines, "igst")
           cgst  == Column(lines, "cgst")
           sgst  == Column(lines, "sgst")
           two   == [p \in DOMAIN lines |-> igst[p] + cgst[p]]
           tax   == TaxColumn(lines)
           worth == Worths(lines)
<1>1. IsFiniteSet(own)
  BY FS_Subset DEF IsLines
<1>2. ASSUME NEW p \in own
      PROVE  /\ taxable[p] \in Int /\ igst[p] \in Int /\ cgst[p] \in Int /\ sgst[p] \in Int
             /\ two[p] \in Int /\ two[p] = igst[p] + cgst[p]
             /\ tax[p] \in Int /\ tax[p] = two[p] + sgst[p]
             /\ worth[p] = taxable[p] + tax[p]
  <2>1. lines[p] \in Line
    BY DEF IsLines
  <2>2. LET amounts == Amounts(lines[p]) IN
        /\ taxable[p] = amounts.taxable /\ igst[p] = amounts.igst
        /\ cgst[p] = amounts.cgst /\ sgst[p] = amounts.sgst
    BY DEF Column
  <2>3. LET amounts == Amounts(lines[p]) IN
        /\ amounts.taxable \in Int /\ amounts.igst \in Int
        /\ amounts.cgst \in Int /\ amounts.sgst \in Int
    BY <2>1, AmountsAreNatural DEF Heads
  <2>4. tax[p] = LineTax(lines[p]) /\ worth[p] = Worth(lines[p])
    BY DEF TaxColumn, Worths
  <2>5. LineTax(lines[p]) = Amounts(lines[p]).igst + Amounts(lines[p]).cgst + Amounts(lines[p]).sgst
    BY DEF LineTax, Amounts, Heads
  <2>6. Worth(lines[p]) = Amounts(lines[p]).taxable + LineTax(lines[p])
    BY <2>1, AmountsAreNatural
  <2>7. two[p] = igst[p] + cgst[p]
    OBVIOUS
  <2> HIDE DEF taxable, igst, cgst, sgst, two, tax, worth
  <2>8. QED
    BY <2>2, <2>3, <2>4, <2>5, <2>6, <2>7
<1> HIDE DEF taxable, igst, cgst, sgst, two, tax, worth
<1>3. SumFunctionOnSet(two, own) = SumFunctionOnSet(igst, own) + SumFunctionOnSet(cgst, own)
  BY <1>1, <1>2, SumPlus
<1>4. SumFunctionOnSet(tax, own) = SumFunctionOnSet(two, own) + SumFunctionOnSet(sgst, own)
  BY <1>1, <1>2, SumPlus
<1>5. SumFunctionOnSet(worth, own) = SumFunctionOnSet(taxable, own) + SumFunctionOnSet(tax, own)
  BY <1>1, <1>2, SumPlus
<1>6. QED
  BY <1>3, <1>4, <1>5 DEF taxable, igst, cgst, sgst, tax, worth

LEMMA TotalTaxIsSum ==
    ASSUME NEW lines, Held(lines), NEW own \in SUBSET DOMAIN lines
    PROVE  TotalTax(Aggregate(lines, own)) = SumFunctionOnSet(TaxColumn(lines), own)
<1>1. PICK n \in 0 .. MaxCents : n = SumFunctionOnSet(TaxColumn(lines), own)
  BY ColumnsAreHeld, Zenon
<1>2. LET total == Aggregate(lines, own) IN
      /\ total.igst = SumFunctionOnSet(Column(lines, "igst"), own)
      /\ total.cgst = SumFunctionOnSet(Column(lines, "cgst"), own)
      /\ total.sgst = SumFunctionOnSet(Column(lines, "sgst"), own)
  BY AggregateIsSum DEF Heads
<1>3. TotalTax(Aggregate(lines, own)) = Wrapped(n)
  BY <1>1, <1>2, HeadsAddUp DEF TotalTax, Held
<1>4. QED
  BY <1>1, <1>3, WrappedIsSame

LEMMA InvoiceValueIsSum ==
    ASSUME NEW lines, Held(lines), NEW i
    PROVE  LET own == {p \in DOMAIN lines : p[1] = i} IN
           InvoiceValue(lines, i) = SumFunctionOnSet(Column(lines, "taxable"), own)
                                        + SumFunctionOnSet(TaxColumn(lines), own)
<1> DEFINE own == {p \in DOMAIN lines : p[1] = i}
<1>1. own \in SUBSET DOMAIN lines
  OBVIOUS
<1>2. InvoiceValue(lines, i)
          = Wrapped(Aggregate(lines, own).taxable + TotalTax(Aggregate(lines, own)))
  BY DEF InvoiceValue
<1> HIDE DEF own
<1>3. PICK n \in 0 .. MaxCents : n = SumFunctionOnSet(Worths(lines), own)
  BY <1>1, ColumnsAreHeld, Zenon
<1>4. Aggregate(lines, own).taxable = SumFunctionOnSet(Column(lines, "taxable"), own)
  BY <1>1, AggregateIsSum DEF Heads
<1>5. TotalTax(Aggregate(lines, own)) = SumFunctionOnSet(TaxColumn(lines), own)
  BY <1>1, TotalTaxIsSum
<1>6. n = SumFunctionOnSet(Column(lines, "taxable"), own) + SumFunctionOnSet(TaxColumn(lines), own)
  BY <1>1, <1>3, HeadsAddUp DEF Held
<1>7. Wrapped(n) = n
  BY WrappedIsSame
<1>8. QED
  BY <1>2, <1>4, <1>5, <1>6, <1>7 DEF own

-----------------------------------------------------------------------------
(* Rounding *)

ChargedColumn(lines) == [p \in DOMAIN lines |-> Charged(lines[p])]

\* half a paisa for each head that a line is split into
Slack(supply) == 5000 * IF supply = "INTRA" THEN 2 ELSE 1

\* How far one line is off: half a paisa for each head that it is split into.
LEMMA LineRounding ==
    ASSUME NEW line \in Line, NEW bound \in Nat, bound = Slack(line.supply)
    PROVE  /\ LineTax(line) \in Nat /\ Charged(line) \in Nat
           /\ -bound < 10000 * LineTax(line) - Charged(line)
           /\ 10000 * LineTax(line) - Charged(line) <= bound
<1>1. line.base \in Nat /\ line.bps \in Nat /\ line.supply \in {"INTRA", "INTER"}
  BY MaxAmountAssumption DEF Line, Supply
<1>2. PICK base \in Nat, bps \in Nat : base = line.base /\ bps = line.bps
  BY <1>1
<1>3. CASE line.supply = "INTRA"
  <2>1. PICK half \in Nat : half = bps \div 2 /\ bps - (bps % 2) = 2 * half
    OBVIOUS
  <2>2. PICK tax \in Nat : tax = TaxOn(base, half) /\ HalfUp(tax, base * half)
    BY TaxOnRoundsHalfUp, Zenon
  <2>3. PICK m \in Nat : m = base * half /\ base * (2 * half) = 2 * m
    BY Products
  <2>4. Charged(line) = 2 * m
    BY <1>2, <1>3, <2>1, <2>3 DEF Charged
  <2>5. Split(line) = [igst |-> 0, cgst |-> tax, sgst |-> tax]
    BY <1>2, <1>3, <2>1, <2>2, Zenon DEF Split, TaxSplit, HeadRate
  <2>6. LineTax(line) = tax + tax
    BY <2>5 DEF LineTax
  <2>7. HalfUp(tax, m)
    BY <2>2, <2>3, Zenon
  <2>8. bound = 10000
    BY <1>3 DEF Slack
  <2>9. QED
    BY <2>4, <2>6, <2>7, <2>8 DEF HalfUp
<1>4. CASE line.supply = "INTER"
  <2>1. PICK whole \in Nat : /\ TaxSplit(base, bps, "INTER") = [igst |-> whole, cgst |-> 0, sgst |-> 0]
                             /\ HalfUp(whole, base * bps)
    BY InterSplit, Zenon
  <2>2. Split(line) = [igst |-> whole, cgst |-> 0, sgst |-> 0]
    BY <1>2, <1>4, <2>1 DEF Split
  <2>3. LineTax(line) = whole
    BY <2>2 DEF LineTax
  <2>4. PICK m \in Nat : m = base * bps
    BY Products
  <2>5. Charged(line) = m
    BY <1>2, <1>4, <2>4 DEF Charged
  <2>6. HalfUp(whole, m)
    BY <2>1, <2>4, Zenon
  <2>7. bound = 5000
    BY <1>4 DEF Slack
  <2>8. QED
    BY <2>3, <2>5, <2>6, <2>7 DEF HalfUp
<1>5. QED
  BY <1>1, <1>3, <1>4

\* However many lines of one supply type are added up, their rounding adds up to no
\* more than theirs one by one.
LEMMA AggregateRounding ==
    ASSUME NEW lines, Held(lines), NEW own \in SUBSET DOMAIN lines, own # {},
           NEW supply \in Supply, \A p \in own : lines[p].supply = supply
    PROVE  LET exact == SumFunctionOnSet(ChargedColumn(lines), own)
               error == 10000 * TotalTax(Aggregate(lines, own)) - exact
               slack == Slack(supply) * Cardinality(own)
           IN  -slack < error /\ error <= slack
<1> DEFINE c     == Slack(supply)
           tax   == TaxColumn(lines)
           scaled == [p \in DOMAIN lines |-> 10000 * tax[p]]
           exact == ChargedColumn(lines)
<1>1. IsFiniteSet(own) /\ c \in Nat
  BY FS_Subset DEF Held, IsLines, Slack
<1>2. ASSUME NEW p \in own
      PROVE  /\ tax[p] \in Int /\ scaled[p] \in Int /\ exact[p] \in Int
             /\ scaled[p] = 10000 * tax[p]
             /\ -c < scaled[p] - exact[p] /\ scaled[p] - exact[p] <= c
  <2>1. lines[p] \in Line /\ lines[p].supply = supply
    BY DEF Held, IsLines
  <2>2. tax[p] = LineTax(lines[p]) /\ exact[p] = Charged(lines[p])
    BY DEF TaxColumn, ChargedColumn
  <2>3. scaled[p] = 10000 * tax[p]
    OBVIOUS
  <2> HIDE DEF tax, scaled, exact, c
  <2>4. /\ LineTax(lines[p]) \in Nat /\ Charged(lines[p]) \in Nat
        /\ -c < 10000 * LineTax(lines[p]) - Charged(lines[p])
        /\ 10000 * LineTax(lines[p]) - Charged(lines[p]) <= c
    BY <1>1, <2>1, LineRounding DEF c
  <2>5. QED
    BY <2>2, <2>3, <2>4
<1> HIDE DEF tax, scaled, exact, c
<1>3. SumFunctionOnSet(scaled, own) = 10000 * SumFunctionOnSet(tax, own)
  BY <1>1, <1>2, SumTimes
<1>4. /\ -(c * Cardinality(own)) < SumFunctionOnSet(scaled, own) - SumFunctionOnSet(exact, own)
      /\ SumFunctionOnSet(scaled, own) - SumFunctionOnSet(exact, own) <= c * Cardinality(own)
  <2>1. \A p \in own : /\ scaled[p] \in Int /\ exact[p] \in Int
                       /\ -c < scaled[p] - exact[p] /\ scaled[p] - exact[p] <= c
    BY <1>2
  <2>2. QED
    BY <1>1, <2>1, SumsDiffer, Zenon
<1>5. TotalTax(Aggregate(lines, own)) = SumFunctionOnSet(tax, own)
  BY TotalTaxIsSum DEF tax
<1>6. QED
  BY <1>3, <1>4, <1>5 DEF exact, c

-----------------------------------------------------------------------------
(* What the files of a filing hold *)

\* Each file generated so far was made from the lines of the ledger, and once all
\* are there each line has passed the guard of taxOn.
FilesInv ==
    LET lines == Lines(ledger) IN
    /\ ledger \in Ledgers
    /\ next \in {"hsn", "gstr3b", "ready"} => b2b = Table4A(lines)
    /\ next \in {"gstr3b", "ready"} => hsn = Group(lines, {"hsn", "bps"})
    /\ next = "ready" => /\ gstr3b = Group(lines, {"supply"})
                         /\ \A p \in DOMAIN lines : ~Throws(lines[p])

LEMMA InitFiles == Init => FilesInv
  BY DEF Init, FilesInv

LEMMA NextFiles == FilesInv /\ [Next]_vars => FilesInv'
<1> SUFFICES ASSUME FilesInv, [Next]_vars PROVE FilesInv'
  OBVIOUS
<1>1. CASE Gstr1B2B
  <2>1. DOMAIN Scope = B2B(Lines(ledger))
    BY <1>1 DEF Gstr1B2B, Scope, Restrict, B2B
  <2>2. b2b' = Table4A(Lines(ledger))
    BY <1>1, <2>1 DEF Gstr1B2B, Table4A
  <2>3. QED
    BY <1>1, <2>2 DEF Gstr1B2B, FilesInv
<1>2. CASE Gstr1HsnSummary
  <2>1. Scope = Lines(ledger)
    BY <1>2 DEF Gstr1HsnSummary, Scope
  <2>2. QED
    BY <1>2, <2>1 DEF Gstr1HsnSummary, FilesInv
<1>3. CASE Gstr3B
  <2>1. Scope = Lines(ledger)
    BY <1>3 DEF Gstr3B, Scope
  <2>2. QED
    BY <1>3, <2>1 DEF Gstr3B, Fits, FilesInv
<1>4. CASE Overflow
  BY <1>4 DEF Overflow, FilesInv
<1>5. CASE UNCHANGED vars
  BY <1>5 DEF vars, FilesInv
<1>6. QED
  BY <1>1, <1>2, <1>3, <1>4, <1>5 DEF Next

LEMMA ReadyFiles ==
    ASSUME FilesInv, next = "ready"
    PROVE  /\ IsLines(Lines(ledger))
           /\ b2b = Table4A(Lines(ledger))
           /\ hsn = Group(Lines(ledger), {"hsn", "bps"})
           /\ gstr3b = Group(Lines(ledger), {"supply"})
           /\ \A p \in DOMAIN Lines(ledger) : ~Throws(Lines(ledger)[p])
<1>1. ledger \in Seq(Invoice)
  BY LedgersAssumption DEF FilesInv
<1>2. IsLines(Lines(ledger))
  BY <1>1, LinesAreLines
<1>3. QED
  BY <1>2 DEF FilesInv

LineFits(line) == line.base * HeadRate(line.bps, line.supply) + 5000 <= MaxCents

LEMMA GuardedLineFits == ASSUME NEW line \in Line, ~Throws(line) PROVE LineFits(line)
<1> DEFINE rate == HeadRate(line.bps, line.supply)
<1>1. line.base \in Nat /\ line.bps \in Nat /\ line.bps \div 2 \in Nat
  BY DEF Line
<1>2. rate \in Nat
  BY <1>1 DEF HeadRate
<1>3. ~TaxOverflows(line.base, rate)
  BY DEF Throws
<1> HIDE DEF rate
<1>4. line.base * rate + 5000 \in 0 .. MaxCents
  BY <1>1, <1>2, <1>3, TaxOnFits
<1>5. line.base * rate + 5000 <= MaxCents
  BY <1>4, MaxCentsAssumption
<1>6. QED
  BY <1>5 DEF rate, LineFits

\* A line that taxOn lets through is worth no more than MostWorth.
LEMMA FittingLineIsWorth ==
    ASSUME NEW line \in Line, LineFits(line)
    PROVE  Worth(line) <= MostWorth
<1>1. line.base \in Nat /\ line.base <= MaxAmount /\ line.bps \in Nat
      /\ line.supply \in {"INTRA", "INTER"} /\ MaxCents \in Nat /\ MaxAmount \in Nat
  BY MaxAmountAssumption, MaxCentsAssumption DEF Line, Supply
<1>2. PICK rate \in Nat : rate = HeadRate(line.bps, line.supply)
  BY <1>1 DEF HeadRate
<1>3. PICK n \in Nat : n = line.base * rate + 5000 /\ n <= MaxCents
  BY <1>1, <1>2, Products DEF LineFits
<1>4. PICK tax \in Nat : tax = n \div 10000 /\ tax <= MaxCents \div 10000
  BY <1>1, <1>3
<1>5. TaxOn(line.base, rate) = tax
  BY <1>3, <1>4 DEF TaxOn
<1>6. Split(line) = IF line.supply = "INTRA" THEN [igst |-> 0, cgst |-> tax, sgst |-> tax]
                                             ELSE [igst |-> tax, cgst |-> 0, sgst |-> 0]
  BY <1>2, <1>5 DEF Split, TaxSplit
<1>7. Worth(line) <= line.base + 2 * tax
  BY <1>1, <1>6 DEF Worth
<1>8. line.base + 2 * tax <= MostWorth
  BY <1>1, <1>4 DEF MostWorth
<1>9. QED
  <2>1. Worth(line) \in Int /\ MostWorth \in Int
    BY <1>1, AmountsAreNatural DEF MostWorth
  <2>2. QED
    BY <1>1, <1>7, <1>8, <2>1

LEMMA FittingLinesAreHeld ==
    ASSUME NEW lines, IsLines(lines), \A p \in DOMAIN lines : LineFits(lines[p]),
           Cardinality(DOMAIN lines) * MostWorth <= MaxCents
    PROVE  Value(lines) <= MaxCents
<1> DEFINE S == DOMAIN lines
           f == Worths(lines)
<1>1. IsFiniteSet(S)
  BY DEF IsLines
<1>2. \A p \in S : f[p] \in Nat /\ f[p] <= MostWorth
  BY AmountsAreNatural, FittingLineIsWorth DEF IsLines, Worths
<1>3. MostWorth \in Nat
  BY MaxCentsAssumption, MaxAmountAssumption DEF MostWorth
<1>4. Value(lines) = SumFunctionOnSet(f, S)
  BY DEF Value, SumFunction, Worths
<1>5. Cardinality(S) * MostWorth <= MaxCents
  OBVIOUS
<1> HIDE DEF S, f
<1>6. SumFunctionOnSet(f, S) <= MostWorth * Cardinality(S)
  BY <1>1, <1>2, <1>3, SumBounded
<1>7. PICK m \in Nat, k \in Nat, v \in Nat :
          m = MostWorth /\ k = Cardinality(S) /\ v = SumFunctionOnSet(f, S)
  BY <1>1, <1>2, <1>3, FS_CardinalityType, SumNatural
<1>8. v <= m * k /\ k * m <= MaxCents
  BY <1>5, <1>6, <1>7
<1>9. v <= MaxCents
  BY <1>8, MaxCentsAssumption
<1>10. QED
  BY <1>4, <1>7, <1>9

\* No product leaves Cents, because each of the three generators recomputes the tax
\* of its lines and any of them throws before the filing does; and no sum does, up to
\* the number of lines that the cap on one amount allows for, though no sum is
\* guarded (StateMatrix.cpp:70,87-93, Pipeline.cpp:314-318, GSTRGenerator.cpp:81-90).
THEOREM CentsAlwaysSuffice == Spec => []CentsSuffice
<1>1. FilesInv => CentsSuffice
  <2> DEFINE lines == Lines(ledger)
  <2>1. SUFFICES ASSUME FilesInv, next = "ready"
                 PROVE  /\ \A p \in DOMAIN lines : LineFits(lines[p])
                        /\ Cardinality(DOMAIN lines) * MostWorth <= MaxCents
                               => Value(lines) <= MaxCents
    BY DEF CentsSuffice, LineFits
  <2>2. IsLines(lines) /\ \A p \in DOMAIN lines : ~Throws(lines[p])
    BY <2>1, ReadyFiles
  <2> HIDE DEF lines
  <2>3. \A p \in DOMAIN lines : LineFits(lines[p])
    BY <2>2, GuardedLineFits DEF IsLines
  <2>4. QED
    BY <2>2, <2>3, FittingLinesAreHeld
<1>2. QED
  BY <1>1, InitFiles, NextFiles, PTL DEF Spec

LEMMA ReadyAreHeld == ASSUME FilesInv, ReadyAndHeld PROVE Held(Lines(ledger))
  BY ReadyFiles DEF ReadyAndHeld, Held

\* As long as Cents can hold the ledger, the HSN summary and GSTR-3B, each grouped by
\* its own fields, total the same on every head, and Table 4A is short of them by
\* exactly the lines it does not list (GSTRGenerator.cpp:114-238).
THEOREM FilesReconcile == Spec => []ReturnsReconcile
<1>1. FilesInv => ReturnsReconcile
  <2> SUFFICES ASSUME FilesInv, ReadyAndHeld PROVE ReturnsReconcile
    BY DEF ReturnsReconcile
  <2> DEFINE lines == Lines(ledger)
  <2>1. /\ Held(lines) /\ IsLines(lines) /\ b2b = Table4A(lines)
        /\ hsn = Group(lines, {"hsn", "bps"}) /\ gstr3b = Group(lines, {"supply"})
    BY ReadyFiles, ReadyAreHeld DEF ReadyAndHeld
  <2>2. DOMAIN b2b = B2B(lines) /\ B2B(lines) \in SUBSET DOMAIN lines
    BY <2>1 DEF Table4A, B2B
  <2> HIDE DEF lines
  <2>3. ASSUME NEW head \in Heads
        PROVE  /\ Sum(hsn, head) = Sum(gstr3b, head)
               /\ RowsSum(DOMAIN b2b, head) + LinesSum(lines, DOMAIN lines \ B2B(lines), head)
                      = Sum(gstr3b, head)
    <3> DEFINE all == SumFunctionOnSet(Column(lines, head), DOMAIN lines)
    <3>1. Sum(hsn, head) = all /\ Sum(gstr3b, head) = all
      BY <2>1, GroupsAreTotal
    <3>2. RowsSum(DOMAIN b2b, head) = LinesSum(lines, B2B(lines), head)
      BY <2>1, <2>2, RowsAddUp
    <3>3. LinesSum(lines, B2B(lines), head) + LinesSum(lines, DOMAIN lines \ B2B(lines), head) = all
      BY <2>1, <2>2, SplitsAddUp
    <3>4. QED
      BY <3>1, <3>2, <3>3
  <2>4. QED
    BY <2>3 DEF ReturnsReconcile, lines
<1>2. QED
  BY <1>1, InitFiles, NextFiles, PTL DEF Spec

\* An invoice is listed whole or not at all, so the value recomputed from its items
\* is what its rows of Table 4A add up to, as long as Cents can hold the ledger
\* (GSTRGenerator.cpp:125-134).
THEOREM InvoiceValuesAdd == Spec => []InvoiceValueAdds
<1>1. FilesInv => InvoiceValueAdds
  <2> DEFINE Rows(p) == {q \in DOMAIN b2b : q[1] = p[1]}
  <2> SUFFICES ASSUME FilesInv, ReadyAndHeld, NEW p \in DOMAIN b2b
               PROVE  b2b[p].value = RowsSum(Rows(p), "taxable") + RowsSum(Rows(p), "igst")
                                         + RowsSum(Rows(p), "cgst") + RowsSum(Rows(p), "sgst")
    BY DEF InvoiceValueAdds
  <2> DEFINE lines == Lines(ledger)
             own   == {q \in DOMAIN lines : q[1] = p[1]}
             sum(head) == SumFunctionOnSet(Column(lines, head), own)
  <2>1. Held(lines) /\ IsLines(lines) /\ b2b = Table4A(lines) /\ DOMAIN b2b = B2B(lines)
    BY ReadyFiles, ReadyAreHeld DEF Table4A, ReadyAndHeld
  <2>2. \A q \in DOMAIN lines : lines[q].class = ledger[q[1]].class
    BY DEF Lines, LineAt
  <2>3. own = Rows(p) /\ own \in SUBSET B2B(lines) /\ own \in SUBSET DOMAIN lines
    BY <2>1, <2>2 DEF B2B, IsB2B
  <2>4. b2b[p].value = InvoiceValue(lines, p[1])
    BY <2>1 DEF Table4A, Row
  <2>5. InvoiceValue(lines, p[1]) = sum("taxable") + SumFunctionOnSet(TaxColumn(lines), own)
    <3> HIDE DEF lines
    <3>1. QED
      BY <2>1, InvoiceValueIsSum
  <2> HIDE DEF lines, own, Rows
  <2>6. SumFunctionOnSet(TaxColumn(lines), own) = sum("igst") + sum("cgst") + sum("sgst")
    BY <2>1, <2>3, HeadsAddUp
  <2>7. ASSUME NEW head \in Heads
        PROVE  RowsSum(Rows(p), head) = sum(head) /\ sum(head) \in Int
    <3>1. RowsSum(own, head) = LinesSum(lines, own, head)
      BY <2>1, <2>3, RowsAddUp
    <3>2. LinesSum(lines, own, head) = sum(head) /\ LinesSum(lines, own, head) \in Int
      BY <2>1, <2>3, LinesAddUp
    <3>3. QED
      BY <2>3, <3>1, <3>2
  <2> HIDE DEF sum
  <2>8. QED
    BY <2>4, <2>5, <2>6, <2>7 DEF Heads
<1>2. QED
  BY <1>1, InitFiles, NextFiles, PTL DEF Spec

\* However many lines fall into a bucket of GSTR-3B, at whatever rates, its tax stays
\* within half a paisa per line and head of what is charged on them, an odd rate
\* within a state being charged a basis point short (StateMatrix.hpp:49-52,
\* StateMatrix.cpp:112).
THEOREM RoundingStaysBounded == Spec => []RoundingIsBounded
<1>1. FilesInv => RoundingIsBounded
  <2> DEFINE lines == Lines(ledger)
  <2> SUFFICES ASSUME FilesInv, ReadyAndHeld, NEW bucket \in DOMAIN gstr3b
               PROVE  LET own   == {p \in DOMAIN lines : lines[p].supply = bucket.supply}
                          exact == SumFunction([p \in own |-> Charged(lines[p])])
                          error == 10000 * TotalTax(gstr3b[bucket]) - exact
                          slack == 5000 * Cardinality(own)
                                       * IF bucket.supply = "INTRA" THEN 2 ELSE 1
                      IN  -slack < error /\ error <= slack
    BY DEF RoundingIsBounded
  <2> DEFINE own == {p \in DOMAIN lines : lines[p].supply = bucket.supply}
  <2>1. Held(lines) /\ IsLines(lines) /\ gstr3b = Group(lines, {"supply"})
    BY ReadyFiles, ReadyAreHeld DEF ReadyAndHeld
  <2>2. PICK q \in DOMAIN lines : bucket = Key(lines[q], {"supply"})
    BY <2>1 DEF Group
  <2>3. bucket.supply = lines[q].supply
    BY <2>2 DEF Key
  <2>4. With(lines, {"supply"}, bucket) = own
    BY <2>2, <2>3 DEF With, Key
  <2>5. gstr3b[bucket] = Aggregate(lines, own)
    BY <2>1, <2>4 DEF Group
  <2>6. own # {} /\ own \in SUBSET DOMAIN lines /\ bucket.supply \in Supply
    <3>1. lines[q] \in Line
      BY <2>1 DEF IsLines
    <3>2. lines[q].supply \in Supply
      BY <3>1 DEF Line
    <3>3. QED
      BY <2>3, <3>2
  <2>7. IsFiniteSet(own) /\ Cardinality(own) \in Nat
    BY <2>1, <2>6, FS_Subset, FS_CardinalityType DEF IsLines
  <2>8. SumFunction([p \in own |-> Charged(lines[p])])
            = SumFunctionOnSet(ChargedColumn(lines), own)
    <3> DEFINE h == [p \in own |-> Charged(lines[p])]
               f == ChargedColumn(lines)
    <3>1. \A p \in own : f[p] \in Int /\ h[p] = f[p]
      <4> SUFFICES ASSUME NEW p \in own PROVE f[p] \in Int /\ h[p] = f[p]
        OBVIOUS
      <4>1. lines[p] \in Line /\ Slack(lines[p].supply) \in Nat
        BY <2>1 DEF IsLines, Slack
      <4>2. Charged(lines[p]) \in Int
        BY <4>1, LineRounding
      <4>3. QED
        BY <4>2 DEF ChargedColumn
    <3>2. SumFunction(h) = SumFunctionOnSet(h, own)
      BY DEF SumFunction
    <3> HIDE DEF h, f
    <3>3. SumFunctionOnSet(h, own) = SumFunctionOnSet(f, own)
      BY <2>7, <3>1, SumSame
    <3>4. QED
      BY <3>2, <3>3 DEF h, f
  <2>9. \A p \in own : lines[p].supply = bucket.supply
    OBVIOUS
  <2> HIDE DEF own, lines
  <2>10. LET error == 10000 * TotalTax(Aggregate(lines, own)) - SumFunctionOnSet(ChargedColumn(lines), own)
             slack == Slack(bucket.supply) * Cardinality(own)
         IN  -slack < error /\ error <= slack
    BY <2>1, <2>6, <2>9, AggregateRounding
  <2>11. Slack(bucket.supply) * Cardinality(own)
             = 5000 * Cardinality(own) * IF bucket.supply = "INTRA" THEN 2 ELSE 1
    BY <2>7 DEF Slack
  <2>12. QED
    BY <2>5, <2>8, <2>10, <2>11 DEF own
<1>2. QED
  BY <1>1, InitFiles, NextFiles, PTL DEF Spec
=============================================================================
