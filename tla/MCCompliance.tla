---------------------------- MODULE MCCompliance ----------------------------
(* Two slices through the documents: everything about the tax heads with the *)
(* rest in order, and everything else with the tax heads in order.           *)
EXTENDS Compliance, SequencesExt

\* the string that lists these codes, separated by commas
HsnString(codes) ==
    Str(codes, FoldLeft(LAMBDA n, code : n + code.length, Len(codes) - 1, codes))
Digits(length) == [length |-> length, numeric |-> TRUE]

\* the amounts are ten to the paisa
InOrder == [aato_crore |-> Absent, irn_present |-> Bool(FALSE), reported_on |-> Absent,
            place_of_supply |-> SameState, supply_type |-> Str("INTRA", 5),
            has_igst |-> Bool(FALSE), has_cgst_sgst |-> Bool(TRUE),
            igst |-> Absent, cgst |-> Num(10), sgst |-> Num(10),
            hsn_string |-> HsnString(<<Digits(4)>>),
            classification |-> Str("B2B", 3), buyer_gstin |-> Str("gstin", 15)]

Places == {SameState, Str("MH", 2)}
Supply == {Str("INTRA", 5), Str("INTER", 5)}

\* a head left out, none, what just rounds to none and to a paisa, and two amounts
\* that come to the same paisa
Amounts == {Absent} \cup {Num(n) : n \in {0, 4, 5, 10, 14}}

TaxDocs ==
    {[InOrder EXCEPT !.place_of_supply = p, !.supply_type = s, !.has_igst = h,
                     !.igst = i, !.cgst = c, !.sgst = g] :
        p \in Places, s \in Supply, h \in {Bool(TRUE), Bool(FALSE)},
        i \in Amounts, c \in Amounts, g \in Amounts}

\* no code, codes of the right and the wrong length, not a number; two right codes in
\* a string of 11, and wrong ones in strings of 8, which passes, and of 9
HsnStrings ==
    {HsnString(codes) : codes \in
        {<<Digits(0)>>, <<Digits(4)>>, <<Digits(7)>>, <<Digits(8)>>,
         <<[length |-> 6, numeric |-> FALSE]>>,
         <<Digits(4), Digits(6)>>, <<Digits(3), Digits(4)>>, <<Digits(5), Digits(3)>>}}

OtherDocs ==
    {[InOrder EXCEPT !.aato_crore = a, !.irn_present = Bool(r), !.reported_on = o,
                     !.hsn_string = h, !.classification = c, !.buyer_gstin = b] :
        a \in {Absent, Num(4), Num(5), Num(6)}, r \in BOOLEAN,
        o \in {Absent, Str("", 0), Str("within", 10), Str("late", 10)},
        h \in HsnStrings,
        c \in {Str("B2B", 3), Str("B2C", 3), Str("UNDETERMINED", 12)},
        b \in {Absent, Str("", 0), Str("gstin", 15)}}

MCDocs == TaxDocs \cup OtherDocs

\* documents in order but for supply_type, place of supply and the heads claimed
InterDocs == {d \in TaxDocs : /\ d.supply_type.v = "INTER"
                              /\ {d.igst, d.cgst, d.sgst} \subseteq {Absent, Num(10)}}

\* documents in order that list two codes, both of a valid length
TwoCodes == {[InOrder EXCEPT !.hsn_string = HsnString(<<Digits(m), Digits(n)>>)] :
                m \in {4, 6, 8}, n \in {4, 6, 8}}
=============================================================================
