-------------------------- MODULE ComplianceProofs --------------------------
(***************************************************************************)
(* What the seven configured rules say of a document, and that the generic *)
(* evaluator says it: for every document that passes the sanitizer.        *)
(***************************************************************************)
EXTENDS Compliance, TLAPS

-----------------------------------------------------------------------------
(* The evaluator *)

IsLeaf(c) == c.kind = "leaf"

LEMMA AllFire ==
    ASSUME NEW checks, checks # {}, NEW d
    PROVE  /\ Fires(Group("AND", checks), d, Thresholds)
                  <=> \A k \in checks : InnerFires(k, d, Thresholds)
           /\ InnerFires(Group("AND", checks), d, Thresholds)
                  <=> \A k \in checks : LeafFires(k, d, Thresholds)
<1>1. /\ Group("AND", checks).kind # "leaf" /\ Group("AND", checks).operator # "OR"
      /\ Group("AND", checks).checks = checks
  BY DEF Group
<1>2. QED
  BY <1>1 DEF Fires, InnerFires, Combines

LEMMA SomeFires ==
    ASSUME NEW checks, checks # {}, NEW d
    PROVE  Fires(Group("OR", checks), d, Thresholds)
               <=> \E k \in checks : InnerFires(k, d, Thresholds)
<1>1. /\ Group("OR", checks).kind # "leaf" /\ Group("OR", checks).operator = "OR"
      /\ Group("OR", checks).checks = checks
  BY DEF Group
<1>2. QED
  BY <1>1 DEF Fires, Combines

\* What a leaf of each operator fires on.
LEMMA LeavesFire ==
    ASSUME NEW field, NEW d, NEW lit, NEW values, NEW other
    PROVE  LET fact == Fact(d, field) IN
           /\ LeafFires(Is(field, "present"), d, Thresholds) <=> Present(fact)
           /\ LeafFires(Is(field, "absent"), d, Thresholds) <=> ~Present(fact)
           /\ LeafFires(Is(field, "eq_true"), d, Thresholds) <=> fact.tag = "bool" /\ fact.v
           /\ LeafFires(Is(field, "eq_false"), d, Thresholds) <=> fact.tag = "bool" /\ ~fact.v
           /\ LeafFires(Lengths(field, values), d, Thresholds)
                  <=> fact.tag = "str" /\ fact.length \notin values
           /\ LeafFires(Cross(field, other), d, Thresholds)
                  <=> /\ Present(fact) /\ Present(Fact(d, other))
                      /\ ~SameValue(fact, Fact(d, other))
           /\ LeafFires(Versus(field, "eq", lit), d, Thresholds)
                  <=> Present(fact) /\ SameValue(fact, lit)
           /\ LeafFires(Versus(field, "neq", lit), d, Thresholds)
                  <=> Present(fact) /\ ~SameValue(fact, lit)
           /\ LeafFires(Threshold(field, "gt", lit, "e_invoicing_aato_crore"), d, Thresholds)
                  <=> fact.tag = "num" /\ fact.v > AatoLimit
<1>1. /\ Is(field, "present").field = field /\ Is(field, "present").op = "present"
      /\ Is(field, "absent").field = field /\ Is(field, "absent").op = "absent"
      /\ Is(field, "eq_true").field = field /\ Is(field, "eq_true").op = "eq_true"
      /\ Is(field, "eq_false").field = field /\ Is(field, "eq_false").op = "eq_false"
  BY DEF Is, Leaf
<1>2. /\ Lengths(field, values).field = field /\ Lengths(field, values).op = "token_length_out"
      /\ Lengths(field, values).arg.values = values
  BY DEF Lengths, Leaf, NoArgument
<1>3. /\ Cross(field, other).field = field /\ Cross(field, other).op = "ne_cross"
      /\ Cross(field, other).arg.from = other
  BY DEF Cross, Leaf, NoArgument
<1>4. ASSUME NEW op
      PROVE  /\ Versus(field, op, lit).field = field /\ Versus(field, op, lit).op = op
             /\ Literal(Versus(field, op, lit).arg, Thresholds) = lit
  BY DEF Versus, Leaf, NoArgument, Literal, Thresholds
<1>5. LET check == Threshold(field, "gt", lit, "e_invoicing_aato_crore") IN
      /\ check.field = field /\ check.op = "gt"
      /\ Literal(check.arg, Thresholds) = Num(AatoLimit)
  BY DEF Threshold, Leaf, NoArgument, Literal, Thresholds
<1> DEFINE fact == Fact(d, field)
<1>6. /\ LeafFires(Is(field, "present"), d, Thresholds) <=> Present(fact)
      /\ LeafFires(Is(field, "absent"), d, Thresholds) <=> ~Present(fact)
  BY <1>1 DEF LeafFires
<1>7. /\ LeafFires(Is(field, "eq_true"), d, Thresholds) <=> fact.tag = "bool" /\ fact.v
      /\ LeafFires(Is(field, "eq_false"), d, Thresholds) <=> fact.tag = "bool" /\ ~fact.v
  BY <1>1 DEF LeafFires
<1>8. LeafFires(Lengths(field, values), d, Thresholds)
          <=> fact.tag = "str" /\ fact.length \notin values
  BY <1>2 DEF LeafFires
<1>9. LeafFires(Cross(field, other), d, Thresholds)
          <=> Present(fact) /\ Present(Fact(d, other)) /\ ~SameValue(fact, Fact(d, other))
  BY <1>3 DEF LeafFires
<1>10. /\ LeafFires(Versus(field, "eq", lit), d, Thresholds)
              <=> Present(fact) /\ SameValue(fact, lit)
       /\ LeafFires(Versus(field, "neq", lit), d, Thresholds)
              <=> Present(fact) /\ ~SameValue(fact, lit)
  <2>1. /\ LeafFires(Versus(field, "eq", lit), d, Thresholds) <=> Compare("eq", fact, lit)
        /\ LeafFires(Versus(field, "neq", lit), d, Thresholds) <=> Compare("neq", fact, lit)
    BY <1>4 DEF LeafFires
  <2>2. /\ Compare("eq", fact, lit) <=> Present(fact) /\ SameValue(fact, lit)
        /\ Compare("neq", fact, lit) <=> Present(fact) /\ ~SameValue(fact, lit)
    BY DEF Compare
  <2>3. QED
    BY <2>1, <2>2
<1>11. LeafFires(Threshold(field, "gt", lit, "e_invoicing_aato_crore"), d, Thresholds)
           <=> fact.tag = "num" /\ fact.v > AatoLimit
  <2>1. LeafFires(Threshold(field, "gt", lit, "e_invoicing_aato_crore"), d, Thresholds)
            <=> Compare("gt", fact, Num(AatoLimit))
    BY <1>5 DEF LeafFires
  <2>2. Compare("gt", fact, Num(AatoLimit)) <=> fact.tag = "num" /\ fact.v > AatoLimit
    BY DEF Compare, Num
  <2>3. QED
    BY <2>1, <2>2
<1>12. QED
  BY <1>6, <1>7, <1>8, <1>9, <1>10, <1>11

LEMMA ChecksAreLeaves ==
    ASSUME NEW field, NEW op, NEW lit, NEW source, NEW values, NEW other
    PROVE  /\ IsLeaf(Is(field, op)) /\ IsLeaf(Versus(field, op, lit))
           /\ IsLeaf(Lengths(field, values)) /\ IsLeaf(Cross(field, other))
           /\ IsLeaf(Threshold(field, op, lit, source))
BY DEF IsLeaf, Is, Versus, Lengths, Cross, Threshold, Leaf

LEMMA LeafAlone ==
    ASSUME NEW c, IsLeaf(c), NEW d
    PROVE  /\ Fires(c, d, Thresholds) <=> LeafFires(c, d, Thresholds)
           /\ InnerFires(c, d, Thresholds) <=> LeafFires(c, d, Thresholds)
BY DEF Fires, InnerFires, IsLeaf

-----------------------------------------------------------------------------
(* The rules *)

\* What each configured rule asks of a document, in so many words.
Overdue(d)     == d.aato_crore.tag = "num" /\ d.aato_crore.v > AatoLimit
Unreported(d)  == d.irn_present.tag = "bool" /\ ~d.irn_present.v
Reported(d)    == d.irn_present.tag = "bool" /\ d.irn_present.v
AtHome(d)      == Present(d.place_of_supply) /\ SameValue(d.place_of_supply, SameState)
Away(d)        == Present(d.place_of_supply) /\ ~SameValue(d.place_of_supply, SameState)
BadHsn(d)      == d.hsn_string.tag = "str" /\ d.hsn_string.length \notin {4, 6, 8}
Uneven(d)      == \/ ~Present(d.cgst) \/ ~Present(d.sgst)
                  \/ Present(d.sgst) /\ Present(d.cgst) /\ ~SameValue(d.sgst, d.cgst)
Undetermined(d) == /\ Present(d.classification)
                   /\ SameValue(d.classification, Str("UNDETERMINED", 12))
Anonymous(d)   == /\ Present(d.classification)
                  /\ ~SameValue(d.classification, Str("B2C", 3))
                  /\ ~Present(d.buyer_gstin)

\* whether the i-th rule is skipped
Skips(i, d) ==
    \/ i = 1 /\ ~Present(d.aato_crore)
    \/ i = 2 /\ ~Reported(d)
    \/ i = 6 /\ HasIgst(d)

\* whether the i-th rule is violated
Violates(i, d) ==
    \/ i = 1 /\ Present(d.aato_crore) /\ Overdue(d) /\ Unreported(d)
    \/ i = 2 /\ Reported(d) /\ ~Present(d.reported_on)
    \/ i = 3 /\ AtHome(d) /\ HasIgst(d)
    \/ i = 4 /\ Away(d) /\ HasCgstSgst(d)
    \/ i = 5 /\ BadHsn(d)
    \/ i = 6 /\ ~HasIgst(d) /\ Uneven(d)
    \/ i = 7 /\ (Undetermined(d) \/ Anonymous(d))

Verdict(i, d) ==
    [id |-> Rules[i].id, skipped |-> Skips(i, d), violated |-> Violates(i, d)]

LEMMA FactsOf ==
    ASSUME NEW d
    PROVE  /\ \A path \in Paths \ {"has_igst", "has_cgst_sgst"} : Fact(d, path) = d[path]
           /\ Fact(d, "has_igst") = Bool(HasIgst(d))
           /\ Fact(d, "has_cgst_sgst") = Bool(HasCgstSgst(d))
BY DEF Fact

LEMMA AsVerdict ==
    ASSUME NEW d, NEW i \in 1 .. 7, NEW rule, rule = Rules[i],
           (rule.when # Always /\ ~Fires(rule.when, d, Thresholds)) <=> Skips(i, d),
           ~Skips(i, d) /\ Fires(rule.condition, d, Thresholds) <=> Violates(i, d)
    PROVE  EvalRule(rule, d, Thresholds) = Verdict(i, d)
BY DEF EvalRule, Verdict, Skips, Violates

LEMMA WhenApplies ==
    ASSUME NEW d, NEW i \in 1 .. 7, NEW field, NEW op, op # "always", NEW operator, NEW checks,
           Rules[i] = Rule(Rules[i].id, Is(field, op), operator, checks),
           LeafFires(Is(field, op), d, Thresholds) <=> ~Skips(i, d),
           ~Skips(i, d) /\ Fires(Group(operator, checks), d, Thresholds) <=> Violates(i, d)
    PROVE  EvalRule(Rules[i], d, Thresholds) = Verdict(i, d)
<1>1. Is(field, op) # Always
  BY DEF Is, Leaf, Always
<1>2. Fires(Is(field, op), d, Thresholds) <=> LeafFires(Is(field, op), d, Thresholds)
  BY ChecksAreLeaves, LeafAlone
<1>3. Rules[i].when = Is(field, op) /\ Rules[i].condition = Group(operator, checks)
  BY DEF Rule
<1>4. QED
  BY <1>1, <1>2, <1>3, AsVerdict

LEMMA AlwaysApplies ==
    ASSUME NEW d, NEW i \in 1 .. 7, NEW operator, NEW checks,
           Rules[i] = Rule(Rules[i].id, Always, operator, checks), ~Skips(i, d),
           Fires(Group(operator, checks), d, Thresholds) <=> Violates(i, d)
    PROVE  EvalRule(Rules[i], d, Thresholds) = Verdict(i, d)
<1>1. Rules[i].when = Always /\ Rules[i].condition = Group(operator, checks)
  BY DEF Rule
<1>2. QED
  BY <1>1, AsVerdict

\* Rule by rule, the evaluator's verdict is the one in so many words.
LEMMA EInvoiceVerdict ==
    ASSUME NEW d PROVE EvalRule(Rules[1], d, Thresholds) = Verdict(1, d)
<1> DEFINE over   == Threshold("aato_crore", "gt", Num(5), "e_invoicing_aato_crore")
           absent == Is("irn_present", "eq_false")
<1>1. Fact(d, "aato_crore") = d.aato_crore /\ Fact(d, "irn_present") = d.irn_present
  BY FactsOf DEF Paths
<1>2. /\ InnerFires(over, d, Thresholds) <=> Overdue(d)
      /\ InnerFires(absent, d, Thresholds) <=> Unreported(d)
      /\ LeafFires(Is("aato_crore", "present"), d, Thresholds) <=> Present(d.aato_crore)
  BY <1>1, LeavesFire, ChecksAreLeaves, LeafAlone DEF Overdue, Unreported
<1> HIDE DEF over, absent
<1>3. Fires(Group("AND", {over, absent}), d, Thresholds) <=> Overdue(d) /\ Unreported(d)
  BY <1>2, AllFire
<1>4. /\ LeafFires(Is("aato_crore", "present"), d, Thresholds) <=> ~Skips(1, d)
      /\ ~Skips(1, d) /\ Fires(Group("AND", {over, absent}), d, Thresholds) <=> Violates(1, d)
  BY <1>2, <1>3 DEF Skips, Violates
<1>5. Rules[1] = Rule(Rules[1].id, Is("aato_crore", "present"), "AND", {over, absent})
  BY DEF Rules, Rule, EInvoiceRule, over, absent
<1>6. QED
  BY <1>4, <1>5, WhenApplies

LEMMA IrpVerdict ==
    ASSUME NEW d PROVE EvalRule(Rules[2], d, Thresholds) = Verdict(2, d)
<1> DEFINE absent == Is("reported_on", "absent")
<1>1. Fact(d, "reported_on") = d.reported_on /\ Fact(d, "irn_present") = d.irn_present
  BY FactsOf DEF Paths
<1>2. /\ InnerFires(absent, d, Thresholds) <=> ~Present(d.reported_on)
      /\ LeafFires(Is("irn_present", "eq_true"), d, Thresholds) <=> Reported(d)
  BY <1>1, LeavesFire, ChecksAreLeaves, LeafAlone DEF Reported
<1> HIDE DEF absent
<1>3. Fires(Group("AND", {absent}), d, Thresholds) <=> ~Present(d.reported_on)
  BY <1>2, AllFire
<1>4. /\ LeafFires(Is("irn_present", "eq_true"), d, Thresholds) <=> ~Skips(2, d)
      /\ ~Skips(2, d) /\ Fires(Group("AND", {absent}), d, Thresholds) <=> Violates(2, d)
  BY <1>2, <1>3 DEF Skips, Violates
<1>5. Rules[2] = Rule(Rules[2].id, Is("irn_present", "eq_true"), "AND", {absent})
  BY DEF Rules, Rule, IrpRule, absent
<1>6. QED
  BY <1>4, <1>5, WhenApplies

LEMMA SplitVerdicts ==
    ASSUME NEW d
    PROVE  /\ EvalRule(Rules[3], d, Thresholds) = Verdict(3, d)
           /\ EvalRule(Rules[4], d, Thresholds) = Verdict(4, d)
<1> DEFINE home == Versus("place_of_supply", "eq", SameState)
           away == Versus("place_of_supply", "neq", SameState)
           igst == Is("has_igst", "eq_true")
           both == Is("has_cgst_sgst", "eq_true")
<1>1. /\ Fact(d, "place_of_supply") = d.place_of_supply
      /\ Fact(d, "has_igst").tag = "bool" /\ (Fact(d, "has_igst").v <=> HasIgst(d))
      /\ Fact(d, "has_cgst_sgst").tag = "bool"
      /\ Fact(d, "has_cgst_sgst").v <=> HasCgstSgst(d)
  BY FactsOf DEF Paths, Bool
<1>2. /\ InnerFires(home, d, Thresholds) <=> AtHome(d)
      /\ InnerFires(away, d, Thresholds) <=> Away(d)
  <2>1. /\ LeafFires(home, d, Thresholds) <=> AtHome(d)
        /\ LeafFires(away, d, Thresholds) <=> Away(d)
    BY <1>1, LeavesFire DEF AtHome, Away
  <2>2. IsLeaf(home) /\ IsLeaf(away)
    BY ChecksAreLeaves
  <2> HIDE DEF home, away
  <2>3. QED
    BY <2>1, <2>2, LeafAlone
<1>0. /\ InnerFires(igst, d, Thresholds) <=> HasIgst(d)
      /\ InnerFires(both, d, Thresholds) <=> HasCgstSgst(d)
  BY <1>1, LeavesFire, ChecksAreLeaves, LeafAlone
<1> HIDE DEF home, away, igst, both
<1>3. /\ Fires(Group("AND", {home, igst}), d, Thresholds) <=> AtHome(d) /\ HasIgst(d)
      /\ Fires(Group("AND", {away, both}), d, Thresholds) <=> Away(d) /\ HasCgstSgst(d)
  BY <1>0, <1>2, AllFire
<1>4. /\ ~Skips(3, d) /\ ~Skips(4, d)
      /\ Fires(Group("AND", {home, igst}), d, Thresholds) <=> Violates(3, d)
      /\ Fires(Group("AND", {away, both}), d, Thresholds) <=> Violates(4, d)
  BY <1>3 DEF Skips, Violates
<1>5. /\ Rules[3] = Rule(Rules[3].id, Always, "AND", {home, igst})
      /\ Rules[4] = Rule(Rules[4].id, Always, "AND", {away, both})
  BY DEF Rules, Rule, IntraSplitRule, InterSplitRule, home, away, igst, both
<1>6. QED
  BY <1>4, <1>5, AlwaysApplies

LEMMA HsnVerdict ==
    ASSUME NEW d PROVE EvalRule(Rules[5], d, Thresholds) = Verdict(5, d)
<1> DEFINE lengths == Lengths("hsn_string", {4, 6, 8})
<1>1. Fact(d, "hsn_string") = d.hsn_string
  BY FactsOf DEF Paths
<1>2. InnerFires(lengths, d, Thresholds) <=> BadHsn(d)
  BY <1>1, LeavesFire, ChecksAreLeaves, LeafAlone DEF BadHsn
<1> HIDE DEF lengths
<1>3. Fires(Group("AND", {lengths}), d, Thresholds) <=> BadHsn(d)
  BY <1>2, AllFire
<1>4. ~Skips(5, d) /\ (Fires(Group("AND", {lengths}), d, Thresholds) <=> Violates(5, d))
  BY <1>3 DEF Skips, Violates
<1>5. Rules[5] = Rule(Rules[5].id, Always, "AND", {lengths})
  BY DEF Rules, Rule, HsnRule, lengths
<1>6. QED
  BY <1>4, <1>5, AlwaysApplies

LEMMA ChargeVerdict ==
    ASSUME NEW d PROVE EvalRule(Rules[6], d, Thresholds) = Verdict(6, d)
<1> DEFINE noCgst == Is("cgst", "absent")
           noSgst == Is("sgst", "absent")
           differ == Cross("sgst", "cgst")
<1>1. /\ Fact(d, "cgst") = d.cgst /\ Fact(d, "sgst") = d.sgst
      /\ Fact(d, "has_igst").tag = "bool" /\ (Fact(d, "has_igst").v <=> HasIgst(d))
  BY FactsOf DEF Paths, Bool
<1>2. /\ InnerFires(noCgst, d, Thresholds) <=> ~Present(d.cgst)
      /\ InnerFires(noSgst, d, Thresholds) <=> ~Present(d.sgst)
      /\ InnerFires(differ, d, Thresholds)
             <=> Present(d.sgst) /\ Present(d.cgst) /\ ~SameValue(d.sgst, d.cgst)
      /\ LeafFires(Is("has_igst", "eq_false"), d, Thresholds) <=> ~HasIgst(d)
  BY <1>1, LeavesFire, ChecksAreLeaves, LeafAlone
<1> HIDE DEF noCgst, noSgst, differ
<1>3. Fires(Group("OR", {noCgst, noSgst, differ}), d, Thresholds) <=> Uneven(d)
  BY <1>2, SomeFires DEF Uneven
<1>4. /\ LeafFires(Is("has_igst", "eq_false"), d, Thresholds) <=> ~Skips(6, d)
      /\ ~Skips(6, d) /\ Fires(Group("OR", {noCgst, noSgst, differ}), d, Thresholds)
             <=> Violates(6, d)
  BY <1>2, <1>3 DEF Skips, Violates
<1>5. Rules[6] = Rule(Rules[6].id, Is("has_igst", "eq_false"), "OR", {noCgst, noSgst, differ})
  BY DEF Rules, Rule, ChargeRule, noCgst, noSgst, differ
<1>6. QED
  BY <1>4, <1>5, WhenApplies

LEMMA ClassVerdict ==
    ASSUME NEW d PROVE EvalRule(Rules[7], d, Thresholds) = Verdict(7, d)
<1> DEFINE undetermined == Versus("classification", "eq", Str("UNDETERMINED", 12))
           business == Versus("classification", "neq", Str("B2C", 3))
           noBuyer  == Is("buyer_gstin", "absent")
           anonymous == Group("AND", {business, noBuyer})
<1>1. Fact(d, "classification") = d.classification /\ Fact(d, "buyer_gstin") = d.buyer_gstin
  BY FactsOf DEF Paths
<1>2. /\ InnerFires(undetermined, d, Thresholds) <=> Undetermined(d)
      /\ LeafFires(business, d, Thresholds)
             <=> Present(d.classification) /\ ~SameValue(d.classification, Str("B2C", 3))
      /\ LeafFires(noBuyer, d, Thresholds) <=> ~Present(d.buyer_gstin)
  BY <1>1, LeavesFire, ChecksAreLeaves, LeafAlone DEF Undetermined
<1> HIDE DEF undetermined, business, noBuyer
<1>3. InnerFires(anonymous, d, Thresholds) <=> Anonymous(d)
  BY <1>2, AllFire DEF Anonymous
<1> HIDE DEF anonymous
<1>4. Fires(Group("OR", {undetermined, anonymous}), d, Thresholds)
          <=> Undetermined(d) \/ Anonymous(d)
  BY <1>2, <1>3, SomeFires
<1>5. /\ ~Skips(7, d)
      /\ Fires(Group("OR", {undetermined, anonymous}), d, Thresholds) <=> Violates(7, d)
  BY <1>4 DEF Skips, Violates
<1>6. Rules[7] = Rule(Rules[7].id, Always, "OR", {undetermined, anonymous})
  BY DEF Rules, Rule, ClassRule, undetermined, anonymous, business, noBuyer
<1>7. QED
  BY <1>5, <1>6, AlwaysApplies

LEMMA RuleVerdicts ==
    ASSUME NEW d, NEW i \in 1 .. 7
    PROVE  EvalRule(Rules[i], d, Thresholds) = Verdict(i, d)
<1>1. i \in {1, 2, 3, 4, 5, 6, 7}
  OBVIOUS
<1>2. QED
  BY <1>1, EInvoiceVerdict, IrpVerdict, SplitVerdicts, HsnVerdict, ChargeVerdict,
     ClassVerdict

Ids == {Rules[i].id : i \in 1 .. 7}

LEMMA VerdictOf ==
    ASSUME NEW d, NEW i \in 1 .. 7
    PROVE  /\ Verdict(i, d) \in [id : Ids, skipped : BOOLEAN, violated : BOOLEAN]
           /\ Verdict(i, d).id = Rules[i].id
           /\ Verdict(i, d).violated <=> Violates(i, d)
           /\ Verdict(i, d).violated => ~Verdict(i, d).skipped
<1>1. i \in {1, 2, 3, 4, 5, 6, 7}
  OBVIOUS
<1>2. Violates(i, d) => ~Skips(i, d)
  BY <1>1 DEF Violates, Skips
<1>4. Violates(i, d) \in BOOLEAN /\ Skips(i, d) \in BOOLEAN
  BY <1>1 DEF Violates, Skips
<1>5. QED
  BY <1>2, <1>4 DEF Verdict, Ids

\* What rounds to nothing, and what does not.
LEMMA PaiseOf == Paise(0) = 0 /\ \A n \in Nat : Paise(n) \in Nat
<1>1. 2 * Grain \in Nat \ {0} /\ Grain \in Nat /\ Grain < 2 * Grain
  BY GrainAssumption
<1>2. PICK w \in Nat \ {0} : w = 2 * Grain
  BY <1>1
<1>3. Grain \div w = 0
  BY <1>1, <1>2
<1>4. \A m \in Nat : m \div w \in Nat
  BY <1>2
<1>5. \A n \in Nat : 2 * n + Grain \in Nat
  BY <1>1
<1>6. Paise(0) = 0
  <2>1. Paise(0) = (2 * 0 + Grain) \div w
    BY <1>2 DEF Paise
  <2>2. 2 * 0 + Grain = Grain
    BY <1>1
  <2>3. QED
    BY <1>3, <2>1, <2>2
<1>7. ASSUME NEW n \in Nat PROVE Paise(n) \in Nat
  <2>1. PICK m \in Nat : m = 2 * n + Grain
    BY <1>5
  <2>2. Paise(n) = m \div w
    BY <1>2, <2>1 DEF Paise
  <2>3. QED
    BY <1>4, <2>2
<1>8. QED
  BY <1>6, <1>7

\* The amounts of a sanitized document, as they are and in paise.
LEMMA AmountsOf ==
    ASSUME NEW d, Sanitized(d), NEW p \in {"aato_crore", "igst", "cgst", "sgst"}
    PROVE  /\ Amount(d, p) \in Nat /\ Paise(Amount(d, p)) \in Nat
           /\ Present(d[p]) => d[p].tag = "num" /\ d[p].v = Amount(d, p)
           /\ ~Present(d[p]) => Amount(d, p) = 0
           /\ Amount(d, p) = 0 => Paise(Amount(d, p)) = 0
<1>1. \/ ~Present(d[p]) /\ Amount(d, p) = 0
      \/ Present(d[p]) /\ d[p].tag = "num" /\ d[p].v \in Nat /\ Amount(d, p) = d[p].v
  BY DEF Sanitized, Amount, Present, Absent
<1>2. QED
  BY <1>1, PaiseOf

\* What the seven rules ask is what their summaries say, but for the exceptions.
LEMMA AsSummarised ==
    ASSUME NEW d, Sanitized(d), NEW i \in 1 .. 7
    PROVE  Excepted(Rules[i].id, d) \/ (Violates(i, d) <=> Breached(Rules[i].id, d))
<1>1. /\ Rules[1].id = "R-EINV-001" /\ Rules[2].id = "R-IRP-002"
      /\ Rules[3].id = "R-SPLIT-003" /\ Rules[4].id = "R-SPLIT-004"
      /\ Rules[5].id = "R-HSN-005" /\ Rules[6].id = "R-CHRG-006"
      /\ Rules[7].id = "R-CLASS-007"
  BY DEF Rules, EInvoiceRule, IrpRule, IntraSplitRule, InterSplitRule, HsnRule, ChargeRule,
         ClassRule, Rule
<1>2. (AtHome(d) <=> Intra(d)) /\ (Away(d) <=> ~Intra(d))
  BY DEF Sanitized, AtHome, Away, Intra, Present
<1>3. (Reported(d) <=> d.irn_present.v) /\ (Unreported(d) <=> ~d.irn_present.v)
  BY DEF Sanitized, Reported, Unreported
<1>4. CASE i = 1
  <2>1. Violates(1, d) <=> Present(d.aato_crore) /\ Overdue(d) /\ Unreported(d)
    BY DEF Violates
  <2>2. Present(d.aato_crore) /\ Overdue(d) <=> Amount(d, "aato_crore") > AatoLimit
    BY AmountsOf, AatoLimitAssumption DEF Overdue, Present
  <2>3. Breached("R-EINV-001", d) <=> Amount(d, "aato_crore") > AatoLimit /\ ~d.irn_present.v
    BY DEF Breached
  <2>4. QED
    BY <1>1, <1>3, <1>4, <2>1, <2>2, <2>3
<1>5. CASE i = 2
  <2>1. Violates(2, d) <=> Reported(d) /\ ~Present(d.reported_on)
    BY DEF Violates
  <2>2. Breached("R-IRP-002", d) <=> d.irn_present.v /\ ~InWindow(d)
    BY DEF Breached
  <2>3. Excepted("R-IRP-002", d) <=> Present(d.reported_on) /\ ~InWindow(d)
    BY DEF Excepted
  <2>4. InWindow(d) => Present(d.reported_on)
    BY DEF InWindow
  <2>5. QED
    BY <1>1, <1>3, <1>5, <2>1, <2>2, <2>3, <2>4
<1>6. CASE i = 3
  <2>1. Violates(3, d) <=> AtHome(d) /\ HasIgst(d)
    BY DEF Violates
  <2>2. Breached("R-SPLIT-003", d) <=> Intra(d) /\ Amount(d, "igst") > 0
    BY DEF Breached
  <2>3. Excepted("R-SPLIT-003", d) <=> Vanishes(Amount(d, "igst"))
    BY DEF Excepted
  <2>4. Vanishes(Amount(d, "igst")) \/ (HasIgst(d) <=> Amount(d, "igst") > 0)
    BY AmountsOf DEF Vanishes, HasIgst
  <2>5. QED
    BY <1>1, <1>2, <1>6, <2>1, <2>2, <2>3, <2>4
<1>7. CASE i = 4
  <2>1. Violates(4, d) <=> Away(d) /\ HasCgstSgst(d)
    BY DEF Violates
  <2>2. Breached("R-SPLIT-004", d)
            <=> ~Intra(d) /\ (Amount(d, "cgst") > 0 \/ Amount(d, "sgst") > 0)
    BY DEF Breached
  <2>3. Excepted("R-SPLIT-004", d) <=> Vanishes(Amount(d, "cgst")) \/ Vanishes(Amount(d, "sgst"))
    BY DEF Excepted
  <2>4. \/ Vanishes(Amount(d, "cgst")) \/ Vanishes(Amount(d, "sgst"))
        \/ HasCgstSgst(d) <=> Amount(d, "cgst") > 0 \/ Amount(d, "sgst") > 0
    BY AmountsOf DEF Vanishes, HasCgstSgst
  <2>5. QED
    BY <1>1, <1>2, <1>7, <2>1, <2>2, <2>3, <2>4
<1>8. CASE i = 5
  <2>1. Violates(5, d) <=> BadHsn(d)
    BY DEF Violates
  <2>2. Breached("R-HSN-005", d) <=> BadlySized(d) \/ NotDigits(d)
    BY DEF Breached
  <2>3. Excepted("R-HSN-005", d) <=> Len(d.hsn_string.v) # 1 \/ NotDigits(d)
    BY DEF Excepted
  <2>4. ASSUME Len(d.hsn_string.v) = 1 PROVE BadHsn(d) <=> BadlySized(d)
    <3>1. d.hsn_string.tag = "str" /\ d.hsn_string.length = d.hsn_string.v[1].length
      BY <2>4 DEF Sanitized
    <3>2. PICK codes \in Seq([length : Nat, numeric : BOOLEAN]) : codes = d.hsn_string.v
      BY DEF Sanitized
    <3>3. DOMAIN d.hsn_string.v = {1}
      BY <2>4, <3>2
    <3>4. QED
      BY <3>1, <3>3 DEF BadHsn, BadlySized
  <2>5. QED
    BY <1>1, <1>8, <2>1, <2>2, <2>3, <2>4
<1>9. CASE i = 6
  <2>1. Violates(6, d) <=> ~HasIgst(d) /\ Uneven(d)
    BY DEF Violates
  <2>2. Breached("R-CHRG-006", d) <=> Intra(d) /\ ~EqualHeads(d)
    BY DEF Breached
  <2>3. Excepted("R-CHRG-006", d) <=> ~Intra(d) \/ HasIgst(d)
    BY DEF Excepted
  <2>4. Uneven(d) <=> ~EqualHeads(d)
    BY AmountsOf DEF Uneven, EqualHeads, SameValue
  <2>5. QED
    BY <1>1, <1>9, <2>1, <2>2, <2>3, <2>4
<1>10. CASE i = 7
  <2>1. Violates(7, d) <=> Undetermined(d) \/ Anonymous(d)
    BY DEF Violates
  <2>2. Breached("R-CLASS-007", d)
            <=> \/ d.classification.v = "UNDETERMINED"
                \/ d.classification.v # "B2C" /\ NoGstin(d)
    BY DEF Breached
  <2>3. Excepted("R-CLASS-007", d) <=> Present(d.buyer_gstin) /\ d.buyer_gstin.v = ""
    BY DEF Excepted
  <2>4. /\ Undetermined(d) <=> d.classification.v = "UNDETERMINED"
        /\ Anonymous(d) <=> d.classification.v # "B2C" /\ ~Present(d.buyer_gstin)
    BY DEF Sanitized, Undetermined, Anonymous, SameValue, Str, Present
  <2>5. QED
    BY <1>1, <1>10, <2>1, <2>2, <2>3, <2>4 DEF NoGstin
<1>11. QED
  BY <1>4, <1>5, <1>6, <1>7, <1>8, <1>9, <1>10

-----------------------------------------------------------------------------
(* What a verdict does not depend on *)

\* Whatever a document claims about its tax heads, its verdicts are the same.
LEMMA ClaimsDoNotMatter ==
    ASSUME NEW d, Sanitized(d), NEW i \in 1 .. 7, NEW a, NEW b
    PROVE  LET claimed == [d EXCEPT !.has_igst = a, !.has_cgst_sgst = b] IN
           EvalRule(Rules[i], claimed, Thresholds) = EvalRule(Rules[i], d, Thresholds)
<1> DEFINE e == [d EXCEPT !.has_igst = a, !.has_cgst_sgst = b]
<1>1. \A path \in Paths \ {"has_igst", "has_cgst_sgst"} : e[path] = d[path]
  BY DEF Sanitized
<1>2. /\ e.aato_crore = d.aato_crore /\ e.irn_present = d.irn_present
      /\ e.reported_on = d.reported_on /\ e.place_of_supply = d.place_of_supply
      /\ e.igst = d.igst /\ e.cgst = d.cgst /\ e.sgst = d.sgst
      /\ e.hsn_string = d.hsn_string /\ e.classification = d.classification
      /\ e.buyer_gstin = d.buyer_gstin
  BY <1>1 DEF Paths
<1> HIDE DEF e
<1>3. /\ HasIgst(e) <=> HasIgst(d)
      /\ HasCgstSgst(e) <=> HasCgstSgst(d)
  BY <1>2 DEF HasIgst, HasCgstSgst, Amount
<1>4. /\ Overdue(e) <=> Overdue(d)
      /\ Unreported(e) <=> Unreported(d)
      /\ Reported(e) <=> Reported(d)
      /\ AtHome(e) <=> AtHome(d)
      /\ Away(e) <=> Away(d)
      /\ BadHsn(e) <=> BadHsn(d)
      /\ Uneven(e) <=> Uneven(d)
      /\ Undetermined(e) <=> Undetermined(d)
      /\ Anonymous(e) <=> Anonymous(d)
  BY <1>2 DEF Overdue, Unreported, Reported, AtHome, Away, BadHsn, Uneven, Undetermined, Anonymous
<1>5. Verdict(i, e) = Verdict(i, d)
  <2>1. (Skips(i, e) <=> Skips(i, d)) /\ (Violates(i, e) <=> Violates(i, d))
    BY <1>2, <1>3, <1>4 DEF Skips, Violates
  <2>2. /\ Skips(i, e) \in BOOLEAN /\ Skips(i, d) \in BOOLEAN
        /\ Violates(i, e) \in BOOLEAN /\ Violates(i, d) \in BOOLEAN
    BY DEF Skips, Violates
  <2>3. QED
    BY <2>1, <2>2 DEF Verdict
<1>6. QED
  BY <1>5, RuleVerdicts DEF e

\* A rule that a document violates when a fact is missing is violated with it too,
\* unless its absence is what the rule reports.
LEMMA AbsenceExcuses ==
    ASSUME NEW d, Sanitized(d), NEW i \in 1 .. 7, NEW path \in Paths \ Reports(Rules[i]),
           Violates(i, [d EXCEPT ![path] = Absent])
    PROVE  Violates(i, d)
<1> DEFINE e == [d EXCEPT ![path] = Absent]
<1>0. Violates(i, e)
  OBVIOUS
<1>1. \A p \in Paths : p # path => e[p] = d[p]
  BY DEF Sanitized
<1>2. ~Present(e[path])
  BY DEF Sanitized, Present, Absent
<1>3. \A p \in Paths : e[p] # d[p] => ~Present(e[p])
  BY <1>1, <1>2
<1>4. /\ i = 2 => path # "reported_on"
      /\ i = 6 => path \notin {"igst", "cgst", "sgst"}
      /\ i = 7 => path # "buyer_gstin"
  <2>1. /\ i = 2 => Rules[i].id = "R-IRP-002"
        /\ i = 6 => Rules[i].id = "R-CHRG-006"
        /\ i = 7 => Rules[i].id = "R-CLASS-007"
    BY DEF Rules, IrpRule, ChargeRule, ClassRule, Rule
  <2>2. QED
    BY <2>1 DEF Reports
<1> HIDE DEF e
<1>5. /\ Present(e.aato_crore) => e.aato_crore = d.aato_crore
      /\ Present(e.irn_present) => e.irn_present = d.irn_present
      /\ Present(e.place_of_supply) => e.place_of_supply = d.place_of_supply
      /\ Present(e.igst) => e.igst = d.igst
      /\ Present(e.cgst) => e.cgst = d.cgst
      /\ Present(e.sgst) => e.sgst = d.sgst
      /\ Present(e.hsn_string) => e.hsn_string = d.hsn_string
      /\ Present(e.classification) => e.classification = d.classification
  BY <1>3 DEF Paths
<1>6. /\ HasIgst(e) => HasIgst(d)
      /\ HasCgstSgst(e) => HasCgstSgst(d)
  <2>1. ASSUME NEW p \in {"igst", "cgst", "sgst"}
        PROVE  Paise(Amount(e, p)) > 0 => Paise(Amount(d, p)) > 0
    <3>1. CASE Present(e[p])
      <4>1. e[p] = d[p]
        BY <1>3, <3>1 DEF Paths
      <4>2. QED
        BY <4>1 DEF Amount
    <3>2. CASE ~Present(e[p])
      <4>1. Amount(e, p) = 0
        BY <3>2 DEF Amount
      <4>2. QED
        BY <4>1, PaiseOf
    <3>3. QED
      BY <3>1, <3>2
  <2>2. QED
    BY <2>1 DEF HasIgst, HasCgstSgst
<1>7. CASE i = 1
  BY <1>0, <1>5, <1>7 DEF Violates, Overdue, Unreported, Present
<1>8. CASE i = 2
  <2>1. e.reported_on = d.reported_on
    BY <1>1, <1>4, <1>8 DEF Paths
  <2>2. QED
    BY <1>0, <1>5, <1>8, <2>1 DEF Violates, Reported, Present
<1>9. CASE i = 3
  <2>1. AtHome(e) /\ HasIgst(e)
    BY <1>0, <1>9 DEF Violates
  <2>2. AtHome(d)
    BY <1>5, <2>1 DEF AtHome
  <2>3. QED
    BY <1>6, <1>9, <2>1, <2>2 DEF Violates
<1>10. CASE i = 4
  <2>1. Away(e) /\ HasCgstSgst(e)
    BY <1>0, <1>10 DEF Violates
  <2>2. Away(d)
    BY <1>5, <2>1 DEF Away
  <2>3. QED
    BY <1>6, <1>10, <2>1, <2>2 DEF Violates
<1>11. CASE i = 5
  BY <1>0, <1>5, <1>11 DEF Violates, BadHsn, Present
<1>12. CASE i = 6
  <2>1. e.igst = d.igst /\ e.cgst = d.cgst /\ e.sgst = d.sgst
    BY <1>1, <1>4, <1>12 DEF Paths
  <2>2. QED
    BY <1>0, <1>12, <2>1 DEF Violates, HasIgst, Amount, Uneven
<1>13. CASE i = 7
  <2>1. e.buyer_gstin = d.buyer_gstin
    BY <1>1, <1>4, <1>13 DEF Paths
  <2>2. QED
    BY <1>0, <1>5, <1>13, <2>1 DEF Violates, Undetermined, Anonymous
<1>14. QED
  BY <1>7, <1>8, <1>9, <1>10, <1>11, <1>12, <1>13

-----------------------------------------------------------------------------
(* The assessment *)

Outcome == [id : Ids, skipped : BOOLEAN, violated : BOOLEAN]

\* The verdicts so far are those of the first rules, in config order, and the
\* status is that which all of them give.
Typed == doc \in Docs /\ results \in Seq(Outcome) /\ Len(results) <= 7

Placed == \A i \in 1 .. Len(results) : results[i] = Verdict(i, doc)

Decided ==
    status # "" => /\ Len(results) = 7
                   /\ status \in {"ACTIVE", "INTERROGATING"}
                   /\ status = "ACTIVE" <=> \A i \in 1 .. 7 : ~Violates(i, doc)

VerdictsInv == Typed /\ Placed /\ Decided

LEMMA SevenRules == Len(Rules) = 7
  BY DEF Rules

LEMMA InitVerdicts == Init => VerdictsInv
<1> SUFFICES ASSUME Init PROVE VerdictsInv
  OBVIOUS
<1>1. results = <<>> /\ doc \in Docs /\ status = ""
  BY DEF Init
<1>2. Typed
  <2>1. <<>> \in Seq(Outcome)
    OBVIOUS
  <2>2. Len(<<>>) = 0
    OBVIOUS
  <2>3. results \in Seq(Outcome) /\ Len(results) = 0
    BY <1>1, <2>1, <2>2, Zenon
  <2>4. Len(results) <= 7
    BY <2>3
  <2>5. QED
    BY <1>1, <2>3, <2>4, Zenon DEF Typed
<1>3. Placed
  <2>1. Len(<<>>) = 0
    OBVIOUS
  <2>2. Len(results) = 0
    BY <1>1, <2>1, Zenon
  <2>3. QED
    BY <2>2 DEF Placed
<1>4. QED
  BY <1>1, <1>2, <1>3 DEF VerdictsInv, Decided

LEMMA Verdicts ==
    ASSUME VerdictsInv
    PROVE  /\ DOMAIN results = 1 .. Len(results) /\ Len(results) \in Nat /\ Len(results) <= 7
           /\ Sanitized(doc)
           /\ \A i \in DOMAIN results : i \in 1 .. 7 /\ results[i] = Verdict(i, doc)
<1>1. DOMAIN results = 1 .. Len(results) /\ Len(results) \in Nat /\ Len(results) <= 7
  BY DEF VerdictsInv, Typed
<1>2. Sanitized(doc)
  BY DocsAssumption DEF VerdictsInv, Typed
<1>3. QED
  BY <1>1, <1>2 DEF VerdictsInv, Placed

LEMMA NextVerdicts == VerdictsInv /\ [Next]_vars => VerdictsInv'
<1> SUFFICES ASSUME VerdictsInv, [Next]_vars PROVE VerdictsInv'
  OBVIOUS
<1>0. Typed /\ Placed /\ Decided
  BY DEF VerdictsInv
<1>1. CASE Evaluate
  <2>1. PICK i \in 1 .. 7 : i = Len(results) + 1
    BY <1>0, <1>1, SevenRules DEF Evaluate, Typed
  <2>2. /\ results' = Append(results, EvalRule(Rules[i], doc, Thresholds))
        /\ doc' = doc /\ status' = status
    BY <1>1, <2>1 DEF Evaluate
  <2>3. EvalRule(Rules[i], doc, Thresholds) = Verdict(i, doc) /\ Verdict(i, doc) \in Outcome
    BY RuleVerdicts, VerdictOf DEF Outcome
  <2>4. /\ results' \in Seq(Outcome) /\ Len(results') = i
        /\ \A k \in 1 .. Len(results) : results'[k] = results[k]
        /\ results'[i] = Verdict(i, doc)
    BY <1>0, <2>1, <2>2, <2>3 DEF Typed
  <2>5. Typed'
    BY <1>0, <2>2, <2>4 DEF Typed
  <2>6. Placed'
    BY <1>0, <2>1, <2>2, <2>4 DEF Placed, Typed
  <2>7. Decided'
    <3>1. Len(results) # 7
      BY <1>1, SevenRules DEF Evaluate
    <3>2. status = ""
      BY <1>0, <3>1 DEF Decided
    <3>3. QED
      BY <2>2, <3>2 DEF Decided
  <2>8. QED
    BY <2>5, <2>6, <2>7 DEF VerdictsInv
<1>2. CASE Assess
  <2>1. Len(results) = 7 /\ DOMAIN results = 1 .. 7
    <3>1. Len(results) = 7
      BY <1>2, SevenRules DEF Assess
    <3>2. DOMAIN results = 1 .. Len(results)
      BY Verdicts
    <3>3. QED
      BY <3>1, <3>2
  <2>2. \A i \in 1 .. 7 : results[i].violated <=> Violates(i, doc)
    BY <1>0, <2>1, VerdictOf DEF Placed
  <2>3. Gaps = {} <=> \A i \in 1 .. 7 : ~Violates(i, doc)
    BY <2>1, <2>2 DEF Gaps
  <2>4. /\ status' = IF Gaps # {} THEN "INTERROGATING" ELSE "ACTIVE"
        /\ doc' = doc /\ results' = results
    BY <1>2 DEF Assess
  <2>5. Decided'
    BY <2>1, <2>3, <2>4 DEF Decided
  <2>6. QED
    BY <1>0, <2>4, <2>5 DEF VerdictsInv, Typed, Placed
<1>3. CASE UNCHANGED vars
  BY <1>0, <1>3 DEF vars, VerdictsInv, Typed, Placed, Decided
<1>4. QED
  BY <1>1, <1>2, <1>3 DEF Next

\* Every verdict is that of the rule at its place in the configuration, and none is
\* both skipped and violated (RuleEngine.cpp:495-565).
THEOREM ComplianceTypeCorrect == Spec => []TypeOK
<1>1. VerdictsInv => TypeOK
  <2> SUFFICES ASSUME VerdictsInv PROVE TypeOK
    OBVIOUS
  <2>1. Len(results) <= Len(Rules)
    BY Verdicts, SevenRules
  <2>2. \A i \in DOMAIN results : /\ results[i].id = Rules[i].id
                                  /\ results[i].violated => ~results[i].skipped
    BY Verdicts, VerdictOf
  <2>3. QED
    BY <2>1, <2>2 DEF TypeOK, VerdictsInv, Typed, Decided
<1>2. QED
  BY <1>1, InitVerdicts, NextVerdicts, PTL DEF Spec

\* Whatever the threshold and however fine the amounts: apart from the exceptions
\* named, the configured rules, as the generic evaluator reads them, report exactly
\* what their summaries say, and no other document becomes ACTIVE (rules_2026.json,
\* RuleEngine.cpp:211-345, Pipeline.cpp:179-217).
THEOREM VerdictsAreStatutory == Spec => []VerdictIsStatutory
<1>1. VerdictsInv => VerdictIsStatutory
  <2> SUFFICES ASSUME VerdictsInv PROVE VerdictIsStatutory
    OBVIOUS
  <2>1. Sanitized(doc)
    BY Verdicts
  <2>2. ASSUME NEW i \in DOMAIN results
        PROVE  \/ Excepted(results[i].id, doc)
               \/ results[i].violated <=> Breached(results[i].id, doc)
    <3>1. i \in 1 .. 7 /\ results[i] = Verdict(i, doc)
      BY Verdicts
    <3>2. results[i].id = Rules[i].id /\ (results[i].violated <=> Violates(i, doc))
      BY <3>1, VerdictOf
    <3>3. QED
      BY <2>1, <3>1, <3>2, AsSummarised
  <2>3. ASSUME status = "ACTIVE", NEW i \in DOMAIN Rules, Breached(Rules[i].id, doc)
        PROVE  Excepted(Rules[i].id, doc)
    <3>1. DOMAIN Rules = 1 .. 7
      BY DEF Rules
    <3>2. ~Violates(i, doc)
      BY <2>3, <3>1 DEF VerdictsInv, Decided
    <3>3. QED
      BY <2>1, <2>3, <3>1, <3>2, AsSummarised
  <2>4. QED
    BY <2>2, <2>3 DEF VerdictIsStatutory
<1>2. QED
  BY <1>1, InitVerdicts, NextVerdicts, PTL DEF Spec

\* No verdict depends on what the payload claims about its own tax heads
\* (RuleEngine.cpp:211-227).
THEOREM ClaimsAreAlwaysIgnored == Spec => []ClaimsAreIgnored
<1>1. VerdictsInv => ClaimsAreIgnored
  <2> SUFFICES ASSUME VerdictsInv, NEW i \in DOMAIN results,
                      NEW a \in {Absent, Bool(TRUE), Bool(FALSE)},
                      NEW b \in {Absent, Bool(TRUE), Bool(FALSE)}
               PROVE  EvalRule(Rules[i], [doc EXCEPT !.has_igst = a, !.has_cgst_sgst = b],
                               Thresholds) = results[i]
    BY DEF ClaimsAreIgnored
  <2>1. i \in 1 .. 7 /\ results[i] = Verdict(i, doc) /\ Sanitized(doc)
    BY Verdicts
  <2>2. results[i] = EvalRule(Rules[i], doc, Thresholds)
    BY <2>1, RuleVerdicts
  <2>3. EvalRule(Rules[i], [doc EXCEPT !.has_igst = a, !.has_cgst_sgst = b], Thresholds)
            = EvalRule(Rules[i], doc, Thresholds)
    BY <2>1, ClaimsDoNotMatter
  <2>4. QED
    BY <2>2, <2>3
<1>2. QED
  BY <1>1, InitVerdicts, NextVerdicts, PTL DEF Spec

\* No rule is violated for want of a fact, unless it is there to report just that
\* (RuleEngine.cpp:17-20).
THEOREM AbsenceNeverFabricates == Spec => []AbsenceFabricatesNothing
<1>1. VerdictsInv => AbsenceFabricatesNothing
  <2> SUFFICES ASSUME VerdictsInv, NEW i \in DOMAIN results,
                      NEW path \in Paths \ Reports(Rules[i]),
                      EvalRule(Rules[i], [doc EXCEPT ![path] = Absent], Thresholds).violated
               PROVE  results[i].violated
    BY DEF AbsenceFabricatesNothing
  <2>1. i \in 1 .. 7 /\ results[i] = Verdict(i, doc) /\ Sanitized(doc)
    BY Verdicts
  <2>2. Violates(i, [doc EXCEPT ![path] = Absent])
    BY <2>1, RuleVerdicts, VerdictOf
  <2>3. Violates(i, doc)
    BY <2>1, <2>2, AbsenceExcuses
  <2>4. QED
    BY <2>1, <2>3, VerdictOf
<1>2. QED
  BY <1>1, InitVerdicts, NextVerdicts, PTL DEF Spec
=============================================================================
