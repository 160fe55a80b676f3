----------------------------- MODULE RuleEngine -----------------------------
(***************************************************************************)
(* RuleEngine.cpp: the evaluator of the rules' condition DSL.  A document  *)
(* maps dotted paths to JSON scalars; a scalar is a record with its JSON   *)
(* type, so that comparing across types is what the code does and not a    *)
(* type error.  A string is a value of its own and a length.  An amount is *)
(* a whole number of Grain-ths of a paisa, finer than what is filed.       *)
(***************************************************************************)
EXTENDS Integers, Sequences, FiniteSets

CONSTANT Grain

ASSUME GrainAssumption == Grain \in Nat \ {0}

Absent  == [tag |-> "absent"]
Num(n)  == [tag |-> "num", v |-> n]
Bool(b) == [tag |-> "bool", v |-> b]
Str(v, length) == [tag |-> "str", v |-> v, length |-> length]
Present(x) == x.tag # "absent"

\* valuesEqualAsScalar: values of different types are different
SameValue(a, b) == a.tag = b.tag /\ a.v = b.v

\* A check is a leaf on a field, or a group of checks.  The argument of a leaf is
\* its "value", its "values" or its "value_from", with its "source" beside it.
NoArgument == [value |-> Absent, source |-> "none", values |-> {}, from |-> "none"]
Leaf(field, op, arg)  == [kind |-> "leaf", field |-> field, op |-> op, arg |-> arg]
Group(operator, checks) == [kind |-> "group", operator |-> operator, checks |-> checks]
Is(field, op)          == Leaf(field, op, NoArgument)
Versus(field, op, v)   == Leaf(field, op, [NoArgument EXCEPT !.value = v])
Lengths(field, values) == Leaf(field, "token_length_out", [NoArgument EXCEPT !.values = values])
Cross(field, other)    == Leaf(field, "ne_cross", [NoArgument EXCEPT !.from = other])
Threshold(field, op, v, source) ==
    Leaf(field, op, [NoArgument EXCEPT !.value = v, !.source = source])

Amount(doc, path) == IF Present(doc[path]) THEN doc[path].v ELSE 0

\* money::toCents: the nearest paisa, and half of one up
Paise(amount) == (2 * amount + Grain) \div (2 * Grain)

\* StateMatrix::validateAndSanitize derives the per-head flags from the amounts, in
\* paise; the rules compare the amounts as they are
HasIgst(doc)     == Paise(Amount(doc, "igst")) > 0
HasCgstSgst(doc) == Paise(Amount(doc, "cgst")) > 0 \/ Paise(Amount(doc, "sgst")) > 0

\* mutant: the flags claimed in the payload are believed
ClaimedFact(doc, path) == doc[path]

\* resolveFact: the derived flags win over the claimed ones
Fact(doc, path) ==
    CASE path = "has_igst"      -> Bool(HasIgst(doc))
      [] path = "has_cgst_sgst" -> Bool(HasCgstSgst(doc))
      [] OTHER                  -> doc[path]

\* a "source" that names a threshold overrides the literal "value"
Literal(arg, thresholds) ==
    IF arg.source \in DOMAIN thresholds THEN thresholds[arg.source] ELSE arg.value

\* mutant: an absent fact differs from any literal
CompareAbsent(op, fact, lit) ==
    CASE op = "eq"  -> Present(fact) /\ SameValue(fact, lit)
      [] op = "neq" -> ~Present(fact) \/ ~SameValue(fact, lit)
      [] op = "gt"  -> fact.tag = "num" /\ lit.tag = "num" /\ fact.v > lit.v

\* mutant: the threshold itself is over the threshold
CompareInclusive(op, fact, lit) ==
    CASE op = "eq"  -> Present(fact) /\ SameValue(fact, lit)
      [] op = "neq" -> Present(fact) /\ ~SameValue(fact, lit)
      [] op = "gt"  -> fact.tag = "num" /\ lit.tag = "num" /\ fact.v >= lit.v

\* comparisons with a literal: an absent fact never fires one
Compare(op, fact, lit) ==
    CASE op = "eq"  -> Present(fact) /\ SameValue(fact, lit)
      [] op = "neq" -> Present(fact) /\ ~SameValue(fact, lit)
      [] op = "gt"  -> fact.tag = "num" /\ lit.tag = "num" /\ fact.v > lit.v

\* whether a leaf fires; the operators are those that the configured rules use
LeafFires(c, doc, thresholds) ==
    LET fact == Fact(doc, c.field) IN
    CASE c.op = "present"  -> Present(fact)
      [] c.op = "absent"   -> ~Present(fact)
      [] c.op = "eq_true"  -> fact.tag = "bool" /\ fact.v
      [] c.op = "eq_false" -> fact.tag = "bool" /\ ~fact.v
      [] c.op = "token_length_out" -> fact.tag = "str" /\ fact.length \notin c.arg.values
      [] c.op = "ne_cross" -> LET other == Fact(doc, c.arg.from) IN
                              Present(fact) /\ Present(other) /\ ~SameValue(fact, other)
      [] OTHER -> Compare(c.op, fact, Literal(c.arg, thresholds))

\* a group fires when all (AND) or some (OR) of its checks do, and an empty group
\* never fires
Combines(group, firing) ==
    /\ group.checks # {}
    /\ IF group.operator = "OR" THEN firing # {} ELSE firing = group.checks

\* evalCheck descends to any depth; the configured conditions are groups of leaves
\* and of groups of leaves, and so is what a check may be here
InnerFires(c, doc, thresholds) ==
    IF c.kind = "leaf" THEN LeafFires(c, doc, thresholds)
    ELSE Combines(c, {k \in c.checks : LeafFires(k, doc, thresholds)})

Fires(c, doc, thresholds) ==
    IF c.kind = "leaf" THEN LeafFires(c, doc, thresholds)
    ELSE Combines(c, {k \in c.checks : InnerFires(k, doc, thresholds)})

Always == Is("none", "always")

\* mutant: the "when" check only labels the result
EvalRuleAnyway(rule, doc, thresholds) ==
    [id       |-> rule.id,
     skipped  |-> rule.when # Always /\ ~Fires(rule.when, doc, thresholds),
     violated |-> Fires(rule.condition, doc, thresholds)]

\* evalRule: skipped unless the "when" check fires, else violated when the
\* condition, a group, fires
EvalRule(rule, doc, thresholds) ==
    LET skipped == rule.when # Always /\ ~Fires(rule.when, doc, thresholds) IN
    [id       |-> rule.id,
     skipped  |-> skipped,
     violated |-> ~skipped /\ Fires(rule.condition, doc, thresholds)]
=============================================================================
