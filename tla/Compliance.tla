----------------------------- MODULE Compliance -----------------------------
(***************************************************************************)
(* The assessment of one document: the seven rules of rules_2026.json are  *)
(* evaluated in order by RuleEngine, and processUpload turns the verdicts  *)
(* into the session's next status.  Paths are abbreviated to their last    *)
(* part where that is unambiguous.  The value of an HSN string is the      *)
(* sequence of its comma-delimited codes, each with its length and whether *)
(* it is all digits; an IRP report date is within or outside the 30-day    *)
(* window.                                                                 *)
(***************************************************************************)
EXTENDS RuleEngine

CONSTANTS
    AatoLimit,   \* the e-invoicing threshold; the configuration's is 5 crore
    Docs         \* validated documents

ASSUME AatoLimitAssumption == AatoLimit \in Nat

Paths == {"aato_crore", "irn_present", "reported_on", "place_of_supply", "supply_type",
          "has_igst", "has_cgst_sgst", "igst", "cgst", "sgst", "hsn_string",
          "classification", "buyer_gstin"}

\* what validateAndSanitize lets through: amounts are never negative, the strings
\* and the IRN flag are there, and nothing is known of the claimed flags
Sanitized(d) ==
    /\ DOMAIN d = Paths
    /\ \A p \in {"aato_crore", "igst", "cgst", "sgst"} :
           d[p] = Absent \/ d[p] \in [tag : {"num"}, v : Nat]
    /\ d.irn_present \in [tag : {"bool"}, v : BOOLEAN]
    /\ \A p \in {"place_of_supply", "supply_type", "hsn_string", "classification"} :
           d[p].tag = "str"
    /\ d.hsn_string.v \in Seq([length : Nat, numeric : BOOLEAN])
    /\ Len(d.hsn_string.v) = 1 => d.hsn_string.length = d.hsn_string.v[1].length
    /\ \A p \in {"reported_on", "buyer_gstin"} : d[p].tag \in {"absent", "str"}
    /\ d.classification.v \in {"B2B", "B2C", "UNDETERMINED"}

ASSUME DocsAssumption == \A d \in Docs : Sanitized(d)

-----------------------------------------------------------------------------
(* rules_2026.json *)

Thresholds == [e_invoicing_aato_crore |-> Num(AatoLimit)]

Rule(id, when, operator, checks) ==
    [id |-> id, when |-> when, condition |-> Group(operator, checks)]

EInvoiceRule == Rule("R-EINV-001", Is("aato_crore", "present"), "AND",
    {Threshold("aato_crore", "gt", Num(5), "e_invoicing_aato_crore"),
     Is("irn_present", "eq_false")})

IrpRule == Rule("R-IRP-002", Is("irn_present", "eq_true"), "AND",
    {Is("reported_on", "absent")})

SameState == Str("same_as_supplier_state", 22)

IntraSplitRule == Rule("R-SPLIT-003", Always, "AND",
    {Versus("place_of_supply", "eq", SameState), Is("has_igst", "eq_true")})

InterSplitRule == Rule("R-SPLIT-004", Always, "AND",
    {Versus("place_of_supply", "neq", SameState), Is("has_cgst_sgst", "eq_true")})

HsnRule == Rule("R-HSN-005", Always, "AND", {Lengths("hsn_string", {4, 6, 8})})

ChargeRule == Rule("R-CHRG-006", Is("has_igst", "eq_false"), "OR",
    {Is("cgst", "absent"), Is("sgst", "absent"), Cross("sgst", "cgst")})

ClassRule == Rule("R-CLASS-007", Always, "OR",
    {Versus("classification", "eq", Str("UNDETERMINED", 12)),
     Group("AND", {Versus("classification", "neq", Str("B2C", 3)),
                   Is("buyer_gstin", "absent")})})

Rules == <<EInvoiceRule, IrpRule, IntraSplitRule, InterSplitRule, HsnRule, ChargeRule, ClassRule>>

-----------------------------------------------------------------------------
VARIABLES doc,      \* the sanitized document
          results,  \* the verdicts so far, in config order
          status    \* the session's next status, "" until it is known
vars == <<doc, results, status>>

TypeOK ==
    /\ doc \in Docs
    /\ Len(results) <= Len(Rules)
    /\ \A i \in DOMAIN results : /\ results[i].id = Rules[i].id
                                 /\ results[i].violated => ~results[i].skipped
    /\ status \in {"", "ACTIVE", "INTERROGATING"}

Init == doc \in Docs /\ results = <<>> /\ status = ""

\* the next rule is evaluated
Evaluate ==
    /\ Len(results) < Len(Rules)
    /\ results' = Append(results, EvalRule(Rules[Len(results) + 1], doc, Thresholds))
    /\ UNCHANGED <<doc, status>>

Gaps == {i \in DOMAIN results : results[i].violated}

\* processUpload: one gap is enough to interrogate
Assess ==
    /\ Len(results) = Len(Rules) /\ status = ""
    /\ status' = IF Gaps # {} THEN "INTERROGATING" ELSE "ACTIVE"
    /\ UNCHANGED <<doc, results>>

Next == Evaluate \/ Assess
Spec == Init /\ [][Next]_vars

-----------------------------------------------------------------------------
(* Properties *)

Intra(d) == SameValue(d.place_of_supply, SameState)

\* codes that are neither 4, 6 nor 8 characters long, or not digits
BadlySized(d) == \E k \in DOMAIN d.hsn_string.v : d.hsn_string.v[k].length \notin {4, 6, 8}
NotDigits(d)  == \E k \in DOMAIN d.hsn_string.v : ~d.hsn_string.v[k].numeric

InWindow(d) == Present(d.reported_on) /\ d.reported_on.v = "within"
NoGstin(d)  == ~Present(d.buyer_gstin) \/ d.buyer_gstin.v = ""

\* a head that is left out is equal to none
EqualHeads(d) == Present(d.cgst) /\ Present(d.sgst) /\ d.cgst.v = d.sgst.v

\* What the summary of each rule says is a gap (rules_2026.json:45, 64, 82, 100, 118,
\* 135, 155), of the invoice as it is written.
Breached(id, d) ==
    CASE id = "R-EINV-001"  -> Amount(d, "aato_crore") > AatoLimit /\ ~d.irn_present.v
      [] id = "R-IRP-002"   -> d.irn_present.v /\ ~InWindow(d)
      [] id = "R-SPLIT-003" -> Intra(d) /\ Amount(d, "igst") > 0
      [] id = "R-SPLIT-004" -> ~Intra(d) /\ (Amount(d, "cgst") > 0 \/ Amount(d, "sgst") > 0)
      [] id = "R-HSN-005"   -> BadlySized(d) \/ NotDigits(d)
      [] id = "R-CHRG-006"  -> Intra(d) /\ ~EqualHeads(d)
      [] id = "R-CLASS-007" -> \/ d.classification.v = "UNDETERMINED"
                               \/ d.classification.v # "B2C" /\ NoGstin(d)

\* an amount that is there, and less than half a paisa
Vanishes(amount) == amount > 0 /\ Paise(amount) = 0

\* Where a rule is configured or evaluated otherwise than its summary says: a report
\* date is only looked for, not looked at; amounts below half a paisa are none; codes
\* are counted together, commas included, and need not be digits; heads are compared
\* where no IGST is charged, and not within a state; an empty GSTIN is one.
Excepted(id, d) ==
    CASE id = "R-IRP-002"   -> Present(d.reported_on) /\ ~InWindow(d)
      [] id = "R-SPLIT-003" -> Vanishes(Amount(d, "igst"))
      [] id = "R-SPLIT-004" -> Vanishes(Amount(d, "cgst")) \/ Vanishes(Amount(d, "sgst"))
      [] id = "R-HSN-005"   -> Len(d.hsn_string.v) # 1 \/ NotDigits(d)
      [] id = "R-CHRG-006"  -> ~Intra(d) \/ HasIgst(d)
      [] id = "R-CLASS-007" -> Present(d.buyer_gstin) /\ d.buyer_gstin.v = ""
      [] OTHER -> FALSE

\* Apart from the exceptions, the generic evaluator, run over the configured conditions
\* with their "when"s, groups, thresholds and derived flags, raises a rule's gap exactly
\* where the rule's summary says there is one, and lets no other document become
\* ACTIVE (RuleEngine.cpp:211-345, Pipeline.cpp:202-217).
VerdictIsStatutory ==
    /\ \A i \in DOMAIN results :
          \/ Excepted(results[i].id, doc)
          \/ results[i].violated <=> Breached(results[i].id, doc)
    /\ status = "ACTIVE" =>
          \A i \in DOMAIN Rules : Breached(Rules[i].id, doc) => Excepted(Rules[i].id, doc)

\* Documented, and not so: R-HSN-005 is about every HSN code on the invoice, one by
\* one (rules_2026.json:118).  The code measures the string that lists them all.
HsnIsPerCode ==
    \A i \in DOMAIN results :
        results[i].id = "R-HSN-005" => (results[i].violated <=> BadlySized(doc))

\* The booleans that the payload claims about its own tax heads never change a
\* verdict: the flags are derived from the amounts (RuleEngine.cpp:215-217).
ClaimsAreIgnored ==
    \A i \in DOMAIN results : \A a, b \in {Absent, Bool(TRUE), Bool(FALSE)} :
        EvalRule(Rules[i], [doc EXCEPT !.has_igst = a, !.has_cgst_sgst = b], Thresholds)
            = results[i]

\* The facts whose absence a rule reports: those of its `absent` checks, and IGST,
\* without which the charge rule applies.
Reports(rule) ==
    CASE rule.id = "R-IRP-002"   -> {"reported_on"}
      [] rule.id = "R-CHRG-006"  -> {"cgst", "sgst", "igst"}
      [] rule.id = "R-CLASS-007" -> {"buyer_gstin"}
      [] OTHER -> {}

\* Taking any other fact out of a document never makes a rule fire that did not:
\* gaps are not fabricated from what is absent (RuleEngine.cpp:17-20).
AbsenceFabricatesNothing ==
    \A i \in DOMAIN results : \A path \in Paths \ Reports(Rules[i]) :
        EvalRule(Rules[i], [doc EXCEPT ![path] = Absent], Thresholds).violated
            => results[i].violated

\* Documented, and not so: a divergence between the claimed tax and the tax that
\* the returns recompute is surfaced by the rules (GSTRGenerator.hpp:9-11).  The
\* returns go by supply_type, which no rule reads.
DivergenceIsSurfaced ==
    status = "ACTIVE" =>
        IF doc.supply_type.v = "INTRA" THEN ~HasIgst(doc) ELSE ~HasCgstSgst(doc)
=============================================================================
