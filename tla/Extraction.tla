----------------------------- MODULE Extraction -----------------------------
(***************************************************************************)
(* The extraction and validation of one upload, which processUpload runs   *)
(* with the mutex held: GeminiClient.cpp over CurlHttpClient.cpp or        *)
(* WinHttpClient.cpp, the schema walk and the sanitizer of StateMatrix.cpp,*)
(* and which exceptions processUpload answers itself.  MockExtractor       *)
(* returns a document without a request and without the schema walk.       *)
(*                                                                         *)
(* A JSON value is a record with its type.  A number is only told apart by *)
(* its range, and a string by whether it is one of the enumerated ones.    *)
(* Time counts in ticks of the transport's deadline.                       *)
(***************************************************************************)
EXTENDS Integers, Sequences, SequencesExt

CONSTANTS
    Values,       \* JSON values: those of documents and all that are inside them
    Documents,    \* the JSON objects that the text of an answer may be
    Timeout       \* timeout_seconds, in ticks

ASSUME TimeoutAssumption == Timeout \in Nat \ {0}

Null       == [tag |-> "null"]
Absent     == [tag |-> "absent"]
Boolean(b) == [tag |-> "boolean", b |-> b]
String(s)  == [tag |-> "string", s |-> s]
Number(r)  == [tag |-> "number", r |-> r]     \* a range of Ranges
Object(m)  == [tag |-> "object", m |-> m]
Array(e)   == [tag |-> "array", e |-> e]

\* over: more than 1.0e13 rupees, or a rate that as basis points is no int
Ranges == {"negative", "zero", "positive", "over"}

\* a JSON value, with values inside
IsValue(v, values) ==
    \/ v \in {Null, Boolean(TRUE), Boolean(FALSE)}
    \/ v \in [tag : {"string"}, s : STRING]
    \/ v \in [tag : {"number"}, r : Ranges]
    \/ v.tag = "object" /\ v = Object(v.m) /\ \A key \in DOMAIN v.m : v.m[key] \in values
    \/ v.tag = "array" /\ v = Array(v.e) /\ v.e \in Seq(values)
AreValues(values) == \A v \in values : IsValue(v, values)

\* the members of two objects
f ++ g == [key \in DOMAIN f \cup DOMAIN g |-> IF key \in DOMAIN f THEN f[key] ELSE g[key]]

-----------------------------------------------------------------------------
(* gemini_schema.json *)

\* A schema node: its $type ("" where there is none), $required, the nodes below
\* an object, and the $item of an array.
Node(type, required, fields, item) ==
    [type |-> type, required |-> required, fields |-> fields, item |-> item]
Leaf(type, required)     == Node(type, required, <<>>, Null)
Leaves(type, must, may)  == [key \in must \cup may |-> Leaf(type, key \in must)]
Branch(required, fields) == Node("object", required, fields, Null)

ItemNode == Node("", FALSE,
    Leaves("string", {"hsn"}, {"description"})
    ++ Leaves("number", {"base_value", "tax_rate"}, {"quantity", "unit_price"}), Null)

TaxNode == Branch(TRUE,
    Leaves("number", {"total_tax"}, {"cgst", "sgst", "igst", "cess"})
    ++ Leaves("boolean", {"has_cgst_sgst", "has_igst"}, {}))

InvoiceNode == Branch(TRUE,
    Leaves("string", {"number", "date", "place_of_supply", "supply_type", "classification",
                      "hsn_string"}, {"irn"})
    ++ Leaves("boolean", {"irn_present"}, {})
    ++ Leaves("number", {"base_value", "total_value"}, {})
    ++ [line_items |-> Node("array", TRUE, <<>>, ItemNode), tax_breakdown |-> TaxNode])

ConfidenceNode == Branch(FALSE,
    Leaves("number", {}, {"overall_score"})
    ++ [warnings |-> Node("array", FALSE, <<>>, Leaf("string", FALSE))])

SupplierNode == Branch(TRUE, Leaves("string", {"gstin", "name", "address_state"}, {})
                             ++ Leaves("number", {}, {"aato_crore"}))
BuyerNode    == Branch(FALSE, Leaves("string", {}, {"gstin", "name", "address_state"})
                              ++ Leaves("boolean", {}, {"registered"}))
IrpNode      == Branch(FALSE, Leaves("string", {}, {"reported_on", "acknowledgment_no"}))

Schema == Branch(TRUE,
    [supplier |-> SupplierNode, buyer |-> BuyerNode, invoice |-> InvoiceNode,
     irp |-> IrpNode, extraction_confidence |-> ConfidenceNode])

\* MockExtractor::buildDefaultDocument
Text(keys) == [key \in keys |-> String("text")]
DefaultItem == Object(
    Text({"hsn", "description"})
    ++ [key \in {"quantity", "unit_price", "base_value", "tax_rate"} |-> Number("positive")])
DefaultTax == Object(
    [cgst |-> Number("zero"), sgst |-> Number("zero"), cess |-> Number("zero"),
     igst |-> Number("positive"), total_tax |-> Number("positive"),
     has_cgst_sgst |-> Boolean(FALSE), has_igst |-> Boolean(TRUE)])
DefaultInvoice == Object(
    Text({"number", "date", "place_of_supply", "irn", "hsn_string"})
    ++ [supply_type |-> String("INTER"), classification |-> String("B2B"),
        irn_present |-> Boolean(TRUE),
        base_value |-> Number("positive"), total_value |-> Number("positive"),
        line_items |-> Array(<<DefaultItem>>), tax_breakdown |-> DefaultTax])
DefaultDocument == Object(
    [supplier |-> Object(Text({"gstin", "name", "address_state"})
                         ++ [aato_crore |-> Number("positive")]),
     buyer    |-> Object(Text({"gstin", "name", "address_state"})
                         ++ [registered |-> Boolean(TRUE)]),
     invoice  |-> DefaultInvoice,
     irp      |-> Object(Text({"reported_on", "acknowledgment_no"})),
     extraction_confidence |->
        Object([overall_score |-> Number("positive"), warnings |-> Array(<<>>)])])

ASSUME ValuesAssumption ==
    /\ AreValues(Values)
    /\ Documents \subseteq Values /\ DefaultDocument \in Values
    /\ \A d \in Documents : d.tag = "object"

-----------------------------------------------------------------------------
(* StateMatrix::validateAgainstSchema *)

\* The walk visits values with their nodes.  A node without $type is an object's.
Visit(value, node) == [value |-> value, node |-> node]

HasType(v) == v.value.tag = IF v.node.type = "" THEN "object" ELSE v.node.type

Members(v) == IF v.value.tag = "object" THEN DOMAIN v.value.m ELSE {}

\* mutant: an $item without a $type is taken for no specification at all
ElementsTyped(v) ==
    IF v.value.tag = "array" /\ v.node.item # Null /\ v.node.item.type # ""
    THEN DOMAIN v.value.e ELSE {}

Elements(v) ==
    IF v.value.tag = "array" /\ v.node.item # Null THEN DOMAIN v.value.e ELSE {}

IsComplete(v) == \A key \in DOMAIN v.node.fields \ Members(v) : ~v.node.fields[key].required

VisitedBelow(v) ==
    {Visit(v.value.m[key], v.node.fields[key]) : key \in DOMAIN v.node.fields \cap Members(v)}
    \cup {Visit(v.value.e[i], v.node.item) : i \in Elements(v)}

\* down to the depth of the schema: document, invoice, line_items, item, field
Conforms(doc) ==
    LET visited[depth \in 0 .. 4] ==
            IF depth = 0 THEN {Visit(doc, Schema)}
            ELSE UNION {VisitedBelow(v) : v \in {w \in visited[depth - 1] : HasType(w)}}
    IN \A depth \in 0 .. 4 : \A v \in visited[depth] : HasType(v) /\ IsComplete(v)

-----------------------------------------------------------------------------
(* StateMatrix::validateAndSanitize *)

Member(value, key) ==
    CASE value.tag = "object" /\ key \in DOMAIN value.m -> value.m[key]
      [] value.tag = "array"  /\ key \in DOMAIN value.e -> value.e[key]
      [] OTHER -> Absent
ValueAt(doc, path) ==
    LET below[n \in 0 .. Len(path)] == IF n = 0 THEN doc ELSE Member(below[n - 1], path[n])
    IN  below[Len(path)]

Money(value) == value.tag = "number" /\ value.r \in {"zero", "positive"}
Fits(value, what) ==
    CASE what \in {"money", "rate"} -> Money(value)
      [] what = "turnover" -> value.tag = "number" /\ value.r # "negative"
      [] what = "supply"   -> value \in {String("INTRA"), String("INTER")}
      [] what = "class"    -> value \in {String("B2B"), String("B2C"), String("UNDETERMINED")}
      [] OTHER -> value.tag = what

\* one read of the document.  at: by json::at(), which throws json::out_of_range
\* where the member is absent; required: looked up before; optional: read only
\* where it is present
Read(how, what, path) == [how |-> how, what |-> what, path |-> path]
Reads(how, what, object, keys) ==
    [i \in DOMAIN keys |-> Read(how, what, Append(object, keys[i]))]

Supplier == <<"supplier">>
Buyer    == <<"buyer">>
Invoice  == <<"invoice">>
Tax      == <<"invoice", "tax_breakdown">>
Items    == <<"invoice", "line_items">>
Irp      == <<"irp">>
Confidence == <<"extraction_confidence">>

ItemReads(i) ==
    LET item == Append(Items, i) IN
    <<Read("required", "object", item), Read("at", "string", Append(item, "hsn")),
      Read("at", "rate", Append(item, "tax_rate")),
      Read("at", "money", Append(item, "base_value")),
      Read("optional", "string", Append(item, "description")),
      Read("optional", "number", Append(item, "quantity")),
      Read("optional", "money", Append(item, "unit_price"))>>

\* mutant: an invoice may claim an IRN without giving it
IrnReadsUnasked(doc) == Reads("optional", "string", Invoice, <<"irn">>)

IrnReads(doc) ==
    IF ValueAt(doc, Append(Invoice, "irn_present")) = Boolean(TRUE)
    THEN Reads("required", "string", Invoice, <<"irn">>) ELSE <<>>

SupplierReads ==
    Reads("required", "object", <<>>, <<"supplier">>)
    \o Reads("at", "string", Supplier, <<"gstin", "name", "address_state">>)
    \o Reads("optional", "turnover", Supplier, <<"aato_crore">>)

BuyerReads ==
    Reads("optional", "object", <<>>, <<"buyer">>)
    \o Reads("optional", "boolean", Buyer, <<"registered">>)
    \o Reads("optional", "string", Buyer, <<"gstin", "name", "address_state">>)

InvoiceReads(doc) ==
    Reads("required", "object", <<>>, <<"invoice">>)
    \o Reads("at", "string", Invoice, <<"number", "date", "place_of_supply", "hsn_string">>)
    \o Reads("at", "supply", Invoice, <<"supply_type">>)
    \o Reads("at", "class", Invoice, <<"classification">>)
    \o Reads("required", "boolean", Invoice, <<"irn_present">>)
    \o IrnReads(doc)
    \o Reads("required", "money", Invoice, <<"base_value">>)

LineReads(doc) ==
    LET items == ValueAt(doc, Items)
        count == IF items.tag = "array" THEN Len(items.e) ELSE 0
    IN  Reads("required", "array", Invoice, <<"line_items">>)
        \o FlattenSeq([i \in 1 .. count |-> ItemReads(i)])

TaxReads ==
    Reads("required", "object", Invoice, <<"tax_breakdown">>)
    \o Reads("optional", "money", Tax, <<"cgst", "sgst", "igst", "cess", "total_tax">>)
    \o Reads("required", "money", Invoice, <<"total_value">>)

IrpReads ==
    Reads("optional", "object", <<>>, <<"irp">>)
    \o Reads("optional", "string", Irp, <<"reported_on">>)

\* every read, in the order of the code
AllReads(doc) ==
    SupplierReads \o BuyerReads \o InvoiceReads(doc) \o LineReads(doc) \o TaxReads \o IrpReads

Fails(doc, read) ==
    LET value == ValueAt(doc, read.path) IN
    IF value = Absent THEN read.how # "optional" ELSE ~Fits(value, read.what)

\* every read of the sanitizer, which begins with the document itself
SanitizerReads(doc) ==
    IF doc.tag = "object" THEN AllReads(doc) ELSE <<Read("required", "object", <<>>)>>

\* the first read that fails decides what is thrown
Sanitized(doc, reads) ==
    LET failed == {i \in DOMAIN reads : Fails(doc, reads[i])}
        first  == reads[Min(failed)]
    IN
    IF failed = {} THEN "accepted"
    ELSE IF first.how = "at" /\ ValueAt(doc, first.path) = Absent THEN "out_of_range"
    ELSE "invalid_argument"

-----------------------------------------------------------------------------
VARIABLES
    extractor,   \* AI_MODE and the platform's transport: "mock", "curl", "winhttp"
    step,        \* where the call is: a phase of the request, or a check of the answer
    left,        \* ticks until the transport gives up, while it waits
    reply,       \* the answer: its status, and the JSON object its text is, if it is one
    doc,         \* the document extracted from it
    outcome      \* how processUpload goes on

vars == <<extractor, step, left, reply, doc, outcome>>

Phases == <<"resolve", "connect", "send", "receive", "body">>
Steps  == Range(Phases) \cup {"status", "parse", "schema", "sanitize", "done"}

\* the frames "Invoice extraction failed" and "did not pass the schema contract", and
\* the exception that processUpload lets through to the gateway
Outcomes == {"none", "accepted", "extraction failed", "contract", "escaped"}

TypeOK ==
    /\ extractor \in {"mock", "curl", "winhttp"}
    /\ step \in Steps
    /\ left \in 0 .. Timeout
    /\ reply.status \in {"none", "error", "success"}
    /\ doc # Absent => step \in {"schema", "sanitize", "done"}
    /\ step \in {"schema", "sanitize"} \/ outcome \in {"accepted", "contract"} => doc # Absent
    /\ outcome \in Outcomes
    /\ step = "done" <=> outcome # "none"

Reply(status, d) == [status |-> status, doc |-> d]
NoReply == Reply("none", Absent)

Init ==
    /\ extractor \in {"mock", "curl", "winhttp"}
    /\ IF extractor = "mock" THEN step = "sanitize" /\ doc = DefaultDocument
                             ELSE step = "resolve" /\ doc = Absent
    /\ left = Timeout
    /\ reply = NoReply
    /\ outcome = "none"

-----------------------------------------------------------------------------
(* The request *)

Requesting == step \in Range(Phases)

\* the call of the method ends
Ends(result) ==
    /\ step' = "done"
    /\ outcome' = result
    /\ UNCHANGED <<extractor, left, reply, doc>>

Tick ==
    /\ Requesting /\ left > 0
    /\ left' = left - 1
    /\ UNCHANGED <<extractor, step, reply, doc, outcome>>

\* mutant: curl, too, starts its timeout again whenever something arrives
RenewedAlways == Timeout

\* CURLOPT_TIMEOUT is one deadline for all of the request; WinHttpSetTimeouts gives
\* one to each phase and to each read of the body
Renewed == IF extractor = "curl" THEN left ELSE Timeout

\* a phase succeeds
Proceeds ==
    /\ Requesting /\ step # "body" /\ left > 0
    /\ \E i \in 1 .. Len(Phases) - 1 : step = Phases[i] /\ step' = Phases[i + 1]
    /\ left' = Renewed
    /\ UNCHANGED <<extractor, reply, doc, outcome>>

\* a part of the body arrives
Receives ==
    /\ step = "body" /\ left > 0
    /\ left' = Renewed
    /\ UNCHANGED <<extractor, step, reply, doc, outcome>>

\* the deadline passes or the connection fails: status 0, whatever has arrived
RequestFails == Requesting /\ Ends("extraction failed")

\* the body is complete
Answered ==
    /\ step = "body" /\ left > 0
    /\ step' = "status"
    /\ \/ reply' = Reply("error", Absent)
       \/ \E d \in Documents \cup {Absent} : reply' = Reply("success", d)
    /\ left' = Timeout
    /\ UNCHANGED <<extractor, doc, outcome>>

-----------------------------------------------------------------------------
(* The answer *)

\* not a 2xx: the API's message, the beginning of a body that is no JSON, or the
\* json::type_error of a body of another shape
HttpError ==
    /\ step = "status" /\ reply.status = "error"
    /\ Ends("extraction failed")

HttpSuccess ==
    /\ step = "status" /\ reply.status = "success"
    /\ step' = "parse"
    /\ UNCHANGED <<extractor, left, reply, doc, outcome>>

\* parseSuccessResponse throws: no JSON, no candidates, no parts, no text, or a
\* text that is no JSON object
Unparsed ==
    /\ step = "parse" /\ reply.doc = Absent
    /\ Ends("extraction failed")

\* mutant: an answer without an object goes on to the checks
ParsedAnyway ==
    /\ step = "parse"
    /\ doc' = reply.doc
    /\ reply' = NoReply
    /\ step' = "schema"
    /\ UNCHANGED <<extractor, left, outcome>>

Parsed ==
    /\ step = "parse" /\ reply.doc # Absent
    /\ doc' = reply.doc
    /\ reply' = NoReply
    /\ step' = "schema"
    /\ UNCHANGED <<extractor, left, outcome>>

\* the boundary check of the extractor
SchemaChecked ==
    /\ step = "schema"
    /\ IF Conforms(doc)
       THEN step' = "sanitize" /\ UNCHANGED <<extractor, left, reply, doc, outcome>>
       ELSE Ends("extraction failed")

\* processUpload answers invalid_argument; out_of_range is none
SanitizerRuns ==
    /\ step = "sanitize"
    /\ \E reads \in {SanitizerReads(doc)} :
           LET result == Sanitized(doc, reads) IN
           Ends(CASE result = "accepted"         -> "accepted"
                  [] result = "invalid_argument" -> "contract"
                  [] result = "out_of_range"     -> "escaped")

Transport == Proceeds \/ Receives \/ RequestFails \/ Answered
Checks    == HttpError \/ HttpSuccess \/ Unparsed \/ Parsed \/ SchemaChecked \/ SanitizerRuns
Next == Tick \/ Transport \/ Checks

Spec == Init /\ [][Next]_vars

\* time passes, the transport gives up at its deadline, and the program computes;
\* what the service does is up to it
Expires  == left = 0 /\ RequestFails
FairSpec == Spec /\ WF_vars(Tick) /\ WF_vars(Expires) /\ WF_vars(Checks)

-----------------------------------------------------------------------------
(* Properties *)

Must(d, object, keys, what) == \A key \in keys : Fits(ValueAt(d, Append(object, key)), what)
May(d, object, keys, what)  == \A key \in keys :
    LET value == ValueAt(d, Append(object, key)) IN value = Absent \/ Fits(value, what)

ItemInContract(d, item) ==
    /\ ValueAt(d, item).tag = "object"
    /\ Must(d, item, {"hsn"}, "string")
    /\ Must(d, item, {"base_value", "tax_rate"}, "money")
    /\ May(d, item, {"description"}, "string")
    /\ May(d, item, {"quantity"}, "number")
    /\ May(d, item, {"unit_price"}, "money")

\* The contract of the two checks together, path by path.
InContract(d) ==
    /\ Must(d, <<>>, {"supplier", "invoice"}, "object")
    /\ May(d, <<>>, {"buyer", "irp", "extraction_confidence"}, "object")
    /\ Must(d, Supplier, {"gstin", "name", "address_state"}, "string")
    /\ May(d, Supplier, {"aato_crore"}, "turnover")
    /\ May(d, Buyer, {"gstin", "name", "address_state"}, "string")
    /\ May(d, Buyer, {"registered"}, "boolean")
    /\ Must(d, Invoice, {"number", "date", "place_of_supply", "hsn_string"}, "string")
    /\ Must(d, Invoice, {"supply_type"}, "supply") /\ Must(d, Invoice, {"classification"}, "class")
    /\ Must(d, Invoice, {"irn_present"}, "boolean") /\ May(d, Invoice, {"irn"}, "string")
    /\ ValueAt(d, Append(Invoice, "irn_present")).b => Must(d, Invoice, {"irn"}, "string")
    /\ Must(d, Invoice, {"base_value", "total_value"}, "money")
    /\ Must(d, Invoice, {"line_items"}, "array") /\ Must(d, Invoice, {"tax_breakdown"}, "object")
    /\ \A i \in DOMAIN ValueAt(d, Items).e : ItemInContract(d, Append(Items, i))
    /\ Must(d, Tax, {"total_tax"}, "money") /\ May(d, Tax, {"cgst", "sgst", "igst", "cess"}, "money")
    /\ Must(d, Tax, {"has_cgst_sgst", "has_igst"}, "boolean")
    /\ May(d, Irp, {"reported_on", "acknowledgment_no"}, "string")
    /\ May(d, Confidence, {"overall_score"}, "number")
    /\ May(d, Confidence, {"warnings"}, "array")
    /\ LET warnings == ValueAt(d, Append(Confidence, "warnings")) IN
       warnings.tag = "array" => \A i \in DOMAIN warnings.e : warnings.e[i].tag = "string"

\* A document is accepted exactly when it is in the contract of gemini_schema.json
\* with amounts, rates and enumerations that the rules and the returns can work
\* on: the generic walk and the hand-written sanitizer, neither of which checks
\* all of it (StateMatrix.hpp:98-102), neither miss nor refuse anything together.
AcceptedInContract ==
    step = "done" => (outcome = "accepted" <=> InContract(doc))

\* No exception of the sanitizer but the one processUpload answers leaves it: what
\* it reads with json::at() (StateMatrix.cpp:145 and on), the walk has seen.
NoEscape == outcome # "escaped"

\* With curl the call comes back, whatever the service sends and however slowly;
\* the mutex that every other session waits for is held until then
\* (HttpClient.hpp:57, "total request timeout").  With WinHTTP it may not.
CallReturns == extractor # "winhttp" ~> step = "done"
=============================================================================
