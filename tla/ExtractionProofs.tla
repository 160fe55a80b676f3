-------------------------- MODULE ExtractionProofs --------------------------
(***************************************************************************)
(* For every set of answers and every timeout: one extraction goes through *)
(* its steps in order; the walk of the schema and the sanitizer, which are *)
(* written apart, together accept exactly the contract; and what the       *)
(* sanitizer takes with json::at() is there, as the walk has seen it.      *)
(***************************************************************************)
EXTENDS Extraction, InductionLemmas, TLAPS

-----------------------------------------------------------------------------
(* The control *)

LEMMA PhasesAreSteps ==
    /\ Phases[1] = "resolve" /\ Phases[5] = "body" /\ Len(Phases) = 5
    /\ Range(Phases) = {"resolve", "connect", "send", "receive", "body"}
    /\ \A i \in 1 .. 5 : Phases[i] \in Range(Phases)
<1>1. DOMAIN Phases = 1 .. 5 /\ Len(Phases) = 5
  BY DEF Phases
<1>2. /\ Phases[1] = "resolve" /\ Phases[2] = "connect" /\ Phases[3] = "send"
      /\ Phases[4] = "receive" /\ Phases[5] = "body"
  BY DEF Phases
<1>3. Range(Phases) = {Phases[i] : i \in 1 .. 5}
  BY <1>1 DEF Range
<1>4. 1 .. 5 = {1, 2, 3, 4, 5}
  OBVIOUS
<1>5. Range(Phases) = {Phases[1], Phases[2], Phases[3], Phases[4], Phases[5]}
  BY <1>3, <1>4
<1>6. QED
  BY <1>1, <1>2, <1>3, <1>5

LEMMA SanitizerThrowsTwoWays ==
    ASSUME NEW d, NEW reads
    PROVE  Sanitized(d, reads) \in {"accepted", "out_of_range", "invalid_argument"}
  BY DEF Sanitized

LEMMA InitType == Init => TypeOK
<1>1. DefaultDocument # Absent
  BY DEF DefaultDocument, Object, Absent
<1>2. QED
  BY <1>1, PhasesAreSteps, TimeoutAssumption
  DEF Init, TypeOK, Steps, NoReply, Reply, Outcomes

\* A phase of the request leaves the document and the outcome to come.
LEMMA TransportType == ASSUME TypeOK, Tick \/ Transport PROVE TypeOK'
<1>1. Requesting => outcome = "none" /\ doc = Absent
  BY PhasesAreSteps DEF Requesting, TypeOK
<1>2. CASE Tick
  <2>1. left' \in 0 .. Timeout
    BY <1>2, TimeoutAssumption DEF Tick, TypeOK
  <2>2. QED
    BY <1>2, <2>1 DEF Tick, TypeOK
<1>3. CASE Proceeds
  <2>1. step' \in Range(Phases)
    BY <1>3, PhasesAreSteps DEF Proceeds
  <2>2. left' \in 0 .. Timeout
    BY <1>3, TimeoutAssumption DEF Proceeds, Renewed, TypeOK
  <2>3. QED
    BY <1>1, <1>3, <2>1, <2>2, PhasesAreSteps DEF Proceeds, TypeOK, Steps
<1>4. CASE Receives
  <2>1. left' \in 0 .. Timeout
    BY <1>4, TimeoutAssumption DEF Receives, Renewed, TypeOK
  <2>2. QED
    BY <1>4, <2>1 DEF Receives, TypeOK
<1>5. CASE RequestFails
  BY <1>1, <1>5 DEF RequestFails, Ends, TypeOK, Steps, Outcomes
<1>6. CASE Answered
  <2>1. reply'.status \in {"error", "success"}
    BY <1>6 DEF Answered, Reply
  <2>2. QED
    BY <1>1, <1>6, <2>1, PhasesAreSteps, TimeoutAssumption
    DEF Answered, Requesting, TypeOK, Steps
<1>7. QED
  BY <1>2, <1>3, <1>4, <1>5, <1>6 DEF Transport

LEMMA ChecksType == ASSUME TypeOK, Checks PROVE TypeOK'
<1>1. CASE HttpError \/ Unparsed
  BY <1>1 DEF HttpError, Unparsed, Ends, TypeOK, Steps, Outcomes
<1>2. CASE HttpSuccess
  BY <1>2 DEF HttpSuccess, TypeOK, Steps
<1>3. CASE Parsed
  BY <1>3 DEF Parsed, NoReply, Reply, TypeOK, Steps
<1>4. CASE SchemaChecked
  BY <1>4 DEF SchemaChecked, Ends, TypeOK, Steps, Outcomes
<1>5. CASE SanitizerRuns
  <2>1. PICK result \in {"accepted", "contract", "escaped"} : Ends(result)
    BY <1>5, SanitizerThrowsTwoWays DEF SanitizerRuns
  <2>2. step = "sanitize"
    BY <1>5 DEF SanitizerRuns
  <2>3. QED
    BY <2>1, <2>2 DEF Ends, TypeOK, Steps, Outcomes
<1>6. QED
  BY <1>1, <1>2, <1>3, <1>4, <1>5 DEF Checks

\* A check runs only when there is a document for it, an answer is given up or a
\* document refused exactly once, and the call is over exactly when it has an
\* outcome, whatever the service answers (GeminiClient.cpp:128-175).
THEOREM ExtractionTypeCorrect == Spec => []TypeOK
<1>1. TypeOK /\ [Next]_vars => TypeOK'
  <2>1. CASE UNCHANGED vars
    BY <2>1 DEF vars, TypeOK
  <2>2. QED
    BY <2>1, TransportType, ChecksType DEF Next
<1>2. QED
  BY <1>1, InitType, PTL DEF Spec

-----------------------------------------------------------------------------
(* How a path is followed *)

\* The members that the walk and the sanitizer know, and the indices of an array.
Names == {"supplier", "buyer", "invoice", "irp", "extraction_confidence",
          "gstin", "name", "address_state", "aato_crore", "registered",
          "number", "date", "place_of_supply", "supply_type", "classification", "hsn_string",
          "irn", "irn_present", "base_value", "total_value", "line_items", "tax_breakdown",
          "hsn", "description", "tax_rate", "quantity", "unit_price",
          "cgst", "sgst", "igst", "cess", "total_tax", "has_cgst_sgst", "has_igst",
          "reported_on", "acknowledgment_no", "overall_score", "warnings"}
Keys == Names \cup Nat

Descends(b, d, p) == b = [n \in 0 .. Len(p) |-> IF n = 0 THEN d ELSE Member(b[n - 1], p[n])]

LEMMA DescentExists ==
    ASSUME NEW d, NEW p \in Seq(Keys)
    PROVE  \E b : Descends(b, d, p)
<1> DEFINE D(b, m) == b = [n \in 0 .. m |-> IF n = 0 THEN d ELSE Member(b[n - 1], p[n])]
           P == {m \in Nat : \E b : D(b, m)}
<1>1. 0 \in P
  <2>1. D([n \in 0 .. 0 |-> d], 0)
    OBVIOUS
  <2>2. QED
    BY <2>1
<1>2. ASSUME NEW m \in Nat, m \in P PROVE m + 1 \in P
  <2>1. PICK b : D(b, m)
    BY <1>2
  <2> DEFINE c == [n \in 0 .. m + 1 |-> IF n = m + 1 THEN Member(b[m], p[m + 1]) ELSE b[n]]
  <2>2. \A n \in 0 .. m : c[n] = b[n]
    OBVIOUS
  <2>3. ASSUME NEW n \in 0 .. m + 1
        PROVE  c[n] = IF n = 0 THEN d ELSE Member(c[n - 1], p[n])
    <3>1. CASE n = m + 1
      BY <3>1, <2>2
    <3>2. CASE n # m + 1
      <4>1. n \in 0 .. m /\ b[n] = IF n = 0 THEN d ELSE Member(b[n - 1], p[n])
        BY <2>1, <3>2
      <4>2. n # 0 => n - 1 \in 0 .. m
        BY <4>1
      <4>3. QED
        BY <2>2, <4>1, <4>2
    <3>3. QED
      BY <3>1, <3>2
  <2>4. D(c, m + 1)
    BY <2>3
  <2>5. \E e : D(e, m + 1)
    <3> HIDE DEF D, c
    <3>1. QED
      BY <2>4
  <2>6. QED
    <3> HIDE DEF D
    <3>1. QED
      BY <2>5
<1>3. Len(p) \in P
  <2>1. Nat \subseteq P
    BY <1>1, <1>2, Induction
  <2>2. QED
    BY <2>1
<1>4. QED
  BY <1>3 DEF Descends

LEMMA DescentSteps ==
    ASSUME NEW d, NEW p \in Seq(Keys), NEW b, Descends(b, d, p)
    PROVE  b[0] = d /\ \A n \in 1 .. Len(p) : b[n] = Member(b[n - 1], p[n])
  BY DEF Descends

LEMMA RootIsReached ==
    ASSUME NEW d
    PROVE  ValueAt(d, <<>>) = d
<1> DEFINE b == CHOOSE b : Descends(b, d, <<>>)
<1>1. <<>> \in Seq(Keys) /\ Len(<<>>) = 0
  OBVIOUS
<1>2. Descends(b, d, <<>>)
  BY <1>1, DescentExists
<1>3. b[0] = d
  BY <1>1, <1>2, DescentSteps
<1>4. ValueAt(d, <<>>) = b[0]
  BY <1>1, Zenon DEF ValueAt, Descends
<1>5. QED
  BY <1>3, <1>4

LEMMA MemberIsReached ==
    ASSUME NEW d, NEW p \in Seq(Keys), NEW key \in Keys
    PROVE  ValueAt(d, Append(p, key)) = Member(ValueAt(d, p), key)
<1> DEFINE q == Append(p, key)
           b == CHOOSE b : Descends(b, d, p)
           c == CHOOSE c : Descends(c, d, q)
<1>1. /\ q \in Seq(Keys) /\ Len(q) = Len(p) + 1 /\ q[Len(p) + 1] = key
      /\ Len(p) \in Nat /\ \A n \in 1 .. Len(p) : q[n] = p[n]
  OBVIOUS
<1>2. Descends(b, d, p)
  BY DescentExists
<1>3. Descends(c, d, q)
  BY <1>1, DescentExists
<1> HIDE DEF b, c, q
<1>4. \A n \in Nat : n <= Len(p) => b[n] = c[n]
  <2> DEFINE P == {n \in Nat : n <= Len(p) => b[n] = c[n]}
  <2>1. 0 \in P
    BY <1>1, <1>2, <1>3, DescentSteps
  <2>2. ASSUME NEW n \in Nat, n \in P PROVE n + 1 \in P
    <3>1. SUFFICES ASSUME n + 1 <= Len(p) PROVE b[n + 1] = c[n + 1]
      OBVIOUS
    <3>2. n + 1 \in 1 .. Len(p) /\ n + 1 \in 1 .. Len(q) /\ (n + 1) - 1 = n /\ b[n] = c[n]
      BY <1>1, <2>2, <3>1
    <3>3. b[n + 1] = Member(b[(n + 1) - 1], p[n + 1]) /\ c[n + 1] = Member(c[(n + 1) - 1], q[n + 1])
      BY <1>1, <1>2, <1>3, <3>2, DescentSteps
    <3>4. QED
      BY <1>1, <3>2, <3>3
  <2>3. Nat \subseteq P
    BY <2>1, <2>2, Induction
  <2>4. QED
    BY <2>3
<1>5. c[Len(p) + 1] = Member(c[Len(p)], key)
  <2>1. c[Len(p) + 1] = Member(c[(Len(p) + 1) - 1], q[Len(p) + 1])
    BY <1>1, <1>3, DescentSteps
  <2>2. QED
    BY <1>1, <2>1
<1>6. c[Len(p)] = b[Len(p)]
  BY <1>1, <1>4
<1>7. ValueAt(d, p) = b[Len(p)]
  BY Zenon DEF ValueAt, Descends, b
<1>8. ValueAt(d, q) = c[Len(q)]
  BY Zenon DEF ValueAt, Descends, c
<1>9. QED
  BY <1>1, <1>5, <1>6, <1>7, <1>8 DEF q

-----------------------------------------------------------------------------
(* Sequences of reads *)

Hows  == {"at", "required", "optional"}
Whats == {"object", "array", "string", "number", "boolean", "money", "rate", "turnover",
          "supply", "class"}
ReadSet == [how : Hows, what : Whats, path : Seq(Keys)]

Among(s, T) == \A i \in 1 .. Len(s) : s[i] \in T

\* One read for each of these members.
Each(T, how, what, p, keys) == \A key \in keys : Read(how, what, Append(p, key)) \in T

LEMMA AmongBoth ==
    ASSUME NEW s \in Seq(ReadSet), NEW t \in Seq(ReadSet), NEW T
    PROVE  s \o t \in Seq(ReadSet) /\ (Among(s \o t, T) <=> Among(s, T) /\ Among(t, T))
<1> DEFINE u == s \o t
<1>1. /\ u \in Seq(ReadSet) /\ Len(u) = Len(s) + Len(t) /\ Len(s) \in Nat /\ Len(t) \in Nat
      /\ \A i \in 1 .. Len(s) : u[i] = s[i]
      /\ \A i \in 1 .. Len(t) : u[Len(s) + i] = t[i]
  OBVIOUS
<1> HIDE DEF u
<1>2. ASSUME Among(u, T) PROVE Among(s, T) /\ Among(t, T)
  <2>1. \A i \in 1 .. Len(s) : i \in 1 .. Len(u)
    BY <1>1
  <2>2. \A i \in 1 .. Len(t) : Len(s) + i \in 1 .. Len(u)
    BY <1>1
  <2>3. QED
    BY <1>1, <1>2, <2>1, <2>2 DEF Among
<1>3. ASSUME Among(s, T), Among(t, T) PROVE Among(u, T)
  <2>1. SUFFICES ASSUME NEW i \in 1 .. Len(u) PROVE u[i] \in T
    BY DEF Among
  <2>2. CASE i <= Len(s)
    BY <1>1, <1>3, <2>2 DEF Among
  <2>3. CASE i > Len(s)
    <3>1. i - Len(s) \in 1 .. Len(t) /\ i = Len(s) + (i - Len(s))
      BY <1>1, <2>3
    <3>2. QED
      BY <1>1, <1>3, <3>1 DEF Among
  <2>4. QED
    BY <1>1, <2>2, <2>3
<1>4. QED
  BY <1>1, <1>2, <1>3 DEF u

Join(s, t) == s \o t

LEMMA FlattenReads ==
    ASSUME NEW count \in Nat, NEW f, \A i \in 1 .. count : f[i] \in Seq(ReadSet), NEW T
    PROVE  LET flat == FlattenSeq([i \in 1 .. count |-> f[i]]) IN
           flat \in Seq(ReadSet) /\ (Among(flat, T) <=> \A i \in 1 .. count : Among(f[i], T))
<1> DEFINE ss == [i \in 1 .. count |-> f[i]]
<1>1. ss \in Seq(Seq(ReadSet)) /\ Len(ss) = count /\ \A i \in 1 .. count : ss[i] = f[i]
  OBVIOUS
<1>2. CASE count = 0
  <2>1. ss = <<>>
    BY <1>1, <1>2
  <2>2. FlattenSeq(ss) = <<>>
    BY <1>1, <1>2, <2>1 DEF FlattenSeq
  <2>3. <<>> \in Seq(ReadSet)
    OBVIOUS
  <2>4. 1 .. Len(<<>>) = {} /\ 1 .. count = {}
    BY <1>2
  <2>5. Among(<<>>, T) /\ \A i \in 1 .. count : Among(f[i], T)
    BY <2>4, Zenon DEF Among
  <2> HIDE DEF ss
  <2>6. FlattenSeq(ss) \in Seq(ReadSet) /\ Among(FlattenSeq(ss), T)
    BY <2>2, <2>3, <2>5, Zenon
  <2>7. QED
    BY <2>5, <2>6, Zenon DEF ss
<1>3. CASE count > 0
  <2> DEFINE F(g, m) == g = [i \in 1 .. m |-> IF i = 1 THEN ss[i] ELSE Join(g[i - 1], ss[i])]
             flat == CHOOSE g : F(g, count)
             P == {m \in Nat : m > 0 => \E g : F(g, m)}
  <2> HIDE DEF ss
  <2>1. \E g : F(g, count)
    <3>1. 0 \in P
      OBVIOUS
    <3>2. ASSUME NEW m \in Nat, m \in P PROVE m + 1 \in P
      <4>1. CASE m = 0
        <5> DEFINE c == [i \in 1 .. 1 |-> ss[1]]
        <5>1. F(c, m + 1)
          BY <4>1
        <5>2. \E g : F(g, m + 1)
          <6> HIDE DEF c, F
          <6>1. QED
            BY <5>1
        <5>3. QED
          <6> HIDE DEF F
          <6>1. QED
            BY <5>2
      <4>2. CASE m > 0
        <5>1. PICK b : F(b, m)
          BY <3>2, <4>2
        <5> DEFINE c == [i \in 1 .. m + 1 |-> IF i = m + 1 THEN Join(b[m], ss[m + 1]) ELSE b[i]]
        <5>2. \A i \in 1 .. m : c[i] = b[i]
          OBVIOUS
        <5>3. ASSUME NEW i \in 1 .. m + 1
              PROVE  c[i] = IF i = 1 THEN ss[i] ELSE Join(c[i - 1], ss[i])
          <6>1. CASE i = m + 1
            BY <4>2, <5>2, <6>1
          <6>2. CASE i # m + 1
            <7>1. i \in 1 .. m /\ b[i] = IF i = 1 THEN ss[i] ELSE Join(b[i - 1], ss[i])
              BY <5>1, <6>2
            <7>2. i # 1 => i - 1 \in 1 .. m
              BY <7>1
            <7>3. QED
              BY <5>2, <7>1, <7>2
          <6>3. QED
            BY <6>1, <6>2
        <5>4. F(c, m + 1)
          BY <5>3
        <5>5. \E g : F(g, m + 1)
          <6> HIDE DEF c, F
          <6>1. QED
            BY <5>4
        <5>6. QED
          <6> HIDE DEF F
          <6>1. QED
            BY <5>5
      <4>3. QED
        BY <4>1, <4>2
    <3>3. Nat \subseteq P
      <4> HIDE DEF P
      <4>1. QED
        BY <3>1, <3>2, Induction
    <3>4. QED
      BY <1>3, <3>3
  <2>2. F(flat, count)
    <3> HIDE DEF F
    <3>1. QED
      BY <2>1
  <2>3. FlattenSeq(ss) = flat[count]
    <3>1. Len(ss) # 0
      BY <1>1, <1>3
    <3>2. FlattenSeq(ss) = (CHOOSE g : F(g, Len(ss)))[Len(ss)]
      BY <3>1, Zenon DEF FlattenSeq, Join
    <3>3. QED
      BY <1>1, <3>2
  <2> DEFINE Q == {m \in Nat : m \in 1 .. count =>
                       /\ flat[m] \in Seq(ReadSet)
                       /\ Among(flat[m], T) <=> \A i \in 1 .. m : Among(ss[i], T)}
  <2>4. /\ flat[1] = ss[1]
        /\ \A i \in 1 .. count : i # 1 => flat[i] = Join(flat[i - 1], ss[i])
    <3>1. \A i \in 1 .. count : flat[i] = IF i = 1 THEN ss[i] ELSE Join(flat[i - 1], ss[i])
      <4> HIDE DEF flat
      <4>1. QED
        BY <2>2
    <3> HIDE DEF flat, F
    <3>2. QED
      BY <1>3, <3>1
  <2> HIDE DEF flat
  <2>5. 0 \in Q
    OBVIOUS
  <2>6. ASSUME NEW m \in Nat, m \in Q PROVE m + 1 \in Q
    <3>1. CASE m = 0
      <4>1. flat[m + 1] = ss[1] /\ 1 .. m + 1 = {1}
        BY <2>4, <3>1
      <4>2. 1 \in 1 .. count /\ ss[1] \in Seq(ReadSet)
        BY <1>1, <1>3
      <4>3. Among(flat[m + 1], T) <=> \A i \in 1 .. m + 1 : Among(ss[i], T)
        BY <4>1, Zenon
      <4>4. flat[m + 1] \in Seq(ReadSet)
        BY <4>1, <4>2
      <4>5. QED
        BY <4>3, <4>4
    <3>2. CASE m > 0 /\ m + 1 <= count
      <4>1. flat[m + 1] = Join(flat[m], ss[m + 1])
        <5>1. m + 1 \in 1 .. count /\ m + 1 # 1 /\ (m + 1) - 1 = m
          BY <3>2
        <5>2. QED
          BY <2>4, <5>1
      <4>2. flat[m] \in Seq(ReadSet) /\ ss[m + 1] \in Seq(ReadSet)
        BY <1>1, <2>6, <3>2
      <4>3. /\ flat[m + 1] \in Seq(ReadSet)
            /\ Among(flat[m + 1], T) <=> Among(flat[m], T) /\ Among(ss[m + 1], T)
        BY <4>1, <4>2, AmongBoth DEF Join
      <4>4. Among(flat[m], T) <=> \A i \in 1 .. m : Among(ss[i], T)
        BY <2>6, <3>2
      <4>5. 1 .. m + 1 = (1 .. m) \cup {m + 1}
        OBVIOUS
      <4>6. QED
        BY <4>3, <4>4, <4>5
    <3>3. CASE m + 1 > count
      BY <3>3
    <3>4. QED
      BY <1>3, <3>1, <3>2, <3>3
  <2>7. Nat \subseteq Q
    <3> HIDE DEF Q
    <3>1. QED
      BY <2>5, <2>6, Induction
  <2>8. flat[count] \in Seq(ReadSet) /\ (Among(flat[count], T) <=> \A i \in 1 .. count : Among(ss[i], T))
    BY <1>3, <2>7
  <2>9. QED
    BY <1>1, <2>3, <2>8 DEF ss
<1>4. QED
  BY <1>2, <1>3

LEMMA Words ==
    /\ "at" \in Hows /\ "required" \in Hows /\ "optional" \in Hows
    /\ "object" \in Whats /\ "array" \in Whats /\ "string" \in Whats /\ "number" \in Whats
    /\ "boolean" \in Whats /\ "money" \in Whats /\ "rate" \in Whats /\ "turnover" \in Whats
    /\ "supply" \in Whats /\ "class" \in Whats
    /\ "supplier" \in Names /\ "buyer" \in Names /\ "invoice" \in Names /\ "irp" \in Names
    /\ "extraction_confidence" \in Names /\ "gstin" \in Names /\ "name" \in Names
    /\ "address_state" \in Names /\ "aato_crore" \in Names /\ "registered" \in Names
    /\ "number" \in Names /\ "date" \in Names /\ "place_of_supply" \in Names
    /\ "supply_type" \in Names /\ "classification" \in Names /\ "hsn_string" \in Names
    /\ "irn" \in Names /\ "irn_present" \in Names /\ "base_value" \in Names
    /\ "total_value" \in Names /\ "line_items" \in Names /\ "tax_breakdown" \in Names
    /\ "hsn" \in Names /\ "description" \in Names /\ "tax_rate" \in Names
    /\ "quantity" \in Names /\ "unit_price" \in Names /\ "cgst" \in Names /\ "sgst" \in Names
    /\ "igst" \in Names /\ "cess" \in Names /\ "total_tax" \in Names
    /\ "has_cgst_sgst" \in Names /\ "has_igst" \in Names /\ "reported_on" \in Names
    /\ "acknowledgment_no" \in Names /\ "overall_score" \in Names /\ "warnings" \in Names
<1>1. "at" \in Hows /\ "required" \in Hows /\ "optional" \in Hows
  BY DEF Hows
<1>2. /\ "object" \in Whats /\ "array" \in Whats /\ "string" \in Whats /\ "number" \in Whats
      /\ "boolean" \in Whats /\ "money" \in Whats /\ "rate" \in Whats /\ "turnover" \in Whats
      /\ "supply" \in Whats /\ "class" \in Whats
  BY DEF Whats
<1>3. QED
  BY <1>1, <1>2 DEF Names

LEMMA ReadsAmong ==
    ASSUME NEW how \in Hows, NEW what \in Whats, NEW p \in Seq(Keys), NEW keys \in Seq(Names),
           NEW T
    PROVE  /\ Reads(how, what, p, keys) \in Seq(ReadSet)
           /\ Among(Reads(how, what, p, keys), T) <=> Each(T, how, what, p, Range(keys))
<1> DEFINE r == Reads(how, what, p, keys)
<1>1. /\ DOMAIN keys = 1 .. Len(keys) /\ Len(keys) \in Nat
      /\ \A i \in 1 .. Len(keys) : keys[i] \in Names
  OBVIOUS
<1>2. \A i \in 1 .. Len(keys) : Read(how, what, Append(p, keys[i])) \in ReadSet
  <2>1. SUFFICES ASSUME NEW i \in 1 .. Len(keys)
                 PROVE  Read(how, what, Append(p, keys[i])) \in ReadSet
    OBVIOUS
  <2>2. keys[i] \in Keys
    BY <1>1 DEF Keys
  <2>3. Append(p, keys[i]) \in Seq(Keys)
    BY <2>2
  <2>4. QED
    BY <2>3 DEF Read, ReadSet
<1>3. r = [i \in 1 .. Len(keys) |-> Read(how, what, Append(p, keys[i]))]
  BY <1>1 DEF Reads
<1>4. r \in Seq(ReadSet) /\ Len(r) = Len(keys)
  <2> HIDE DEF r
  <2> DEFINE R(i) == Read(how, what, Append(p, keys[i]))
  <2>1. r = [i \in 1 .. Len(keys) |-> R(i)] /\ \A i \in 1 .. Len(keys) : R(i) \in ReadSet
    BY <1>2, <1>3
  <2> HIDE DEF R
  <2>2. QED
    BY <1>1, <2>1
<1>5. \A i \in 1 .. Len(keys) : r[i] = Read(how, what, Append(p, keys[i]))
  <2> HIDE DEF r
  <2>1. QED
    BY <1>3, Zenon
<1>6. Among(r, T) <=> \A i \in 1 .. Len(keys) : Read(how, what, Append(p, keys[i])) \in T
  <2> HIDE DEF r
  <2>1. QED
    BY <1>4, <1>5, Zenon DEF Among
<1>7. Range(keys) = {keys[i] : i \in 1 .. Len(keys)}
  BY <1>1, Zenon DEF Range
<1>8. QED
  BY <1>4, <1>6, <1>7, Zenon DEF Each

LEMMA Objects ==
    /\ <<>> \in Seq(Keys) /\ Supplier \in Seq(Keys) /\ Buyer \in Seq(Keys)
    /\ Invoice \in Seq(Keys) /\ Tax \in Seq(Keys) /\ Items \in Seq(Keys)
    /\ Irp \in Seq(Keys) /\ Confidence \in Seq(Keys)
<1>1. <<>> \in Seq(Keys)
  OBVIOUS
<1>2. \A a \in Keys : <<a>> \in Seq(Keys)
  OBVIOUS
<1>3. \A a, b \in Keys : <<a, b>> \in Seq(Keys)
  OBVIOUS
<1>4. /\ "supplier" \in Keys /\ "buyer" \in Keys /\ "invoice" \in Keys
      /\ "tax_breakdown" \in Keys /\ "line_items" \in Keys /\ "irp" \in Keys
      /\ "extraction_confidence" \in Keys
  BY Words DEF Keys
<1>5. QED
  BY <1>1, <1>2, <1>3, <1>4, Zenon DEF Supplier, Buyer, Invoice, Tax, Items, Irp, Confidence

LEMMA ReadsOfOne ==
    ASSUME NEW how \in Hows, NEW what \in Whats, NEW p \in Seq(Keys), NEW T,
           NEW a \in Names
    PROVE  /\ Reads(how, what, p, <<a>>) \in Seq(ReadSet)
           /\ Among(Reads(how, what, p, <<a>>), T) <=> Each(T, how, what, p, {a})
<1> DEFINE s == <<a>>
<1>1. s \in Seq(Names) /\ DOMAIN s = {1}
  OBVIOUS
<1>2. s[1] = a
  OBVIOUS
<1> HIDE DEF s
<1>3. Range(s) = {a}
  BY <1>1, <1>2 DEF Range
<1>4. /\ Reads(how, what, p, s) \in Seq(ReadSet)
      /\ Among(Reads(how, what, p, s), T) <=> Each(T, how, what, p, Range(s))
  BY <1>1, ReadsAmong, Zenon
<1>5. QED
  BY <1>3, <1>4, Zenon DEF s

LEMMA ReadsOfThree ==
    ASSUME NEW how \in Hows, NEW what \in Whats, NEW p \in Seq(Keys), NEW T,
           NEW a \in Names, NEW b \in Names, NEW c \in Names
    PROVE  /\ Reads(how, what, p, <<a, b, c>>) \in Seq(ReadSet)
           /\ Among(Reads(how, what, p, <<a, b, c>>), T) <=> Each(T, how, what, p, {a, b, c})
<1> DEFINE s == <<a, b, c>>
<1>1. s \in Seq(Names) /\ DOMAIN s = {1, 2, 3}
  OBVIOUS
<1>2. s[1] = a /\ s[2] = b /\ s[3] = c
  OBVIOUS
<1> HIDE DEF s
<1>3. Range(s) = {a, b, c}
  BY <1>1, <1>2 DEF Range
<1>4. /\ Reads(how, what, p, s) \in Seq(ReadSet)
      /\ Among(Reads(how, what, p, s), T) <=> Each(T, how, what, p, Range(s))
  BY <1>1, ReadsAmong, Zenon
<1>5. QED
  BY <1>3, <1>4, Zenon DEF s

LEMMA ReadsOfFour ==
    ASSUME NEW how \in Hows, NEW what \in Whats, NEW p \in Seq(Keys), NEW T,
           NEW a \in Names, NEW b \in Names, NEW c \in Names, NEW d \in Names
    PROVE  /\ Reads(how, what, p, <<a, b, c, d>>) \in Seq(ReadSet)
           /\ Among(Reads(how, what, p, <<a, b, c, d>>), T) <=> Each(T, how, what, p, {a, b, c, d})
<1> DEFINE s == <<a, b, c, d>>
<1>1. s \in Seq(Names) /\ DOMAIN s = {1, 2, 3, 4}
  OBVIOUS
<1>2. s[1] = a /\ s[2] = b /\ s[3] = c /\ s[4] = d
  OBVIOUS
<1> HIDE DEF s
<1>3. Range(s) = {a, b, c, d}
  BY <1>1, <1>2 DEF Range
<1>4. /\ Reads(how, what, p, s) \in Seq(ReadSet)
      /\ Among(Reads(how, what, p, s), T) <=> Each(T, how, what, p, Range(s))
  BY <1>1, ReadsAmong, Zenon
<1>5. QED
  BY <1>3, <1>4, Zenon DEF s

LEMMA ReadsOfFive ==
    ASSUME NEW how \in Hows, NEW what \in Whats, NEW p \in Seq(Keys), NEW T,
           NEW a \in Names, NEW b \in Names, NEW c \in Names, NEW d \in Names, NEW e \in Names
    PROVE  /\ Reads(how, what, p, <<a, b, c, d, e>>) \in Seq(ReadSet)
           /\ Among(Reads(how, what, p, <<a, b, c, d, e>>), T) <=> Each(T, how, what, p, {a, b, c, d, e})
<1> DEFINE s == <<a, b, c, d, e>>
<1>1. s \in Seq(Names) /\ DOMAIN s = {1, 2, 3, 4, 5}
  OBVIOUS
<1>2. s[1] = a /\ s[2] = b /\ s[3] = c /\ s[4] = d /\ s[5] = e
  OBVIOUS
<1> HIDE DEF s
<1>3. Range(s) = {a, b, c, d, e}
  BY <1>1, <1>2 DEF Range
<1>4. /\ Reads(how, what, p, s) \in Seq(ReadSet)
      /\ Among(Reads(how, what, p, s), T) <=> Each(T, how, what, p, Range(s))
  BY <1>1, ReadsAmong, Zenon
<1>5. QED
  BY <1>3, <1>4, Zenon DEF s

-----------------------------------------------------------------------------
(* Values, and their members *)

Json == Values \cup {Absent}

LEMMA Tags ==
    ASSUME NEW v \in Values
    PROVE  /\ v.tag \in {"null", "boolean", "string", "number", "object", "array"}
           /\ v.tag = "boolean" => v.b \in BOOLEAN /\ v = Boolean(v.b)
           /\ v.tag = "object" => \A key \in DOMAIN v.m : v.m[key] \in Values
           /\ v.tag = "array" => v.e \in Seq(Values)
<1>1. IsValue(v, Values)
  BY ValuesAssumption DEF AreValues
<1>2. CASE v = Null
  BY <1>2 DEF Null
<1>3. CASE v = Boolean(TRUE)
  BY <1>3 DEF Boolean
<1>4. CASE v = Boolean(FALSE)
  BY <1>4 DEF Boolean
<1>5. CASE v \in [tag : {"string"}, s : STRING] \/ v \in [tag : {"number"}, r : Ranges]
  BY <1>5
<1>6. CASE v.tag = "object" /\ \A key \in DOMAIN v.m : v.m[key] \in Values
  BY <1>6
<1>7. CASE v.tag = "array" /\ v.e \in Seq(Values)
  BY <1>7
<1>8. QED
  BY <1>1, <1>2, <1>3, <1>4, <1>5, <1>6, <1>7, Zenon DEF IsValue

LEMMA AbsentIsNone == Absent.tag = "absent" /\ \A v \in Values : v # Absent
<1>1. Absent.tag = "absent"
  BY DEF Absent
<1>2. \A v \in Values : v.tag # "absent"
  BY Tags
<1>3. QED
  BY <1>1, <1>2

LEMMA MemberIsJson ==
    ASSUME NEW v \in Json, NEW key
    PROVE  Member(v, key) \in Json
<1>1. CASE v = Absent
  BY <1>1, AbsentIsNone DEF Member, Json
<1>2. CASE v \in Values
  <2>1. CASE v.tag = "object" /\ key \in DOMAIN v.m
    BY <1>2, <2>1, Tags DEF Member, Json
  <2>2. CASE v.tag = "array" /\ key \in DOMAIN v.e
    <3>1. v.e \in Seq(Values)
      BY <1>2, <2>2, Tags
    <3>2. v.e[key] \in Values
      BY <2>2, <3>1
    <3>3. QED
      BY <2>2, <3>2 DEF Member, Json
  <2>3. CASE /\ ~(v.tag = "object" /\ key \in DOMAIN v.m)
             /\ ~(v.tag = "array" /\ key \in DOMAIN v.e)
    BY <2>3 DEF Member, Json
  <2>4. QED
    BY <2>1, <2>2, <2>3
<1>3. QED
  BY <1>1, <1>2 DEF Json

LEMMA ObjectMember ==
    ASSUME NEW v \in Values, v.tag = "object", NEW key
    PROVE  /\ key \in DOMAIN v.m <=> Member(v, key) # Absent
           /\ key \in DOMAIN v.m => Member(v, key) = v.m[key]
<1>1. CASE key \in DOMAIN v.m
  <2>1. Member(v, key) = v.m[key]
    BY <1>1 DEF Member
  <2>2. v.m[key] \in Values
    BY <1>1, Tags
  <2>3. QED
    BY <1>1, <2>1, <2>2, AbsentIsNone
<1>2. CASE key \notin DOMAIN v.m
  BY <1>2 DEF Member
<1>3. QED
  BY <1>1, <1>2

LEMMA ArrayMember ==
    ASSUME NEW v \in Values, v.tag = "array"
    PROVE  /\ Len(v.e) \in Nat /\ DOMAIN v.e = 1 .. Len(v.e)
           /\ \A i \in 1 .. Len(v.e) : Member(v, i) = v.e[i] /\ v.e[i] \in Values
<1>1. v.e \in Seq(Values)
  BY Tags
<1>2. Len(v.e) \in Nat /\ DOMAIN v.e = 1 .. Len(v.e) /\ \A i \in 1 .. Len(v.e) : v.e[i] \in Values
  BY <1>1
<1>3. \A i \in DOMAIN v.e : Member(v, i) = v.e[i]
  BY DEF Member
<1>4. QED
  BY <1>2, <1>3

-----------------------------------------------------------------------------
(* The objects of a document that are read *)

LEMMA MembersOf ==
    ASSUME NEW d \in Json, NEW p \in Seq(Keys), ValueAt(d, p) \in Json, NEW key \in Names
    PROVE  /\ ValueAt(d, Append(p, key)) = Member(ValueAt(d, p), key)
           /\ ValueAt(d, Append(p, key)) \in Json
<1>1. key \in Keys
  BY DEF Keys
<1>2. QED
  BY <1>1, MemberIsReached, MemberIsJson

LEMMA Places ==
    ASSUME NEW d \in Json
    PROVE  /\ ValueAt(d, <<>>) = d
           /\ ValueAt(d, Supplier) = Member(d, "supplier") /\ ValueAt(d, Supplier) \in Json
           /\ ValueAt(d, Buyer) = Member(d, "buyer") /\ ValueAt(d, Buyer) \in Json
           /\ ValueAt(d, Invoice) = Member(d, "invoice") /\ ValueAt(d, Invoice) \in Json
           /\ ValueAt(d, Irp) = Member(d, "irp") /\ ValueAt(d, Irp) \in Json
           /\ ValueAt(d, Confidence) = Member(d, "extraction_confidence")
           /\ ValueAt(d, Confidence) \in Json
           /\ ValueAt(d, Tax) = Member(ValueAt(d, Invoice), "tax_breakdown")
           /\ ValueAt(d, Tax) \in Json
           /\ ValueAt(d, Items) = Member(ValueAt(d, Invoice), "line_items")
           /\ ValueAt(d, Items) \in Json
<1>1. /\ Supplier = Append(<<>>, "supplier") /\ Buyer = Append(<<>>, "buyer")
      /\ Invoice = Append(<<>>, "invoice") /\ Irp = Append(<<>>, "irp")
      /\ Confidence = Append(<<>>, "extraction_confidence")
  BY DEF Supplier, Buyer, Invoice, Irp, Confidence
<1>2. Tax = Append(Invoice, "tax_breakdown") /\ Items = Append(Invoice, "line_items")
  BY DEF Tax, Items, Invoice
<1>3. ValueAt(d, <<>>) = d
  BY RootIsReached
<1>4. ASSUME NEW key \in Names
      PROVE  /\ ValueAt(d, Append(<<>>, key)) = Member(d, key)
             /\ ValueAt(d, Append(<<>>, key)) \in Json
  <2>1. <<>> \in Seq(Keys) /\ ValueAt(d, <<>>) \in Json
    BY <1>3, Objects
  <2>2. /\ ValueAt(d, Append(<<>>, key)) = Member(ValueAt(d, <<>>), key)
        /\ ValueAt(d, Append(<<>>, key)) \in Json
    BY <2>1, MembersOf
  <2>3. QED
    BY <1>3, <2>2
<1>5. ValueAt(d, Invoice) \in Json
  BY <1>1, <1>4, Words, Zenon
<1>6. ASSUME NEW key \in Names
      PROVE  /\ ValueAt(d, Append(Invoice, key)) = Member(ValueAt(d, Invoice), key)
             /\ ValueAt(d, Append(Invoice, key)) \in Json
  BY <1>5, MembersOf, Objects
<1>7. /\ "supplier" \in Names /\ "buyer" \in Names /\ "invoice" \in Names /\ "irp" \in Names
      /\ "extraction_confidence" \in Names /\ "tax_breakdown" \in Names /\ "line_items" \in Names
  BY Words, Zenon
<1>8. QED
  BY <1>1, <1>2, <1>3, <1>4, <1>6, <1>7, Zenon

-----------------------------------------------------------------------------
(* The reads of the sanitizer *)

ItemsCount(d) == IF ValueAt(d, Items).tag = "array" THEN Len(ValueAt(d, Items).e) ELSE 0

LEMMA CountIsNat == ASSUME NEW d \in Json PROVE ItemsCount(d) \in Nat
<1>1. ValueAt(d, Items) \in Json
  BY Places, Zenon
<1>2. CASE ValueAt(d, Items).tag = "array"
  BY <1>1, <1>2, ArrayMember, AbsentIsNone DEF ItemsCount, Json
<1>3. CASE ValueAt(d, Items).tag # "array"
  BY <1>3 DEF ItemsCount
<1>4. QED
  BY <1>2, <1>3

\* The reads of one line item.
EachOfItem(T, item) ==
    /\ Read("required", "object", item) \in T
    /\ Each(T, "at", "string", item, {"hsn"})
    /\ Each(T, "at", "rate", item, {"tax_rate"})
    /\ Each(T, "at", "money", item, {"base_value"})
    /\ Each(T, "optional", "string", item, {"description"})
    /\ Each(T, "optional", "number", item, {"quantity"})
    /\ Each(T, "optional", "money", item, {"unit_price"})

LEMMA ItemAmong ==
    ASSUME NEW i \in Nat, NEW T
    PROVE  /\ Append(Items, i) \in Seq(Keys)
           /\ ItemReads(i) \in Seq(ReadSet)
           /\ Among(ItemReads(i), T) <=> EachOfItem(T, Append(Items, i))
<1> DEFINE item == Append(Items, i)
           r == ItemReads(i)
<1>1. item \in Seq(Keys)
  BY Objects DEF Keys
<1> HIDE DEF item
<1>2. \A key \in Names : Append(item, key) \in Seq(Keys)
  BY <1>1 DEF Keys
<1>3. \A how \in Hows, what \in Whats, p \in Seq(Keys) : Read(how, what, p) \in ReadSet
  BY DEF Read, ReadSet
<1>4. r = <<Read("required", "object", item), Read("at", "string", Append(item, "hsn")),
            Read("at", "rate", Append(item, "tax_rate")),
            Read("at", "money", Append(item, "base_value")),
            Read("optional", "string", Append(item, "description")),
            Read("optional", "number", Append(item, "quantity")),
            Read("optional", "money", Append(item, "unit_price"))>>
  BY Zenon DEF ItemReads, item
<1>5. /\ Read("required", "object", item) \in ReadSet
      /\ Read("at", "string", Append(item, "hsn")) \in ReadSet
      /\ Read("at", "rate", Append(item, "tax_rate")) \in ReadSet
      /\ Read("at", "money", Append(item, "base_value")) \in ReadSet
      /\ Read("optional", "string", Append(item, "description")) \in ReadSet
      /\ Read("optional", "number", Append(item, "quantity")) \in ReadSet
      /\ Read("optional", "money", Append(item, "unit_price")) \in ReadSet
  BY <1>1, <1>2, <1>3, Words
<1> HIDE DEF r
<1>6. r \in Seq(ReadSet) /\ Len(r) = 7
  BY <1>4, <1>5
<1>7. /\ r[1] = Read("required", "object", item) /\ r[2] = Read("at", "string", Append(item, "hsn"))
      /\ r[3] = Read("at", "rate", Append(item, "tax_rate"))
      /\ r[4] = Read("at", "money", Append(item, "base_value"))
      /\ r[5] = Read("optional", "string", Append(item, "description"))
      /\ r[6] = Read("optional", "number", Append(item, "quantity"))
      /\ r[7] = Read("optional", "money", Append(item, "unit_price"))
  BY <1>4
<1>8. Among(r, T) <=> \A n \in {1, 2, 3, 4, 5, 6, 7} : r[n] \in T
  <2>1. 1 .. 7 = {1, 2, 3, 4, 5, 6, 7}
    OBVIOUS
  <2>2. QED
    BY <1>6, <2>1, Zenon DEF Among
<1>9. Among(r, T) <=> /\ r[1] \in T /\ r[2] \in T /\ r[3] \in T /\ r[4] \in T
                      /\ r[5] \in T /\ r[6] \in T /\ r[7] \in T
  BY <1>8
<1>10. Among(r, T) <=> EachOfItem(T, item)
  BY <1>7, <1>9, Zenon DEF EachOfItem, Each
<1>11. QED
  BY <1>1, <1>6, <1>10 DEF r, item

-----------------------------------------------------------------------------
(* The reads of each section *)

LEMMA SupplierAmong ==
    ASSUME NEW T
    PROVE  /\ SupplierReads \in Seq(ReadSet)
           /\ Among(SupplierReads, T) <=>
                  /\ Each(T, "required", "object", <<>>, {"supplier"})
                  /\ Each(T, "at", "string", Supplier, {"gstin", "name", "address_state"})
                  /\ Each(T, "optional", "turnover", Supplier, {"aato_crore"})
<1> DEFINE a == Reads("required", "object", <<>>, <<"supplier">>)
           b == Reads("at", "string", Supplier, <<"gstin", "name", "address_state">>)
           c == Reads("optional", "turnover", Supplier, <<"aato_crore">>)
<1>1. /\ a \in Seq(ReadSet)
      /\ Among(a, T) <=> Each(T, "required", "object", <<>>, {"supplier"})
  BY ReadsOfOne, Objects, Words, Zenon
<1>2. /\ b \in Seq(ReadSet)
      /\ Among(b, T) <=> Each(T, "at", "string", Supplier, {"gstin", "name", "address_state"})
  BY ReadsOfThree, Objects, Words, Zenon
<1>3. /\ c \in Seq(ReadSet)
      /\ Among(c, T) <=> Each(T, "optional", "turnover", Supplier, {"aato_crore"})
  BY ReadsOfOne, Objects, Words, Zenon
<1>4. SupplierReads = (a \o b) \o c
  BY Zenon DEF SupplierReads
<1> HIDE DEF a, b, c
<1>5. a \o b \in Seq(ReadSet) /\ (Among(a \o b, T) <=> Among(a, T) /\ Among(b, T))
  BY <1>1, <1>2, AmongBoth
<1>6. (a \o b) \o c \in Seq(ReadSet) /\ (Among((a \o b) \o c, T) <=> Among(a \o b, T) /\ Among(c, T))
  BY <1>5, <1>3, AmongBoth
<1>7. QED
  BY <1>1, <1>2, <1>3, <1>4, <1>5, <1>6, Zenon

LEMMA BuyerAmong ==
    ASSUME NEW T
    PROVE  /\ BuyerReads \in Seq(ReadSet)
           /\ Among(BuyerReads, T) <=>
                  /\ Each(T, "optional", "object", <<>>, {"buyer"})
                  /\ Each(T, "optional", "boolean", Buyer, {"registered"})
                  /\ Each(T, "optional", "string", Buyer, {"gstin", "name", "address_state"})
<1> DEFINE a == Reads("optional", "object", <<>>, <<"buyer">>)
           b == Reads("optional", "boolean", Buyer, <<"registered">>)
           c == Reads("optional", "string", Buyer, <<"gstin", "name", "address_state">>)
<1>1. /\ a \in Seq(ReadSet)
      /\ Among(a, T) <=> Each(T, "optional", "object", <<>>, {"buyer"})
  BY ReadsOfOne, Objects, Words, Zenon
<1>2. /\ b \in Seq(ReadSet)
      /\ Among(b, T) <=> Each(T, "optional", "boolean", Buyer, {"registered"})
  BY ReadsOfOne, Objects, Words, Zenon
<1>3. /\ c \in Seq(ReadSet)
      /\ Among(c, T) <=> Each(T, "optional", "string", Buyer, {"gstin", "name", "address_state"})
  BY ReadsOfThree, Objects, Words, Zenon
<1>4. BuyerReads = (a \o b) \o c
  BY Zenon DEF BuyerReads
<1> HIDE DEF a, b, c
<1>5. a \o b \in Seq(ReadSet) /\ (Among(a \o b, T) <=> Among(a, T) /\ Among(b, T))
  BY <1>1, <1>2, AmongBoth
<1>6. (a \o b) \o c \in Seq(ReadSet) /\ (Among((a \o b) \o c, T) <=> Among(a \o b, T) /\ Among(c, T))
  BY <1>5, <1>3, AmongBoth
<1>7. QED
  BY <1>1, <1>2, <1>3, <1>4, <1>5, <1>6, Zenon

LEMMA TaxAmong ==
    ASSUME NEW T
    PROVE  /\ TaxReads \in Seq(ReadSet)
           /\ Among(TaxReads, T) <=>
                  /\ Each(T, "required", "object", Invoice, {"tax_breakdown"})
                  /\ Each(T, "optional", "money", Tax, {"cgst", "sgst", "igst", "cess", "total_tax"})
                  /\ Each(T, "required", "money", Invoice, {"total_value"})
<1> DEFINE a == Reads("required", "object", Invoice, <<"tax_breakdown">>)
           b == Reads("optional", "money", Tax, <<"cgst", "sgst", "igst", "cess", "total_tax">>)
           c == Reads("required", "money", Invoice, <<"total_value">>)
<1>1. /\ a \in Seq(ReadSet)
      /\ Among(a, T) <=> Each(T, "required", "object", Invoice, {"tax_breakdown"})
  BY ReadsOfOne, Objects, Words, Zenon
<1>2. /\ b \in Seq(ReadSet)
      /\ Among(b, T) <=> Each(T, "optional", "money", Tax, {"cgst", "sgst", "igst", "cess", "total_tax"})
  BY ReadsOfFive, Objects, Words, Zenon
<1>3. /\ c \in Seq(ReadSet)
      /\ Among(c, T) <=> Each(T, "required", "money", Invoice, {"total_value"})
  BY ReadsOfOne, Objects, Words, Zenon
<1>4. TaxReads = (a \o b) \o c
  BY Zenon DEF TaxReads
<1> HIDE DEF a, b, c
<1>5. a \o b \in Seq(ReadSet) /\ (Among(a \o b, T) <=> Among(a, T) /\ Among(b, T))
  BY <1>1, <1>2, AmongBoth
<1>6. (a \o b) \o c \in Seq(ReadSet) /\ (Among((a \o b) \o c, T) <=> Among(a \o b, T) /\ Among(c, T))
  BY <1>5, <1>3, AmongBoth
<1>7. QED
  BY <1>1, <1>2, <1>3, <1>4, <1>5, <1>6, Zenon

LEMMA IrpAmong ==
    ASSUME NEW T
    PROVE  /\ IrpReads \in Seq(ReadSet)
           /\ Among(IrpReads, T) <=>
                  /\ Each(T, "optional", "object", <<>>, {"irp"})
                  /\ Each(T, "optional", "string", Irp, {"reported_on"})
<1> DEFINE a == Reads("optional", "object", <<>>, <<"irp">>)
           b == Reads("optional", "string", Irp, <<"reported_on">>)
<1>1. /\ a \in Seq(ReadSet)
      /\ Among(a, T) <=> Each(T, "optional", "object", <<>>, {"irp"})
  BY ReadsOfOne, Objects, Words, Zenon
<1>2. /\ b \in Seq(ReadSet)
      /\ Among(b, T) <=> Each(T, "optional", "string", Irp, {"reported_on"})
  BY ReadsOfOne, Objects, Words, Zenon
<1>3. IrpReads = a \o b
  BY Zenon DEF IrpReads
<1> HIDE DEF a, b
<1>4. a \o b \in Seq(ReadSet) /\ (Among(a \o b, T) <=> Among(a, T) /\ Among(b, T))
  BY <1>1, <1>2, AmongBoth
<1>5. QED
  BY <1>1, <1>2, <1>3, <1>4, Zenon

\* An IRN is read where one is claimed.
AsksIrn(d) == ValueAt(d, Append(Invoice, "irn_present")) = Boolean(TRUE)

LEMMA IrnAmong ==
    ASSUME NEW d, NEW T
    PROVE  /\ IrnReads(d) \in Seq(ReadSet)
           /\ Among(IrnReads(d), T)
                  <=> (AsksIrn(d) => Each(T, "required", "string", Invoice, {"irn"}))
<1>1. CASE AsksIrn(d)
  <2>1. IrnReads(d) = Reads("required", "string", Invoice, <<"irn">>)
    BY <1>1, Zenon DEF IrnReads, AsksIrn
  <2>2. /\ Reads("required", "string", Invoice, <<"irn">>) \in Seq(ReadSet)
        /\ Among(Reads("required", "string", Invoice, <<"irn">>), T)
               <=> Each(T, "required", "string", Invoice, {"irn"})
    BY ReadsOfOne, Objects, Words, Zenon
  <2>3. QED
    BY <1>1, <2>1, <2>2, Zenon
<1>2. CASE ~AsksIrn(d)
  <2>1. IrnReads(d) = <<>>
    BY <1>2, Zenon DEF IrnReads, AsksIrn
  <2>2. <<>> \in Seq(ReadSet)
    OBVIOUS
  <2>3. 1 .. Len(<<>>) = {}
    OBVIOUS
  <2>4. Among(<<>>, T)
    BY <2>3, Zenon DEF Among
  <2>5. QED
    BY <1>2, <2>1, <2>2, <2>4, Zenon
<1>3. QED
  BY <1>1, <1>2, Zenon

LEMMA InvoiceAmong ==
    ASSUME NEW d, NEW T
    PROVE  /\ InvoiceReads(d) \in Seq(ReadSet)
           /\ Among(InvoiceReads(d), T) <=>
                  /\ Each(T, "required", "object", <<>>, {"invoice"})
                  /\ Each(T, "at", "string", Invoice, {"number", "date", "place_of_supply", "hsn_string"})
                  /\ Each(T, "at", "supply", Invoice, {"supply_type"})
                  /\ Each(T, "at", "class", Invoice, {"classification"})
                  /\ Each(T, "required", "boolean", Invoice, {"irn_present"})
                  /\ (AsksIrn(d) => Each(T, "required", "string", Invoice, {"irn"}))
                  /\ Each(T, "required", "money", Invoice, {"base_value"})
<1> DEFINE a == Reads("required", "object", <<>>, <<"invoice">>)
           b == Reads("at", "string", Invoice, <<"number", "date", "place_of_supply", "hsn_string">>)
           c == Reads("at", "supply", Invoice, <<"supply_type">>)
           e == Reads("at", "class", Invoice, <<"classification">>)
           f == Reads("required", "boolean", Invoice, <<"irn_present">>)
           g == IrnReads(d)
           h == Reads("required", "money", Invoice, <<"base_value">>)
<1>1. /\ a \in Seq(ReadSet)
      /\ Among(a, T) <=> Each(T, "required", "object", <<>>, {"invoice"})
  BY ReadsOfOne, Objects, Words, Zenon
<1>2. /\ b \in Seq(ReadSet)
      /\ Among(b, T) <=> Each(T, "at", "string", Invoice, {"number", "date", "place_of_supply", "hsn_string"})
  BY ReadsOfFour, Objects, Words, Zenon
<1>3. /\ c \in Seq(ReadSet)
      /\ Among(c, T) <=> Each(T, "at", "supply", Invoice, {"supply_type"})
  BY ReadsOfOne, Objects, Words, Zenon
<1>4. /\ e \in Seq(ReadSet)
      /\ Among(e, T) <=> Each(T, "at", "class", Invoice, {"classification"})
  BY ReadsOfOne, Objects, Words, Zenon
<1>5. /\ f \in Seq(ReadSet)
      /\ Among(f, T) <=> Each(T, "required", "boolean", Invoice, {"irn_present"})
  BY ReadsOfOne, Objects, Words, Zenon
<1>6. /\ g \in Seq(ReadSet)
      /\ Among(g, T) <=> (AsksIrn(d) => Each(T, "required", "string", Invoice, {"irn"}))
  BY IrnAmong, Zenon
<1>7. /\ h \in Seq(ReadSet)
      /\ Among(h, T) <=> Each(T, "required", "money", Invoice, {"base_value"})
  BY ReadsOfOne, Objects, Words, Zenon
<1>8. InvoiceReads(d) = (((((a \o b) \o c) \o e) \o f) \o g) \o h
  BY Zenon DEF InvoiceReads
<1> HIDE DEF a, b, c, e, f, g, h
<1>9. a \o b \in Seq(ReadSet) /\ (Among(a \o b, T) <=> Among(a, T) /\ Among(b, T))
  BY <1>1, <1>2, AmongBoth
<1> DEFINE ab == a \o b
<1> HIDE DEF ab
<1>10. ab \o c \in Seq(ReadSet) /\ (Among(ab \o c, T) <=> Among(ab, T) /\ Among(c, T))
  BY <1>3, <1>9, AmongBoth DEF ab
<1> DEFINE abc == ab \o c
<1> HIDE DEF abc
<1>11. abc \o e \in Seq(ReadSet) /\ (Among(abc \o e, T) <=> Among(abc, T) /\ Among(e, T))
  BY <1>4, <1>10, AmongBoth DEF abc
<1> DEFINE abce == abc \o e
<1> HIDE DEF abce
<1>12. abce \o f \in Seq(ReadSet) /\ (Among(abce \o f, T) <=> Among(abce, T) /\ Among(f, T))
  BY <1>5, <1>11, AmongBoth DEF abce
<1> DEFINE abcef == abce \o f
<1> HIDE DEF abcef
<1>13. abcef \o g \in Seq(ReadSet) /\ (Among(abcef \o g, T) <=> Among(abcef, T) /\ Among(g, T))
  BY <1>6, <1>12, AmongBoth DEF abcef
<1> DEFINE abcefg == abcef \o g
<1> HIDE DEF abcefg
<1>14. abcefg \o h \in Seq(ReadSet) /\ (Among(abcefg \o h, T) <=> Among(abcefg, T) /\ Among(h, T))
  BY <1>7, <1>13, AmongBoth DEF abcefg
<1>15. InvoiceReads(d) = abcefg \o h
  BY <1>8, Zenon DEF ab, abc, abce, abcef, abcefg
<1>16. Among(InvoiceReads(d), T) <=> /\ Among(a, T) /\ Among(b, T) /\ Among(c, T)
                                     /\ Among(e, T) /\ Among(f, T) /\ Among(g, T) /\ Among(h, T)
  BY <1>9, <1>10, <1>11, <1>12, <1>13, <1>14, <1>15, Zenon DEF ab, abc, abce, abcef, abcefg
<1>17. InvoiceReads(d) \in Seq(ReadSet)
  BY <1>14, <1>15, Zenon
<1>18. QED
  BY <1>1, <1>2, <1>3, <1>4, <1>5, <1>6, <1>7, <1>16, <1>17, Zenon

LEMMA LinesAmong ==
    ASSUME NEW d \in Json, NEW T
    PROVE  /\ LineReads(d) \in Seq(ReadSet)
           /\ Among(LineReads(d), T) <=>
                  /\ Each(T, "required", "array", Invoice, {"line_items"})
                  /\ \A i \in 1 .. ItemsCount(d) : EachOfItem(T, Append(Items, i))
<1> DEFINE count == ItemsCount(d)
           f == [i \in 1 .. count |-> ItemReads(i)]
           a == Reads("required", "array", Invoice, <<"line_items">>)
           b == FlattenSeq(f)
<1>1. /\ a \in Seq(ReadSet)
      /\ Among(a, T) <=> Each(T, "required", "array", Invoice, {"line_items"})
  BY ReadsOfOne, Objects, Words, Zenon
<1>2. count \in Nat
  BY CountIsNat
<1> HIDE DEF count
<1>3. \A i \in 1 .. count :
          /\ ItemReads(i) \in Seq(ReadSet)
          /\ Among(ItemReads(i), T) <=> EachOfItem(T, Append(Items, i))
  BY <1>2, ItemAmong
<1>4. \A i \in 1 .. count : f[i] = ItemReads(i)
  BY Zenon
<1>5. f = [i \in 1 .. count |-> f[i]]
  BY <1>4, Zenon
<1> HIDE DEF f
<1>6. /\ FlattenSeq([i \in 1 .. count |-> f[i]]) \in Seq(ReadSet)
      /\ Among(FlattenSeq([i \in 1 .. count |-> f[i]]), T) <=> \A i \in 1 .. count : Among(f[i], T)
  <2>1. \A i \in 1 .. count : f[i] \in Seq(ReadSet)
    BY <1>3, <1>4, Zenon
  <2>2. QED
    BY <1>2, <2>1, FlattenReads, Zenon
<1>7. b \in Seq(ReadSet) /\ (Among(b, T) <=> \A i \in 1 .. count : EachOfItem(T, Append(Items, i)))
  BY <1>3, <1>4, <1>5, <1>6, Zenon
<1>8. LineReads(d) = a \o b
  BY Zenon DEF LineReads, ItemsCount, count, f
<1> HIDE DEF a, b
<1>9. a \o b \in Seq(ReadSet) /\ (Among(a \o b, T) <=> Among(a, T) /\ Among(b, T))
  BY <1>1, <1>7, AmongBoth
<1>10. QED
  BY <1>1, <1>7, <1>8, <1>9, Zenon DEF count

LEMMA AllAmong ==
    ASSUME NEW d \in Json, NEW T
    PROVE  /\ AllReads(d) \in Seq(ReadSet)
           /\ Among(AllReads(d), T) <=>
                  /\ Among(SupplierReads, T) /\ Among(BuyerReads, T) /\ Among(InvoiceReads(d), T)
                  /\ Among(LineReads(d), T) /\ Among(TaxReads, T) /\ Among(IrpReads, T)
<1> DEFINE a == SupplierReads
           b == BuyerReads
           c == InvoiceReads(d)
           e == LineReads(d)
           g == TaxReads
           h == IrpReads
<1>1. a \in Seq(ReadSet) /\ b \in Seq(ReadSet) /\ g \in Seq(ReadSet) /\ h \in Seq(ReadSet)
  BY SupplierAmong, BuyerAmong, TaxAmong, IrpAmong, Zenon
<1>2. c \in Seq(ReadSet) /\ e \in Seq(ReadSet)
  BY InvoiceAmong, LinesAmong, Zenon
<1>3. AllReads(d) = ((((a \o b) \o c) \o e) \o g) \o h
  BY Zenon DEF AllReads
<1> HIDE DEF a, b, c, e, g, h
<1>4. a \o b \in Seq(ReadSet) /\ (Among(a \o b, T) <=> Among(a, T) /\ Among(b, T))
  BY <1>1, AmongBoth
<1> DEFINE ab == a \o b
<1> HIDE DEF ab
<1>5. ab \o c \in Seq(ReadSet) /\ (Among(ab \o c, T) <=> Among(ab, T) /\ Among(c, T))
  BY <1>2, <1>4, AmongBoth DEF ab
<1> DEFINE abc == ab \o c
<1> HIDE DEF abc
<1>6. abc \o e \in Seq(ReadSet) /\ (Among(abc \o e, T) <=> Among(abc, T) /\ Among(e, T))
  BY <1>2, <1>5, AmongBoth DEF abc
<1> DEFINE abce == abc \o e
<1> HIDE DEF abce
<1>7. abce \o g \in Seq(ReadSet) /\ (Among(abce \o g, T) <=> Among(abce, T) /\ Among(g, T))
  BY <1>1, <1>6, AmongBoth DEF abce
<1> DEFINE abceg == abce \o g
<1> HIDE DEF abceg
<1>8. abceg \o h \in Seq(ReadSet) /\ (Among(abceg \o h, T) <=> Among(abceg, T) /\ Among(h, T))
  BY <1>1, <1>7, AmongBoth DEF abceg
<1>9. AllReads(d) = abceg \o h
  BY <1>3, Zenon DEF ab, abc, abce, abceg
<1>10. Among(AllReads(d), T) <=> /\ Among(a, T) /\ Among(b, T) /\ Among(c, T)
                                 /\ Among(e, T) /\ Among(g, T) /\ Among(h, T)
  BY <1>4, <1>5, <1>6, <1>7, <1>8, <1>9, Zenon DEF ab, abc, abce, abceg
<1>11. QED
  BY <1>8, <1>9, <1>10, Zenon DEF a, b, c, e, g, h

-----------------------------------------------------------------------------
(* What the sanitizer decides *)

LEMMA AbsentFitsNothing == \A what \in Whats : ~Fits(Absent, what)
<1>1. Absent.tag = "absent" /\ "absent" \notin Whats
  BY DEF Absent, Whats
<1>2. Absent \notin {String("INTRA"), String("INTER"), String("B2B"), String("B2C"),
                     String("UNDETERMINED")}
  <2>1. \A s : String(s).tag = "string"
    BY DEF String
  <2>2. QED
    BY <1>1, <2>1
<1>3. ~Money(Absent)
  BY <1>1 DEF Money
<1>4. QED
  BY <1>1, <1>2, <1>3 DEF Fits

\* A value fits the name of its type.
LEMMA TypeFits ==
    ASSUME NEW v, NEW what \in {"object", "array", "string", "number", "boolean"}
    PROVE  Fits(v, what) <=> v.tag = what
  BY DEF Fits

\* The reads that do not throw, and those that find what json::at() needs.
Passing(d)  == {r \in ReadSet : ~Fails(d, r)}
Finding(d) == {r \in ReadSet : r.how = "at" => ValueAt(d, r.path) # Absent}

\* The members are there.
Has(d, p, keys) == \A key \in keys : ValueAt(d, Append(p, key)) # Absent

LEMMA OneRead ==
    ASSUME NEW d, NEW how \in Hows, NEW what \in Whats, NEW p \in Seq(Keys)
    PROVE  /\ Read(how, what, p) \in Finding(d) <=> (how = "at" => ValueAt(d, p) # Absent)
           /\ Read(how, what, p) \in Passing(d) <=>
                  IF how = "optional" THEN ValueAt(d, p) = Absent \/ Fits(ValueAt(d, p), what)
                                      ELSE Fits(ValueAt(d, p), what)
<1> DEFINE r == Read(how, what, p)
<1>1. r \in ReadSet /\ r.how = how /\ r.what = what /\ r.path = p
  BY DEF Read, ReadSet
<1> HIDE DEF r
<1>2. r \in Finding(d) <=> (how = "at" => ValueAt(d, p) # Absent)
  BY <1>1, Zenon DEF Finding
<1>3. r \in Passing(d) <=> ~Fails(d, r)
  BY <1>1, Zenon DEF Passing
<1>4. Fails(d, r) <=> IF ValueAt(d, p) = Absent THEN how # "optional"
                                              ELSE ~Fits(ValueAt(d, p), what)
  BY <1>1, Zenon DEF Fails
<1>5. ValueAt(d, p) = Absent => ~Fits(ValueAt(d, p), what)
  BY AbsentFitsNothing
<1>6. QED
  BY <1>2, <1>3, <1>4, <1>5, Zenon DEF r

LEMMA ReadsOfMembers ==
    ASSUME NEW d, NEW what \in Whats, NEW p \in Seq(Keys), NEW keys \in SUBSET Names
    PROVE  /\ Each(Passing(d), "at", what, p, keys) <=> Must(d, p, keys, what)
           /\ Each(Passing(d), "required", what, p, keys) <=> Must(d, p, keys, what)
           /\ Each(Passing(d), "optional", what, p, keys) <=> May(d, p, keys, what)
           /\ Each(Finding(d), "at", what, p, keys) <=> Has(d, p, keys)
           /\ Each(Finding(d), "required", what, p, keys)
           /\ Each(Finding(d), "optional", what, p, keys)
<1>1. \A key \in keys : Append(p, key) \in Seq(Keys)
  BY DEF Keys
<1>2. \A how \in Hows : \A key \in keys :
          /\ Read(how, what, Append(p, key)) \in Finding(d)
                 <=> (how = "at" => ValueAt(d, Append(p, key)) # Absent)
          /\ Read(how, what, Append(p, key)) \in Passing(d) <=>
                  IF how = "optional"
                  THEN ValueAt(d, Append(p, key)) = Absent \/ Fits(ValueAt(d, Append(p, key)), what)
                  ELSE Fits(ValueAt(d, Append(p, key)), what)
  BY <1>1, OneRead, Zenon
<1>3. "at" \in Hows /\ "required" \in Hows /\ "optional" \in Hows
  BY Words, Zenon
<1>4. "at" # "optional" /\ "required" # "optional" /\ "required" # "at"
  OBVIOUS
<1>5. /\ Each(Passing(d), "at", what, p, keys) <=> Must(d, p, keys, what)
      /\ Each(Passing(d), "required", what, p, keys) <=> Must(d, p, keys, what)
  BY <1>2, <1>3, <1>4, Zenon DEF Each, Must
<1>6. Each(Passing(d), "optional", what, p, keys) <=> May(d, p, keys, what)
  BY <1>2, <1>3, <1>4, Zenon DEF Each, May
<1>7. /\ Each(Finding(d), "at", what, p, keys) <=> Has(d, p, keys)
      /\ Each(Finding(d), "required", what, p, keys)
      /\ Each(Finding(d), "optional", what, p, keys)
  BY <1>2, <1>3, <1>4, Zenon DEF Each, Has
<1>8. QED
  BY <1>5, <1>6, <1>7

\* What the reads of each section ask of a document.
SupplierSane(d) ==
    /\ Must(d, <<>>, {"supplier"}, "object")
    /\ Must(d, Supplier, {"gstin", "name", "address_state"}, "string")
    /\ May(d, Supplier, {"aato_crore"}, "turnover")
BuyerSane(d) ==
    /\ May(d, <<>>, {"buyer"}, "object")
    /\ May(d, Buyer, {"registered"}, "boolean")
    /\ May(d, Buyer, {"gstin", "name", "address_state"}, "string")
InvoiceSane(d) ==
    /\ Must(d, <<>>, {"invoice"}, "object")
    /\ Must(d, Invoice, {"number", "date", "place_of_supply", "hsn_string"}, "string")
    /\ Must(d, Invoice, {"supply_type"}, "supply")
    /\ Must(d, Invoice, {"classification"}, "class")
    /\ Must(d, Invoice, {"irn_present"}, "boolean")
    /\ AsksIrn(d) => Must(d, Invoice, {"irn"}, "string")
    /\ Must(d, Invoice, {"base_value"}, "money")
ItemSane(d, item) ==
    /\ ValueAt(d, item).tag = "object"
    /\ Must(d, item, {"hsn"}, "string")
    /\ Must(d, item, {"tax_rate"}, "rate")
    /\ Must(d, item, {"base_value"}, "money")
    /\ May(d, item, {"description"}, "string")
    /\ May(d, item, {"quantity"}, "number")
    /\ May(d, item, {"unit_price"}, "money")
LinesSane(d) ==
    /\ Must(d, Invoice, {"line_items"}, "array")
    /\ \A i \in 1 .. ItemsCount(d) : ItemSane(d, Append(Items, i))
TaxSane(d) ==
    /\ Must(d, Invoice, {"tax_breakdown"}, "object")
    /\ May(d, Tax, {"cgst", "sgst", "igst", "cess", "total_tax"}, "money")
    /\ Must(d, Invoice, {"total_value"}, "money")
IrpSane(d) ==
    /\ May(d, <<>>, {"irp"}, "object")
    /\ May(d, Irp, {"reported_on"}, "string")

Sane(d) == /\ SupplierSane(d) /\ BuyerSane(d) /\ InvoiceSane(d)
           /\ LinesSane(d) /\ TaxSane(d) /\ IrpSane(d)

\* The members that json::at() takes are there.
Found(d) ==
    /\ Has(d, Supplier, {"gstin", "name", "address_state"})
    /\ Has(d, Invoice, {"number", "date", "place_of_supply", "hsn_string"})
    /\ Has(d, Invoice, {"supply_type"}) /\ Has(d, Invoice, {"classification"})
    /\ \A i \in 1 .. ItemsCount(d) : /\ Has(d, Append(Items, i), {"hsn"})
                                     /\ Has(d, Append(Items, i), {"tax_rate"})
                                     /\ Has(d, Append(Items, i), {"base_value"})

LEMMA Singles == \A a \in Names : {a} \in SUBSET Names
  OBVIOUS

LEMMA Groups ==
    /\ {"gstin", "name", "address_state"} \in SUBSET Names
    /\ {"number", "date", "place_of_supply", "hsn_string"} \in SUBSET Names
    /\ {"cgst", "sgst", "igst", "cess", "total_tax"} \in SUBSET Names
  BY DEF Names

LEMMA SupplierChecks ==
    ASSUME NEW d
    PROVE  /\ Among(SupplierReads, Passing(d)) <=> SupplierSane(d)
           /\ Among(SupplierReads, Finding(d)) <=> Has(d, Supplier, {"gstin", "name", "address_state"})
<1>1. /\ Each(Passing(d), "required", "object", <<>>, {"supplier"}) <=> Must(d, <<>>, {"supplier"}, "object")
      /\ Each(Finding(d), "required", "object", <<>>, {"supplier"})
  BY ReadsOfMembers, Objects, Singles, Words, Zenon
<1>2. /\ Each(Passing(d), "at", "string", Supplier, {"gstin", "name", "address_state"})
             <=> Must(d, Supplier, {"gstin", "name", "address_state"}, "string")
      /\ Each(Finding(d), "at", "string", Supplier, {"gstin", "name", "address_state"})
             <=> Has(d, Supplier, {"gstin", "name", "address_state"})
  BY ReadsOfMembers, Objects, Groups, Words, Zenon
<1>3. /\ Each(Passing(d), "optional", "turnover", Supplier, {"aato_crore"})
             <=> May(d, Supplier, {"aato_crore"}, "turnover")
      /\ Each(Finding(d), "optional", "turnover", Supplier, {"aato_crore"})
  BY ReadsOfMembers, Objects, Singles, Words, Zenon
<1>4. QED
  BY <1>1, <1>2, <1>3, SupplierAmong, Zenon DEF SupplierSane

LEMMA BuyerChecks ==
    ASSUME NEW d
    PROVE  /\ Among(BuyerReads, Passing(d)) <=> BuyerSane(d)
           /\ Among(BuyerReads, Finding(d))
<1>1. /\ Each(Passing(d), "optional", "object", <<>>, {"buyer"})
             <=> May(d, <<>>, {"buyer"}, "object")
      /\ Each(Finding(d), "optional", "object", <<>>, {"buyer"})
  BY ReadsOfMembers, Objects, Singles, Words, Zenon
<1>2. /\ Each(Passing(d), "optional", "boolean", Buyer, {"registered"})
             <=> May(d, Buyer, {"registered"}, "boolean")
      /\ Each(Finding(d), "optional", "boolean", Buyer, {"registered"})
  BY ReadsOfMembers, Objects, Singles, Words, Zenon
<1>3. /\ Each(Passing(d), "optional", "string", Buyer, {"gstin", "name", "address_state"})
             <=> May(d, Buyer, {"gstin", "name", "address_state"}, "string")
      /\ Each(Finding(d), "optional", "string", Buyer, {"gstin", "name", "address_state"})
  BY ReadsOfMembers, Objects, Groups, Words, Zenon
<1>4. QED
  BY <1>1, <1>2, <1>3, BuyerAmong, Zenon DEF BuyerSane

LEMMA TaxChecks ==
    ASSUME NEW d
    PROVE  /\ Among(TaxReads, Passing(d)) <=> TaxSane(d)
           /\ Among(TaxReads, Finding(d))
<1>1. /\ Each(Passing(d), "required", "object", Invoice, {"tax_breakdown"})
             <=> Must(d, Invoice, {"tax_breakdown"}, "object")
      /\ Each(Finding(d), "required", "object", Invoice, {"tax_breakdown"})
  BY ReadsOfMembers, Objects, Singles, Words, Zenon
<1>2. /\ Each(Passing(d), "optional", "money", Tax, {"cgst", "sgst", "igst", "cess", "total_tax"})
             <=> May(d, Tax, {"cgst", "sgst", "igst", "cess", "total_tax"}, "money")
      /\ Each(Finding(d), "optional", "money", Tax, {"cgst", "sgst", "igst", "cess", "total_tax"})
  BY ReadsOfMembers, Objects, Groups, Words, Zenon
<1>3. /\ Each(Passing(d), "required", "money", Invoice, {"total_value"})
             <=> Must(d, Invoice, {"total_value"}, "money")
      /\ Each(Finding(d), "required", "money", Invoice, {"total_value"})
  BY ReadsOfMembers, Objects, Singles, Words, Zenon
<1>4. QED
  BY <1>1, <1>2, <1>3, TaxAmong, Zenon DEF TaxSane

LEMMA IrpChecks ==
    ASSUME NEW d
    PROVE  /\ Among(IrpReads, Passing(d)) <=> IrpSane(d)
           /\ Among(IrpReads, Finding(d))
<1>1. /\ Each(Passing(d), "optional", "object", <<>>, {"irp"})
             <=> May(d, <<>>, {"irp"}, "object")
      /\ Each(Finding(d), "optional", "object", <<>>, {"irp"})
  BY ReadsOfMembers, Objects, Singles, Words, Zenon
<1>2. /\ Each(Passing(d), "optional", "string", Irp, {"reported_on"})
             <=> May(d, Irp, {"reported_on"}, "string")
      /\ Each(Finding(d), "optional", "string", Irp, {"reported_on"})
  BY ReadsOfMembers, Objects, Singles, Words, Zenon
<1>3. QED
  BY <1>1, <1>2, IrpAmong, Zenon DEF IrpSane

LEMMA InvoiceChecks ==
    ASSUME NEW d
    PROVE  /\ Among(InvoiceReads(d), Passing(d)) <=> InvoiceSane(d)
           /\ Among(InvoiceReads(d), Finding(d)) <=>
                  /\ Has(d, Invoice, {"number", "date", "place_of_supply", "hsn_string"})
                  /\ Has(d, Invoice, {"supply_type"})
                  /\ Has(d, Invoice, {"classification"})
<1>1. /\ Each(Passing(d), "required", "object", <<>>, {"invoice"})
             <=> Must(d, <<>>, {"invoice"}, "object")
      /\ Each(Finding(d), "required", "object", <<>>, {"invoice"})
  BY ReadsOfMembers, Objects, Singles, Words, Zenon
<1>2. /\ Each(Passing(d), "at", "string", Invoice, {"number", "date", "place_of_supply", "hsn_string"})
             <=> Must(d, Invoice, {"number", "date", "place_of_supply", "hsn_string"}, "string")
      /\ Each(Finding(d), "at", "string", Invoice, {"number", "date", "place_of_supply", "hsn_string"}) <=> Has(d, Invoice, {"number", "date", "place_of_supply", "hsn_string"})
  BY ReadsOfMembers, Objects, Groups, Words, Zenon
<1>3. /\ Each(Passing(d), "at", "supply", Invoice, {"supply_type"})
             <=> Must(d, Invoice, {"supply_type"}, "supply")
      /\ Each(Finding(d), "at", "supply", Invoice, {"supply_type"}) <=> Has(d, Invoice, {"supply_type"})
  BY ReadsOfMembers, Objects, Singles, Words, Zenon
<1>4. /\ Each(Passing(d), "at", "class", Invoice, {"classification"})
             <=> Must(d, Invoice, {"classification"}, "class")
      /\ Each(Finding(d), "at", "class", Invoice, {"classification"}) <=> Has(d, Invoice, {"classification"})
  BY ReadsOfMembers, Objects, Singles, Words, Zenon
<1>5. /\ Each(Passing(d), "required", "boolean", Invoice, {"irn_present"})
             <=> Must(d, Invoice, {"irn_present"}, "boolean")
      /\ Each(Finding(d), "required", "boolean", Invoice, {"irn_present"})
  BY ReadsOfMembers, Objects, Singles, Words, Zenon
<1>6. /\ Each(Passing(d), "required", "string", Invoice, {"irn"})
             <=> Must(d, Invoice, {"irn"}, "string")
      /\ Each(Finding(d), "required", "string", Invoice, {"irn"})
  BY ReadsOfMembers, Objects, Singles, Words, Zenon
<1>7. /\ Each(Passing(d), "required", "money", Invoice, {"base_value"})
             <=> Must(d, Invoice, {"base_value"}, "money")
      /\ Each(Finding(d), "required", "money", Invoice, {"base_value"})
  BY ReadsOfMembers, Objects, Singles, Words, Zenon
<1>8. QED
  BY <1>1, <1>2, <1>3, <1>4, <1>5, <1>6, <1>7, InvoiceAmong, Zenon DEF InvoiceSane

LEMMA ItemChecks ==
    ASSUME NEW d, NEW item \in Seq(Keys)
    PROVE  /\ EachOfItem(Passing(d), item) <=> ItemSane(d, item)
           /\ EachOfItem(Finding(d), item) <=>
                  /\ Has(d, item, {"hsn"}) /\ Has(d, item, {"tax_rate"})
                  /\ Has(d, item, {"base_value"})
<1>1. /\ Read("required", "object", item) \in Passing(d) <=> ValueAt(d, item).tag = "object"
      /\ Read("required", "object", item) \in Finding(d)
  <2>1. "required" # "optional" /\ "required" # "at" /\ "required" \in Hows /\ "object" \in Whats
    BY Words
  <2>2. Fits(ValueAt(d, item), "object") <=> ValueAt(d, item).tag = "object"
    BY TypeFits
  <2>3. QED
    BY <2>1, <2>2, OneRead, Zenon
<1>2. /\ Each(Passing(d), "at", "string", item, {"hsn"})
             <=> Must(d, item, {"hsn"}, "string")
      /\ Each(Finding(d), "at", "string", item, {"hsn"}) <=> Has(d, item, {"hsn"})
  BY ReadsOfMembers, Singles, Words, Zenon
<1>3. /\ Each(Passing(d), "at", "rate", item, {"tax_rate"})
             <=> Must(d, item, {"tax_rate"}, "rate")
      /\ Each(Finding(d), "at", "rate", item, {"tax_rate"}) <=> Has(d, item, {"tax_rate"})
  BY ReadsOfMembers, Singles, Words, Zenon
<1>4. /\ Each(Passing(d), "at", "money", item, {"base_value"})
             <=> Must(d, item, {"base_value"}, "money")
      /\ Each(Finding(d), "at", "money", item, {"base_value"}) <=> Has(d, item, {"base_value"})
  BY ReadsOfMembers, Singles, Words, Zenon
<1>5. /\ Each(Passing(d), "optional", "string", item, {"description"})
             <=> May(d, item, {"description"}, "string")
      /\ Each(Finding(d), "optional", "string", item, {"description"})
  BY ReadsOfMembers, Singles, Words, Zenon
<1>6. /\ Each(Passing(d), "optional", "number", item, {"quantity"})
             <=> May(d, item, {"quantity"}, "number")
      /\ Each(Finding(d), "optional", "number", item, {"quantity"})
  BY ReadsOfMembers, Singles, Words, Zenon
<1>7. /\ Each(Passing(d), "optional", "money", item, {"unit_price"})
             <=> May(d, item, {"unit_price"}, "money")
      /\ Each(Finding(d), "optional", "money", item, {"unit_price"})
  BY ReadsOfMembers, Singles, Words, Zenon
<1>8. QED
  BY <1>1, <1>2, <1>3, <1>4, <1>5, <1>6, <1>7, Zenon DEF ItemSane, EachOfItem

LEMMA LinesChecks ==
    ASSUME NEW d \in Json
    PROVE  /\ Among(LineReads(d), Passing(d)) <=> LinesSane(d)
           /\ Among(LineReads(d), Finding(d)) <=>
                  \A i \in 1 .. ItemsCount(d) :
                      /\ Has(d, Append(Items, i), {"hsn"})
                      /\ Has(d, Append(Items, i), {"tax_rate"})
                      /\ Has(d, Append(Items, i), {"base_value"})
<1>1. /\ Each(Passing(d), "required", "array", Invoice, {"line_items"})
             <=> Must(d, Invoice, {"line_items"}, "array")
      /\ Each(Finding(d), "required", "array", Invoice, {"line_items"})
  BY ReadsOfMembers, Objects, Singles, Words, Zenon
<1>2. \A i \in 1 .. ItemsCount(d) : Append(Items, i) \in Seq(Keys)
  BY CountIsNat, ItemAmong
<1>3. QED
  BY <1>1, <1>2, LinesAmong, ItemChecks, Zenon DEF LinesSane

\* The sanitizer takes a document exactly when it is sane, and throws
\* json::out_of_range only for a member that json::at() does not find.
LEMMA SanitizerDecides ==
    ASSUME NEW d \in Json, d.tag = "object"
    PROVE  /\ Sanitized(d, SanitizerReads(d)) = "accepted" <=> Sane(d)
           /\ Found(d) => Sanitized(d, SanitizerReads(d)) # "out_of_range"
<1> DEFINE reads  == AllReads(d)
           failed == {i \in DOMAIN reads : Fails(d, reads[i])}
<1>1. SanitizerReads(d) = reads
  BY DEF SanitizerReads
<1>2. reads \in Seq(ReadSet)
  BY AllAmong
<1>3. Among(reads, Passing(d)) <=> Sane(d)
  BY AllAmong, SupplierChecks, BuyerChecks, InvoiceChecks, LinesChecks, TaxChecks, IrpChecks,
     Zenon DEF Sane
<1>4. Among(reads, Finding(d)) <=> Found(d)
  BY AllAmong, SupplierChecks, BuyerChecks, InvoiceChecks, LinesChecks, TaxChecks, IrpChecks,
     Zenon DEF Found
<1> HIDE DEF reads
<1>5. /\ DOMAIN reads = 1 .. Len(reads) /\ Len(reads) \in Nat
      /\ \A i \in DOMAIN reads : reads[i] \in ReadSet
  BY <1>2
<1>6. failed = {} <=> Sane(d)
  <2>1. failed = {} <=> \A i \in 1 .. Len(reads) : ~Fails(d, reads[i])
    BY <1>5
  <2>2. QED
    BY <1>3, <1>5, <2>1, Zenon DEF Among, Passing
<1>7. Sanitized(d, reads) = "accepted" <=> failed = {}
  BY DEF Sanitized
<1>8. ASSUME Found(d), failed # {}
      PROVE  Sanitized(d, reads) # "out_of_range"
  <2>1. Min(failed) \in failed
    <3>1. failed \subseteq Nat
      BY <1>5
    <3>2. PICK x \in failed : \A y \in failed : x <= y
      BY <1>8, <3>1, LeastNatural
    <3> HIDE DEF failed
    <3>3. QED
      BY <3>1, <3>2 DEF Min
  <2>2. reads[Min(failed)] \in Finding(d)
    BY <1>4, <1>5, <1>8, <2>1, Zenon DEF Among
  <2>3. ~(reads[Min(failed)].how = "at" /\ ValueAt(d, reads[Min(failed)].path) = Absent)
    BY <2>2, Zenon DEF Finding
  <2>4. Sanitized(d, reads) =
            IF failed = {} THEN "accepted"
            ELSE IF reads[Min(failed)].how = "at" /\ ValueAt(d, reads[Min(failed)].path) = Absent
                 THEN "out_of_range" ELSE "invalid_argument"
    BY Zenon DEF Sanitized
  <2>5. QED
    BY <1>8, <2>3, <2>4
<1>9. failed = {} => Sanitized(d, reads) # "out_of_range"
  BY DEF Sanitized
<1>10. QED
  BY <1>1, <1>6, <1>7, <1>8, <1>9

-----------------------------------------------------------------------------
(* What the walk decides *)

\* A visit that is sound, and all the visits below it, down to the leaves.
Sound(v)  == HasType(v) /\ IsComplete(v)
Sound1(v) == Sound(v) /\ \A w \in VisitedBelow(v) : Sound(w)
Sound2(v) == Sound(v) /\ \A w \in VisitedBelow(v) : Sound1(w)
Sound3(v) == Sound(v) /\ \A w \in VisitedBelow(v) : Sound2(w)
Sound4(v) == Sound(v) /\ \A w \in VisitedBelow(v) : Sound3(w)

\* The visits below the typed ones of a set.
Below(vs) == UNION {VisitedBelow(v) : v \in {w \in vs : HasType(w)}}

Levels(f, d) ==
    f = [depth \in 0 .. 4 |-> IF depth = 0 THEN {Visit(d, Schema)} ELSE Below(f[depth - 1])]

LEMMA LevelsExist == ASSUME NEW d PROVE \E f : Levels(f, d)
<1> DEFINE a == {Visit(d, Schema)}
           b == Below(a)
           c == Below(b)
           e == Below(c)
           g == Below(e)
           f == [depth \in 0 .. 4 |-> IF depth = 0 THEN a ELSE IF depth = 1 THEN b
                                      ELSE IF depth = 2 THEN c ELSE IF depth = 3 THEN e ELSE g]
           F == [depth \in 0 .. 4 |-> IF depth = 0 THEN a ELSE Below(f[depth - 1])]
<1>1. /\ a = a /\ b = Below(a) /\ c = Below(b) /\ e = Below(c) /\ g = Below(e)
  OBVIOUS
<1> HIDE DEF a, b, c, e, g
<1>2. f[0] = a /\ f[1] = b /\ f[2] = c /\ f[3] = e /\ f[4] = g
  OBVIOUS
<1>3. ASSUME NEW depth \in 0 .. 4
      PROVE  f[depth] = IF depth = 0 THEN a ELSE Below(f[depth - 1])
  <2>1. depth \in {0, 1, 2, 3, 4}
    OBVIOUS
  <2>2. 1 - 1 = 0 /\ 2 - 1 = 1 /\ 3 - 1 = 2 /\ 4 - 1 = 3
    OBVIOUS
  <2> HIDE DEF f
  <2>3. QED
    BY <1>1, <1>2, <2>1, <2>2
<1>4. DOMAIN f = 0 .. 4 /\ f = [depth \in 0 .. 4 |-> f[depth]]
  OBVIOUS
<1>5. f = F
  <2> HIDE DEF f
  <2>1. QED
    BY <1>3, <1>4
<1>6. Levels(f, d)
  BY <1>5 DEF Levels, a
<1> HIDE DEF f
<1>7. QED
  BY <1>6

\* The walk accepts what is sound down to the leaves of the schema.
LEMMA WalkDecides ==
    ASSUME NEW d
    PROVE  Conforms(d) <=> Sound4(Visit(d, Schema))
<1> DEFINE root == Visit(d, Schema)
           f == CHOOSE f : Levels(f, d)
<1>1. Levels(f, d)
  BY LevelsExist
<1> HIDE DEF f
<1>2. f[0] = {root} /\ \A depth \in 1 .. 4 : f[depth] = Below(f[depth - 1])
  BY <1>1 DEF Levels
<1>3. f[1] = Below(f[0]) /\ f[2] = Below(f[1]) /\ f[3] = Below(f[2]) /\ f[4] = Below(f[3])
  <2>1. f[1] = Below(f[1 - 1]) /\ f[2] = Below(f[2 - 1]) /\ f[3] = Below(f[3 - 1])
        /\ f[4] = Below(f[4 - 1])
    BY <1>2
  <2>2. QED
    BY <2>1
<1>4. Conforms(d) <=> \A depth \in 0 .. 4 : \A v \in f[depth] : Sound(v)
  BY Zenon DEF Conforms, Levels, Below, Sound, f
<1>5. Conforms(d) <=>
          /\ \A v \in f[0] : Sound(v)
          /\ \A v \in f[1] : Sound(v)
          /\ \A v \in f[2] : Sound(v)
          /\ \A v \in f[3] : Sound(v)
          /\ \A v \in f[4] : Sound(v)
  <2>1. 0 .. 4 = {0, 1, 2, 3, 4}
    OBVIOUS
  <2>2. QED
    BY <1>4, <2>1, Zenon
<1>6. ASSUME NEW vs PROVE \A v \in vs : Sound(v) => \A w \in VisitedBelow(v) : w \in Below(vs)
  BY DEF Below, Sound
<1>7. ASSUME NEW vs PROVE \A w \in Below(vs) : \E v \in vs : w \in VisitedBelow(v)
  BY DEF Below
<1>8. ASSUME Conforms(d) PROVE Sound4(root)
  <2>1. \A v \in f[3] : Sound(v) /\ \A w \in VisitedBelow(v) : w \in f[4]
    BY <1>3, <1>5, <1>6, <1>8, Zenon
  <2>2. \A v \in f[2] : Sound(v) /\ \A w \in VisitedBelow(v) : w \in f[3]
    BY <1>3, <1>5, <1>6, <1>8, Zenon
  <2>3. \A v \in f[1] : Sound(v) /\ \A w \in VisitedBelow(v) : w \in f[2]
    BY <1>3, <1>5, <1>6, <1>8, Zenon
  <2>4. \A v \in f[0] : Sound(v) /\ \A w \in VisitedBelow(v) : w \in f[1]
    BY <1>3, <1>5, <1>6, <1>8, Zenon
  <2>5. \A v \in f[3] : Sound1(v)
    <3>1. \A w \in f[4] : Sound(w)
      BY <1>5, <1>8, Zenon
    <3>2. QED
      BY <2>1, <3>1, Zenon DEF Sound1
  <2>6. \A v \in f[2] : Sound2(v)
    BY <2>2, <2>5, Zenon DEF Sound2
  <2>7. \A v \in f[1] : Sound3(v)
    BY <2>3, <2>6, Zenon DEF Sound3
  <2>8. \A v \in f[0] : Sound4(v)
    BY <2>4, <2>7, Zenon DEF Sound4
  <2>9. QED
    BY <1>2, <2>8
<1>9. ASSUME Sound4(root) PROVE Conforms(d)
  <2>1. \A v \in f[0] : Sound4(v)
    BY <1>2, <1>9
  <2>2. \A v \in f[1] : Sound3(v)
    BY <1>3, <1>7, <2>1, Zenon DEF Sound4
  <2>3. \A v \in f[2] : Sound2(v)
    BY <1>3, <1>7, <2>2, Zenon DEF Sound3
  <2>4. \A v \in f[3] : Sound1(v)
    BY <1>3, <1>7, <2>3, Zenon DEF Sound2
  <2>5. \A v \in f[4] : Sound(v)
    BY <1>3, <1>7, <2>4, Zenon DEF Sound1
  <2>6. QED
    BY <1>5, <2>1, <2>2, <2>3, <2>4, <2>5, Zenon DEF Sound4, Sound3, Sound2, Sound1
<1>10. QED
  BY <1>8, <1>9

-----------------------------------------------------------------------------
(* The walk below a node *)

LEMMA Joined ==
    ASSUME NEW f, NEW g
    PROVE  /\ DOMAIN (f ++ g) = DOMAIN f \cup DOMAIN g
           /\ \A k \in DOMAIN f : (f ++ g)[k] = f[k]
           /\ \A k \in DOMAIN g \ DOMAIN f : (f ++ g)[k] = g[k]
  BY DEF ++

\* What the walk asks of a member and its node: to be there where it must, and to be
\* sound where it is.
Fits0(x, node) == IF x = Absent THEN ~node.required ELSE Sound(Visit(x, node))
Fits1(x, node) == IF x = Absent THEN ~node.required ELSE Sound1(Visit(x, node))
Fits2(x, node) == IF x = Absent THEN ~node.required ELSE Sound2(Visit(x, node))
Fits3(x, node) == IF x = Absent THEN ~node.required ELSE Sound3(Visit(x, node))

\* The visits below v are those of the members of x that are there.
MembersVisited(v, x, F) ==
    /\ \A w \in VisitedBelow(v) :
           \E key \in DOMAIN F : Member(x, key) # Absent /\ w = Visit(Member(x, key), F[key])
    /\ \A key \in DOMAIN F :
           Member(x, key) # Absent => Visit(Member(x, key), F[key]) \in VisitedBelow(v)

LEMMA BranchVisit ==
    ASSUME NEW x \in Values, NEW type \in {"object", ""}, NEW required, NEW F
    PROVE  LET v == Visit(x, Node(type, required, F, Null)) IN
           /\ Sound(v) <=> /\ x.tag = "object"
                           /\ \A key \in DOMAIN F : Member(x, key) = Absent => ~F[key].required
           /\ x.tag = "object" => MembersVisited(v, x, F)
<1> DEFINE v == Visit(x, Node(type, required, F, Null))
<1>1. v.value = x /\ v.node.type = type /\ v.node.fields = F /\ v.node.item = Null
  BY DEF Visit, Node
<1> HIDE DEF v
<1>2. HasType(v) <=> x.tag = "object"
  BY <1>1 DEF HasType
<1>3. ASSUME x.tag = "object"
      PROVE  /\ Members(v) = DOMAIN x.m
             /\ Elements(v) = {}
             /\ \A key : key \in DOMAIN x.m <=> Member(x, key) # Absent
             /\ \A key \in DOMAIN x.m : Member(x, key) = x.m[key]
  BY <1>1, <1>3, ObjectMember DEF Members, Elements
<1>4. ASSUME x.tag = "object"
      PROVE  IsComplete(v) <=> \A key \in DOMAIN F : Member(x, key) = Absent => ~F[key].required
  BY <1>1, <1>3, <1>4 DEF IsComplete
<1>5. ASSUME x.tag = "object"
      PROVE  VisitedBelow(v) = {Visit(x.m[key], F[key]) : key \in DOMAIN F \cap DOMAIN x.m}
  <2>1. {Visit(v.value.e[i], v.node.item) : i \in Elements(v)} = {}
    BY <1>3, <1>5
  <2>2. {Visit(v.value.m[key], v.node.fields[key]) : key \in DOMAIN v.node.fields \cap Members(v)}
            = {Visit(x.m[key], F[key]) : key \in DOMAIN F \cap DOMAIN x.m}
    BY <1>1, <1>3, <1>5, Zenon
  <2>3. QED
    BY <2>1, <2>2 DEF VisitedBelow
<1>6. x.tag = "object" => MembersVisited(v, x, F)
  BY <1>3, <1>5 DEF MembersVisited
<1>7. QED
  BY <1>2, <1>4, <1>6 DEF Sound, v

LEMMA BranchFits ==
    ASSUME NEW x \in Values, NEW type \in {"object", ""}, NEW required, NEW F
    PROVE  LET v == Visit(x, Node(type, required, F, Null)) IN
           /\ Sound1(v) <=> x.tag = "object" /\ \A key \in DOMAIN F : Fits0(Member(x, key), F[key])
           /\ Sound2(v) <=> x.tag = "object" /\ \A key \in DOMAIN F : Fits1(Member(x, key), F[key])
           /\ Sound3(v) <=> x.tag = "object" /\ \A key \in DOMAIN F : Fits2(Member(x, key), F[key])
           /\ Sound4(v) <=> x.tag = "object" /\ \A key \in DOMAIN F : Fits3(Member(x, key), F[key])
<1> DEFINE v == Visit(x, Node(type, required, F, Null))
<1>1. Sound(v) <=> /\ x.tag = "object"
                   /\ \A key \in DOMAIN F : Member(x, key) = Absent => ~F[key].required
  BY BranchVisit, Zenon
<1>2. x.tag = "object" => MembersVisited(v, x, F)
  BY BranchVisit, Zenon
<1> HIDE DEF v
<1>3. Sound1(v) <=> x.tag = "object" /\ \A key \in DOMAIN F : Fits0(Member(x, key), F[key])
  BY <1>1, <1>2, Zenon DEF Sound1, Fits0, MembersVisited
<1>4. Sound2(v) <=> x.tag = "object" /\ \A key \in DOMAIN F : Fits1(Member(x, key), F[key])
  BY <1>1, <1>2, Zenon DEF Sound2, Fits1, MembersVisited
<1>5. Sound3(v) <=> x.tag = "object" /\ \A key \in DOMAIN F : Fits2(Member(x, key), F[key])
  BY <1>1, <1>2, Zenon DEF Sound3, Fits2, MembersVisited
<1>6. Sound4(v) <=> x.tag = "object" /\ \A key \in DOMAIN F : Fits3(Member(x, key), F[key])
  BY <1>1, <1>2, Zenon DEF Sound4, Fits3, MembersVisited
<1>7. QED
  BY <1>3, <1>4, <1>5, <1>6, Zenon DEF v

\* A leaf has no members to visit.
LEMMA LeafVisit ==
    ASSUME NEW x \in Values, NEW type \in {"string", "number", "boolean"}, NEW required
    PROVE  LET v == Visit(x, Leaf(type, required)) IN
           /\ Sound(v) <=> x.tag = type
           /\ Sound1(v) <=> x.tag = type
           /\ Sound2(v) <=> x.tag = type
           /\ Sound3(v) <=> x.tag = type
<1> DEFINE v == Visit(x, Leaf(type, required))
<1>1. v.value = x /\ v.node.type = type /\ v.node.fields = <<>> /\ v.node.item = Null
  BY DEF Visit, Leaf, Node
<1> HIDE DEF v
<1>2. HasType(v) <=> x.tag = type
  BY <1>1 DEF HasType
<1>3. DOMAIN v.node.fields = {}
  BY <1>1
<1>4. Elements(v) = {}
  BY <1>1 DEF Elements
<1>5. IsComplete(v)
  BY <1>3 DEF IsComplete
<1>6. VisitedBelow(v) = {}
  BY <1>3, <1>4 DEF VisitedBelow
<1>7. QED
  BY <1>2, <1>5, <1>6 DEF Sound, Sound1, Sound2, Sound3, v

LEMMA LeafFits ==
    ASSUME NEW x \in Json, NEW type \in {"string", "number", "boolean"}, NEW required \in BOOLEAN
    PROVE  /\ Fits0(x, Leaf(type, required)) <=> x.tag = type \/ (x = Absent /\ ~required)
           /\ Fits1(x, Leaf(type, required)) <=> x.tag = type \/ (x = Absent /\ ~required)
           /\ Fits2(x, Leaf(type, required)) <=> x.tag = type \/ (x = Absent /\ ~required)
<1>1. Leaf(type, required).required = required
  BY DEF Leaf, Node
<1>2. CASE x = Absent
  BY <1>1, <1>2, AbsentIsNone DEF Fits0, Fits1, Fits2
<1>3. CASE x \in Values
  <2>1. x # Absent
    BY <1>3, AbsentIsNone
  <2>2. QED
    BY <1>3, <2>1, LeafVisit, Zenon DEF Fits0, Fits1, Fits2
<1>4. QED
  BY <1>2, <1>3 DEF Json

\* The elements of an array, and nothing else, are visited with the item's node.
LEMMA ArrayVisit ==
    ASSUME NEW x \in Values, NEW required, NEW item, item # Null
    PROVE  LET v == Visit(x, Node("array", required, <<>>, item)) IN
           Sound2(v) <=> /\ x.tag = "array"
                         /\ \A i \in 1 .. Len(x.e) : Sound1(Visit(x.e[i], item))
<1> DEFINE v == Visit(x, Node("array", required, <<>>, item))
<1>1. v.value = x /\ v.node.type = "array" /\ v.node.fields = <<>> /\ v.node.item = item
  BY DEF Visit, Node
<1> HIDE DEF v
<1>2. HasType(v) <=> x.tag = "array"
  BY <1>1 DEF HasType
<1>3. DOMAIN v.node.fields = {}
  BY <1>1
<1>4. IsComplete(v)
  BY <1>3 DEF IsComplete
<1>5. ASSUME x.tag = "array" PROVE VisitedBelow(v) = {Visit(x.e[i], item) : i \in 1 .. Len(x.e)}
  <2>1. Elements(v) = 1 .. Len(x.e)
    BY <1>1, <1>5, ArrayMember DEF Elements
  <2>2. QED
    BY <1>1, <1>3, <2>1 DEF VisitedBelow
<1>6. QED
  BY <1>2, <1>4, <1>5, Zenon DEF Sound2, Sound, v

\* The types of some members: of those that must be there, and those that may.
Typed(x, type, must, may) ==
    /\ \A key \in must : Member(x, key).tag = type
    /\ \A key \in may : Member(x, key) = Absent \/ Member(x, key).tag = type

LEMMA LeavesFit ==
    ASSUME NEW x \in Json, NEW type \in {"string", "number", "boolean"},
           NEW must, NEW may, must \cap may = {}, NEW F,
           \A key \in must \cup may : F[key] = Leaf(type, key \in must)
    PROVE  /\ (\A key \in must \cup may : Fits0(Member(x, key), F[key])) <=> Typed(x, type, must, may)
           /\ (\A key \in must \cup may : Fits1(Member(x, key), F[key])) <=> Typed(x, type, must, may)
           /\ (\A key \in must \cup may : Fits2(Member(x, key), F[key])) <=> Typed(x, type, must, may)
<1>1. \A key \in must \cup may :
          LET y == Member(x, key) IN
          /\ Fits0(y, F[key]) <=> y.tag = type \/ (y = Absent /\ key \notin must)
          /\ Fits1(y, F[key]) <=> y.tag = type \/ (y = Absent /\ key \notin must)
          /\ Fits2(y, F[key]) <=> y.tag = type \/ (y = Absent /\ key \notin must)
  <2>1. SUFFICES ASSUME NEW key \in must \cup may
                 PROVE  LET y == Member(x, key) IN
                        /\ Fits0(y, F[key]) <=> y.tag = type \/ (y = Absent /\ key \notin must)
                        /\ Fits1(y, F[key]) <=> y.tag = type \/ (y = Absent /\ key \notin must)
                        /\ Fits2(y, F[key]) <=> y.tag = type \/ (y = Absent /\ key \notin must)
    BY Zenon
  <2>2. Member(x, key) \in Json /\ F[key] = Leaf(type, key \in must) /\ (key \in must) \in BOOLEAN
    BY MemberIsJson
  <2>3. QED
    BY <2>2, LeafFits, Zenon
<1>2. \A key \in must : key \in must \cup may
  OBVIOUS
<1>3. \A key \in may : key \in must \cup may /\ key \notin must
  OBVIOUS
<1>4. \A key \in must \cup may : key \in must \/ key \in may
  OBVIOUS
<1>5. QED
  BY <1>1, <1>2, <1>3, <1>4, Zenon DEF Typed

-----------------------------------------------------------------------------
(* The walk of each section *)

\* F has these leaves.
Lists(F, type, must, may) ==
    \A key \in must \cup may : key \in DOMAIN F /\ F[key] = Leaf(type, key \in must)

LEMMA LeavesList ==
    ASSUME NEW type, NEW must, NEW may
    PROVE  /\ DOMAIN Leaves(type, must, may) = must \cup may
           /\ Lists(Leaves(type, must, may), type, must, may)
  BY DEF Leaves, Lists

LEMMA JoinedLists ==
    ASSUME NEW f, NEW g, NEW type, NEW must, NEW may
    PROVE  /\ Lists(f, type, must, may) => Lists(f ++ g, type, must, may)
           /\ Lists(g, type, must, may) /\ DOMAIN f \cap (must \cup may) = {}
                  => Lists(f ++ g, type, must, may)
<1>1. ASSUME Lists(f, type, must, may) PROVE Lists(f ++ g, type, must, may)
  BY <1>1, Joined DEF Lists
<1>2. ASSUME Lists(g, type, must, may), DOMAIN f \cap (must \cup may) = {}
      PROVE  Lists(f ++ g, type, must, may)
  <2>1. \A key \in must \cup may : key \in DOMAIN g \ DOMAIN f
    BY <1>2 DEF Lists
  <2>2. \A key \in must \cup may : key \in DOMAIN (f ++ g) /\ (f ++ g)[key] = g[key]
    <3>1. DOMAIN (f ++ g) = DOMAIN f \cup DOMAIN g
      BY Joined
    <3>2. \A key \in DOMAIN g \ DOMAIN f : (f ++ g)[key] = g[key]
      BY Joined
    <3>3. QED
      BY <2>1, <3>1, <3>2, Zenon
  <2>3. QED
    BY <1>2, <2>2, Zenon DEF Lists
<1>3. QED
  BY <1>1, <1>2

\* Two groups of leaves.
LEMMA PairLists ==
    ASSUME NEW t, NEW must, NEW may, NEW u, NEW ought, NEW might,
           (must \cup may) \cap (ought \cup might) = {}
    PROVE  LET F == Leaves(t, must, may) ++ Leaves(u, ought, might) IN
           /\ DOMAIN F = (must \cup may) \cup (ought \cup might)
           /\ Lists(F, t, must, may) /\ Lists(F, u, ought, might)
<1> DEFINE f == Leaves(t, must, may)
           g == Leaves(u, ought, might)
<1>1. DOMAIN f = must \cup may /\ Lists(f, t, must, may)
  BY LeavesList
<1>2. DOMAIN g = ought \cup might /\ Lists(g, u, ought, might)
  BY LeavesList
<1> HIDE DEF f, g
<1>3. DOMAIN (f ++ g) = DOMAIN f \cup DOMAIN g
  BY Joined
<1>4. Lists(f ++ g, t, must, may)
  BY <1>1, JoinedLists, Zenon
<1>5. Lists(f ++ g, u, ought, might)
  BY <1>1, <1>2, JoinedLists, Zenon
<1>6. QED
  BY <1>1, <1>2, <1>3, <1>4, <1>5, Zenon DEF f, g

LEMMA GroupFits ==
    ASSUME NEW x \in Json, NEW type \in {"string", "number", "boolean"},
           NEW must, NEW may, must \cap may = {}, NEW F, Lists(F, type, must, may)
    PROVE  /\ (\A key \in must \cup may : Fits0(Member(x, key), F[key])) <=> Typed(x, type, must, may)
           /\ (\A key \in must \cup may : Fits1(Member(x, key), F[key])) <=> Typed(x, type, must, may)
           /\ (\A key \in must \cup may : Fits2(Member(x, key), F[key])) <=> Typed(x, type, must, may)
<1>1. \A key \in must \cup may : F[key] = Leaf(type, key \in must)
  BY Zenon DEF Lists
<1>2. QED
  BY <1>1, LeavesFit, Zenon

\* What the walk asks of each object.
SupplierTyped(x) ==
    /\ x.tag = "object"
    /\ Typed(x, "string", {"gstin", "name", "address_state"}, {})
    /\ Typed(x, "number", {}, {"aato_crore"})

LEMMA SupplierFits ==
    ASSUME NEW x \in Json
    PROVE  Fits3(x, SupplierNode) <=> SupplierTyped(x)
<1> DEFINE a == {"gstin", "name", "address_state"}
           b == {}
           c == {}
           e == {"aato_crore"}
           F == Leaves("string", a, b) ++ Leaves("number", c, e)
<1>1. (a \cup b) \cap (c \cup e) = {} /\ a \cap b = {} /\ c \cap e = {}
  OBVIOUS
<1>2. SupplierNode = Node("object", TRUE, F, Null)
  BY DEF SupplierNode, Branch
<1>3. SupplierNode.required = TRUE
  BY <1>2 DEF Node
<1> HIDE DEF a, b, c, e
<1>4. /\ DOMAIN F = (a \cup b) \cup (c \cup e)
      /\ Lists(F, "string", a, b) /\ Lists(F, "number", c, e)
  BY <1>1, PairLists, Zenon
<1> HIDE DEF F
<1>5. (\A key \in a \cup b : Fits2(Member(x, key), F[key])) <=> Typed(x, "string", a, b)
  BY <1>1, <1>4, GroupFits
<1>6. (\A key \in c \cup e : Fits2(Member(x, key), F[key])) <=> Typed(x, "number", c, e)
  BY <1>1, <1>4, GroupFits
<1>7. (\A key \in DOMAIN F : Fits2(Member(x, key), F[key]))
          <=> Typed(x, "string", a, b) /\ Typed(x, "number", c, e)
  BY <1>4, <1>5, <1>6, Zenon
<1>8. CASE x \in Values
  <2>1. Sound3(Visit(x, SupplierNode))
            <=> x.tag = "object" /\ \A key \in DOMAIN F : Fits2(Member(x, key), F[key])
    BY <1>2, <1>8, BranchFits, Zenon
  <2>2. Fits3(x, SupplierNode) <=> Sound3(Visit(x, SupplierNode))
    BY <1>8, AbsentIsNone DEF Fits3
  <2>3. x # Absent
    BY <1>8, AbsentIsNone
  <2>4. QED
    BY <1>7, <2>1, <2>2, <2>3, Zenon DEF SupplierTyped, a, b, c, e
<1>9. CASE x = Absent
  BY <1>3, <1>9, AbsentIsNone DEF Fits3, SupplierTyped
<1>10. QED
  BY <1>8, <1>9 DEF Json

BuyerTyped(x) ==
    /\ x.tag = "object"
    /\ Typed(x, "string", {}, {"gstin", "name", "address_state"})
    /\ Typed(x, "boolean", {}, {"registered"})

LEMMA BuyerFits ==
    ASSUME NEW x \in Json
    PROVE  Fits3(x, BuyerNode) <=> x = Absent \/ BuyerTyped(x)
<1> DEFINE a == {}
           b == {"gstin", "name", "address_state"}
           c == {}
           e == {"registered"}
           F == Leaves("string", a, b) ++ Leaves("boolean", c, e)
<1>1. (a \cup b) \cap (c \cup e) = {} /\ a \cap b = {} /\ c \cap e = {}
  OBVIOUS
<1>2. BuyerNode = Node("object", FALSE, F, Null)
  BY DEF BuyerNode, Branch
<1>3. BuyerNode.required = FALSE
  BY <1>2 DEF Node
<1> HIDE DEF a, b, c, e
<1>4. /\ DOMAIN F = (a \cup b) \cup (c \cup e)
      /\ Lists(F, "string", a, b) /\ Lists(F, "boolean", c, e)
  BY <1>1, PairLists, Zenon
<1> HIDE DEF F
<1>5. (\A key \in a \cup b : Fits2(Member(x, key), F[key])) <=> Typed(x, "string", a, b)
  BY <1>1, <1>4, GroupFits
<1>6. (\A key \in c \cup e : Fits2(Member(x, key), F[key])) <=> Typed(x, "boolean", c, e)
  BY <1>1, <1>4, GroupFits
<1>7. (\A key \in DOMAIN F : Fits2(Member(x, key), F[key]))
          <=> Typed(x, "string", a, b) /\ Typed(x, "boolean", c, e)
  BY <1>4, <1>5, <1>6, Zenon
<1>8. CASE x \in Values
  <2>1. Sound3(Visit(x, BuyerNode))
            <=> x.tag = "object" /\ \A key \in DOMAIN F : Fits2(Member(x, key), F[key])
    BY <1>2, <1>8, BranchFits, Zenon
  <2>2. Fits3(x, BuyerNode) <=> Sound3(Visit(x, BuyerNode))
    BY <1>8, AbsentIsNone DEF Fits3
  <2>3. x # Absent
    BY <1>8, AbsentIsNone
  <2>4. QED
    BY <1>7, <2>1, <2>2, <2>3, Zenon DEF BuyerTyped, a, b, c, e
<1>9. CASE x = Absent
  BY <1>3, <1>9, AbsentIsNone DEF Fits3, BuyerTyped
<1>10. QED
  BY <1>8, <1>9 DEF Json

TaxTyped(x) ==
    /\ x.tag = "object"
    /\ Typed(x, "number", {"total_tax"}, {"cgst", "sgst", "igst", "cess"})
    /\ Typed(x, "boolean", {"has_cgst_sgst", "has_igst"}, {})

LEMMA TaxFits ==
    ASSUME NEW x \in Json
    PROVE  Fits2(x, TaxNode) <=> TaxTyped(x)
<1> DEFINE a == {"total_tax"}
           b == {"cgst", "sgst", "igst", "cess"}
           c == {"has_cgst_sgst", "has_igst"}
           e == {}
           F == Leaves("number", a, b) ++ Leaves("boolean", c, e)
<1>1. (a \cup b) \cap (c \cup e) = {} /\ a \cap b = {} /\ c \cap e = {}
  OBVIOUS
<1>2. TaxNode = Node("object", TRUE, F, Null)
  BY DEF TaxNode, Branch
<1>3. TaxNode.required = TRUE
  BY <1>2 DEF Node
<1> HIDE DEF a, b, c, e
<1>4. /\ DOMAIN F = (a \cup b) \cup (c \cup e)
      /\ Lists(F, "number", a, b) /\ Lists(F, "boolean", c, e)
  BY <1>1, PairLists, Zenon
<1> HIDE DEF F
<1>5. (\A key \in a \cup b : Fits1(Member(x, key), F[key])) <=> Typed(x, "number", a, b)
  BY <1>1, <1>4, GroupFits
<1>6. (\A key \in c \cup e : Fits1(Member(x, key), F[key])) <=> Typed(x, "boolean", c, e)
  BY <1>1, <1>4, GroupFits
<1>7. (\A key \in DOMAIN F : Fits1(Member(x, key), F[key]))
          <=> Typed(x, "number", a, b) /\ Typed(x, "boolean", c, e)
  BY <1>4, <1>5, <1>6, Zenon
<1>8. CASE x \in Values
  <2>1. Sound2(Visit(x, TaxNode))
            <=> x.tag = "object" /\ \A key \in DOMAIN F : Fits1(Member(x, key), F[key])
    BY <1>2, <1>8, BranchFits, Zenon
  <2>2. Fits2(x, TaxNode) <=> Sound2(Visit(x, TaxNode))
    BY <1>8, AbsentIsNone DEF Fits2
  <2>3. x # Absent
    BY <1>8, AbsentIsNone
  <2>4. QED
    BY <1>7, <2>1, <2>2, <2>3, Zenon DEF TaxTyped, a, b, c, e
<1>9. CASE x = Absent
  BY <1>3, <1>9, AbsentIsNone DEF Fits2, TaxTyped
<1>10. QED
  BY <1>8, <1>9 DEF Json

IrpTyped(x) ==
    /\ x.tag = "object"
    /\ Typed(x, "string", {}, {"reported_on", "acknowledgment_no"})

LEMMA IrpFits ==
    ASSUME NEW x \in Json
    PROVE  Fits3(x, IrpNode) <=> x = Absent \/ IrpTyped(x)
<1> DEFINE b == {"reported_on", "acknowledgment_no"}
           F == Leaves("string", {}, b)
<1>1. {} \cap b = {}
  OBVIOUS
<1>2. IrpNode = Node("object", FALSE, F, Null)
  BY DEF IrpNode, Branch
<1>3. IrpNode.required = FALSE
  BY <1>2 DEF Node
<1> HIDE DEF b
<1>4. DOMAIN F = {} \cup b /\ Lists(F, "string", {}, b)
  BY LeavesList, Zenon
<1> HIDE DEF F
<1>5. (\A key \in {} \cup b : Fits2(Member(x, key), F[key])) <=> Typed(x, "string", {}, b)
  BY <1>1, <1>4, GroupFits
<1>6. CASE x \in Values
  <2>1. Sound3(Visit(x, IrpNode))
            <=> x.tag = "object" /\ \A key \in DOMAIN F : Fits2(Member(x, key), F[key])
    BY <1>2, <1>6, BranchFits, Zenon
  <2>2. Fits3(x, IrpNode) <=> Sound3(Visit(x, IrpNode))
    BY <1>6, AbsentIsNone DEF Fits3
  <2>3. x # Absent
    BY <1>6, AbsentIsNone
  <2>4. QED
    BY <1>4, <1>5, <2>1, <2>2, <2>3, Zenon DEF IrpTyped, b
<1>7. CASE x = Absent
  BY <1>3, <1>7, AbsentIsNone DEF Fits3
<1>8. QED
  BY <1>6, <1>7 DEF Json

ItemTyped(x) ==
    /\ x.tag = "object"
    /\ Typed(x, "string", {"hsn"}, {"description"})
    /\ Typed(x, "number", {"base_value", "tax_rate"}, {"quantity", "unit_price"})

LEMMA ItemFits ==
    ASSUME NEW x \in Values
    PROVE  Sound1(Visit(x, ItemNode)) <=> ItemTyped(x)
<1> DEFINE a == {"hsn"}
           b == {"description"}
           c == {"base_value", "tax_rate"}
           e == {"quantity", "unit_price"}
           F == Leaves("string", a, b) ++ Leaves("number", c, e)
<1>1. (a \cup b) \cap (c \cup e) = {} /\ a \cap b = {} /\ c \cap e = {}
  OBVIOUS
<1>2. ItemNode = Node("", FALSE, F, Null)
  BY DEF ItemNode
<1> HIDE DEF a, b, c, e
<1>3. /\ DOMAIN F = (a \cup b) \cup (c \cup e)
      /\ Lists(F, "string", a, b) /\ Lists(F, "number", c, e)
  BY <1>1, PairLists, Zenon
<1> HIDE DEF F
<1>4. x \in Json
  BY DEF Json
<1>5. (\A key \in a \cup b : Fits0(Member(x, key), F[key])) <=> Typed(x, "string", a, b)
  BY <1>1, <1>3, <1>4, GroupFits
<1>6. (\A key \in c \cup e : Fits0(Member(x, key), F[key])) <=> Typed(x, "number", c, e)
  BY <1>1, <1>3, <1>4, GroupFits
<1>7. (\A key \in DOMAIN F : Fits0(Member(x, key), F[key]))
          <=> Typed(x, "string", a, b) /\ Typed(x, "number", c, e)
  BY <1>3, <1>5, <1>6, Zenon
<1>8. Sound1(Visit(x, ItemNode))
          <=> x.tag = "object" /\ \A key \in DOMAIN F : Fits0(Member(x, key), F[key])
  BY <1>2, BranchFits, Zenon
<1>9. QED
  BY <1>7, <1>8, Zenon DEF ItemTyped, a, b, c, e

LinesTyped(x) == x.tag = "array" /\ \A i \in 1 .. Len(x.e) : ItemTyped(x.e[i])

LEMMA LinesFit ==
    ASSUME NEW x \in Json
    PROVE  Fits2(x, Node("array", TRUE, <<>>, ItemNode)) <=> LinesTyped(x)
<1> DEFINE N == Node("array", TRUE, <<>>, ItemNode)
<1>1. N.required = TRUE
  BY DEF Node
<1>2. ItemNode # Null
  BY DEF ItemNode, Node, Null
<1>3. CASE x \in Values
  <2>1. Sound2(Visit(x, N))
            <=> x.tag = "array" /\ \A i \in 1 .. Len(x.e) : Sound1(Visit(x.e[i], ItemNode))
    BY <1>2, <1>3, ArrayVisit, Zenon
  <2>2. x.tag = "array" => \A i \in 1 .. Len(x.e) : x.e[i] \in Values
    BY <1>3, ArrayMember
  <2>3. Fits2(x, N) <=> Sound2(Visit(x, N))
    BY <1>3, AbsentIsNone, Zenon DEF Fits2
  <2>4. QED
    BY <2>1, <2>2, <2>3, ItemFits, Zenon DEF LinesTyped
<1>4. CASE x = Absent
  BY <1>1, <1>4, AbsentIsNone DEF Fits2, LinesTyped
<1>5. QED
  BY <1>3, <1>4 DEF Json

WarningsTyped(x) == x.tag = "array" /\ \A i \in 1 .. Len(x.e) : x.e[i].tag = "string"

LEMMA WarningsFit ==
    ASSUME NEW x \in Json
    PROVE  Fits2(x, Node("array", FALSE, <<>>, Leaf("string", FALSE)))
               <=> x = Absent \/ WarningsTyped(x)
<1> DEFINE L == Leaf("string", FALSE)
           N == Node("array", FALSE, <<>>, L)
<1>1. N.required = FALSE
  BY DEF Node
<1>2. L # Null
  BY DEF Leaf, Node, Null
<1>3. CASE x \in Values
  <2>1. Sound2(Visit(x, N))
            <=> x.tag = "array" /\ \A i \in 1 .. Len(x.e) : Sound1(Visit(x.e[i], L))
    <3> HIDE DEF L
    <3>1. QED
      BY <1>2, <1>3, ArrayVisit, Zenon
  <2>2. x.tag = "array" => \A i \in 1 .. Len(x.e) : x.e[i] \in Values
    BY <1>3, ArrayMember
  <2>3. Fits2(x, N) <=> Sound2(Visit(x, N))
    BY <1>3, AbsentIsNone, Zenon DEF Fits2
  <2>4. x # Absent
    BY <1>3, AbsentIsNone
  <2>5. \A y \in Values : Sound1(Visit(y, L)) <=> y.tag = "string"
    BY LeafVisit
  <2>6. QED
    BY <2>1, <2>2, <2>3, <2>4, <2>5, Zenon DEF WarningsTyped
<1>4. CASE x = Absent
  BY <1>1, <1>4 DEF Fits2
<1>5. QED
  BY <1>3, <1>4 DEF Json

ConfidenceTyped(x) ==
    /\ x.tag = "object"
    /\ Typed(x, "number", {}, {"overall_score"})
    /\ Member(x, "warnings") = Absent \/ WarningsTyped(Member(x, "warnings"))

LEMMA ConfidenceFits ==
    ASSUME NEW x \in Json
    PROVE  Fits3(x, ConfidenceNode) <=> x = Absent \/ ConfidenceTyped(x)
<1> DEFINE b == {"overall_score"}
           W == Node("array", FALSE, <<>>, Leaf("string", FALSE))
           f == Leaves("number", {}, b)
           g == [warnings |-> W]
           F == f ++ g
<1>1. {} \cap b = {} /\ ({} \cup b) \cap {"warnings"} = {}
  OBVIOUS
<1>2. ConfidenceNode = Node("object", FALSE, F, Null)
  BY DEF ConfidenceNode, Branch
<1>3. ConfidenceNode.required = FALSE
  BY <1>2 DEF Node
<1>4. DOMAIN g = {"warnings"} /\ g["warnings"] = W
  OBVIOUS
<1> HIDE DEF b, g
<1>5. DOMAIN f = {} \cup b /\ Lists(f, "number", {}, b)
  BY LeavesList, Zenon
<1> HIDE DEF f
<1>6. Lists(F, "number", {}, b)
  BY <1>5, JoinedLists, Zenon
<1>7. DOMAIN F = ({} \cup b) \cup {"warnings"}
  <2>1. DOMAIN F = DOMAIN f \cup DOMAIN g
    BY Joined
  <2> HIDE DEF F, g
  <2>2. QED
    BY <1>4, <1>5, <2>1
<1>8. F["warnings"] = W
  <2>1. "warnings" \in DOMAIN g \ DOMAIN f
    BY <1>1, <1>4, <1>5
  <2>2. \A k \in DOMAIN g \ DOMAIN f : F[k] = g[k]
    BY Joined
  <2> HIDE DEF F
  <2>3. QED
    BY <1>4, <2>1, <2>2, Zenon
<1> HIDE DEF F
<1>9. (\A key \in {} \cup b : Fits2(Member(x, key), F[key])) <=> Typed(x, "number", {}, b)
  BY <1>1, <1>6, GroupFits
<1>10. Fits2(Member(x, "warnings"), F["warnings"])
           <=> Member(x, "warnings") = Absent \/ WarningsTyped(Member(x, "warnings"))
  BY <1>8, MemberIsJson, WarningsFit, Zenon
<1>11. CASE x \in Values
  <2>1. Sound3(Visit(x, ConfidenceNode))
            <=> x.tag = "object" /\ \A key \in DOMAIN F : Fits2(Member(x, key), F[key])
    BY <1>2, <1>11, BranchFits, Zenon
  <2>2. Fits3(x, ConfidenceNode) <=> Sound3(Visit(x, ConfidenceNode))
    BY <1>11, AbsentIsNone DEF Fits3
  <2>3. x # Absent
    BY <1>11, AbsentIsNone
  <2>4. (\A key \in DOMAIN F : Fits2(Member(x, key), F[key]))
            <=> /\ \A key \in {} \cup b : Fits2(Member(x, key), F[key])
                /\ Fits2(Member(x, "warnings"), F["warnings"])
    BY <1>7, Zenon
  <2>5. QED
    BY <1>9, <1>10, <2>1, <2>2, <2>3, <2>4, Zenon DEF ConfidenceTyped, b
<1>12. CASE x = Absent
  BY <1>3, <1>12, AbsentIsNone DEF Fits3
<1>13. QED
  BY <1>11, <1>12 DEF Json

InvoiceTyped(x) ==
    /\ x.tag = "object"
    /\ Typed(x, "string", {"number", "date", "place_of_supply", "supply_type", "classification",
                           "hsn_string"}, {"irn"})
    /\ Typed(x, "boolean", {"irn_present"}, {})
    /\ Typed(x, "number", {"base_value", "total_value"}, {})
    /\ LinesTyped(Member(x, "line_items"))
    /\ TaxTyped(Member(x, "tax_breakdown"))

LEMMA InvoiceFits ==
    ASSUME NEW x \in Json
    PROVE  Fits3(x, InvoiceNode) <=> InvoiceTyped(x)
<1> DEFINE a == {"number", "date", "place_of_supply", "supply_type", "classification", "hsn_string"}
           b == {"irn"}
           c == {"irn_present"}
           e == {"base_value", "total_value"}
           L == Node("array", TRUE, <<>>, ItemNode)
           f == Leaves("string", a, b) ++ Leaves("boolean", c, {})
           g == Leaves("number", e, {})
           h == [line_items |-> L, tax_breakdown |-> TaxNode]
           fg == f ++ g
           F == fg ++ h
<1>1. /\ (a \cup b) \cap (c \cup {}) = {} /\ a \cap b = {} /\ c \cap {} = {} /\ e \cap {} = {}
      /\ ((a \cup b) \cup (c \cup {})) \cap (e \cup {}) = {}
  OBVIOUS
<1>2. /\ "line_items" \notin ((a \cup b) \cup (c \cup {})) \cup (e \cup {})
      /\ "tax_breakdown" \notin ((a \cup b) \cup (c \cup {})) \cup (e \cup {})
  OBVIOUS
<1>3. InvoiceNode = Node("object", TRUE, F, Null)
  BY DEF InvoiceNode, Branch
<1>4. InvoiceNode.required = TRUE
  BY <1>3 DEF Node
<1>5. /\ DOMAIN h = {"line_items", "tax_breakdown"}
      /\ h["line_items"] = L /\ h["tax_breakdown"] = TaxNode
  OBVIOUS
<1> HIDE DEF a, b, c, e, h, L
<1>6. /\ DOMAIN f = (a \cup b) \cup (c \cup {})
      /\ Lists(f, "string", a, b) /\ Lists(f, "boolean", c, {})
  BY <1>1, PairLists, Zenon
<1>7. DOMAIN g = e \cup {} /\ Lists(g, "number", e, {})
  BY LeavesList, Zenon
<1> HIDE DEF f, g
<1>8. /\ Lists(fg, "string", a, b) /\ Lists(fg, "boolean", c, {})
  BY <1>6, JoinedLists, Zenon
<1>9. Lists(fg, "number", e, {})
  BY <1>1, <1>6, <1>7, JoinedLists, Zenon
<1>10. DOMAIN fg = ((a \cup b) \cup (c \cup {})) \cup (e \cup {})
  BY <1>6, <1>7, Joined, Zenon
<1> HIDE DEF fg
<1>11. /\ Lists(F, "string", a, b) /\ Lists(F, "boolean", c, {}) /\ Lists(F, "number", e, {})
  BY <1>8, <1>9, JoinedLists, Zenon
<1>12. DOMAIN F = (((a \cup b) \cup (c \cup {})) \cup (e \cup {})) \cup {"line_items", "tax_breakdown"}
  <2>1. DOMAIN F = DOMAIN fg \cup DOMAIN h
    BY Joined
  <2> HIDE DEF F
  <2>2. QED
    BY <1>5, <1>10, <2>1, Zenon
<1>13. F["line_items"] = L /\ F["tax_breakdown"] = TaxNode
  <2>1. "line_items" \in DOMAIN h \ DOMAIN fg /\ "tax_breakdown" \in DOMAIN h \ DOMAIN fg
    BY <1>2, <1>5, <1>10
  <2>2. \A k \in DOMAIN h \ DOMAIN fg : F[k] = h[k]
    BY Joined
  <2> HIDE DEF F
  <2>3. QED
    BY <1>5, <2>1, <2>2, Zenon
<1> HIDE DEF F
<1>14. (\A key \in a \cup b : Fits2(Member(x, key), F[key])) <=> Typed(x, "string", a, b)
  BY <1>1, <1>11, GroupFits
<1>15. (\A key \in c \cup {} : Fits2(Member(x, key), F[key])) <=> Typed(x, "boolean", c, {})
  BY <1>1, <1>11, GroupFits
<1>16. (\A key \in e \cup {} : Fits2(Member(x, key), F[key])) <=> Typed(x, "number", e, {})
  BY <1>1, <1>11, GroupFits
<1>17. Fits2(Member(x, "line_items"), F["line_items"]) <=> LinesTyped(Member(x, "line_items"))
  BY <1>13, MemberIsJson, LinesFit, Zenon DEF L
<1>18. Fits2(Member(x, "tax_breakdown"), F["tax_breakdown"]) <=> TaxTyped(Member(x, "tax_breakdown"))
  BY <1>13, MemberIsJson, TaxFits, Zenon
<1>19. (\A key \in DOMAIN F : Fits2(Member(x, key), F[key]))
           <=> /\ \A key \in a \cup b : Fits2(Member(x, key), F[key])
               /\ \A key \in c \cup {} : Fits2(Member(x, key), F[key])
               /\ \A key \in e \cup {} : Fits2(Member(x, key), F[key])
               /\ Fits2(Member(x, "line_items"), F["line_items"])
               /\ Fits2(Member(x, "tax_breakdown"), F["tax_breakdown"])
  BY <1>12, Zenon
<1>20. CASE x \in Values
  <2>1. Sound3(Visit(x, InvoiceNode))
            <=> x.tag = "object" /\ \A key \in DOMAIN F : Fits2(Member(x, key), F[key])
    BY <1>3, <1>20, BranchFits, Zenon
  <2>2. Fits3(x, InvoiceNode) <=> Sound3(Visit(x, InvoiceNode))
    BY <1>20, AbsentIsNone DEF Fits3
  <2>3. Fits3(x, InvoiceNode)
            <=> /\ x.tag = "object" /\ Typed(x, "string", a, b) /\ Typed(x, "boolean", c, {})
                /\ Typed(x, "number", e, {}) /\ LinesTyped(Member(x, "line_items"))
                /\ TaxTyped(Member(x, "tax_breakdown"))
    BY <1>14, <1>15, <1>16, <1>17, <1>18, <1>19, <2>1, <2>2, Zenon
  <2>4. QED
    BY <2>3, Zenon DEF InvoiceTyped, a, b, c, e
<1>21. CASE x = Absent
  BY <1>4, <1>21, AbsentIsNone DEF Fits3, InvoiceTyped
<1>22. QED
  BY <1>20, <1>21 DEF Json

\* What the walk asks of a document, section by section.
Walked(d) ==
    /\ d.tag = "object"
    /\ SupplierTyped(Member(d, "supplier"))
    /\ Member(d, "buyer") = Absent \/ BuyerTyped(Member(d, "buyer"))
    /\ InvoiceTyped(Member(d, "invoice"))
    /\ Member(d, "irp") = Absent \/ IrpTyped(Member(d, "irp"))
    /\ Member(d, "extraction_confidence") = Absent
       \/ ConfidenceTyped(Member(d, "extraction_confidence"))

LEMMA WalkIs ==
    ASSUME NEW d \in Values
    PROVE  Conforms(d) <=> Walked(d)
<1> DEFINE F == [supplier |-> SupplierNode, buyer |-> BuyerNode, invoice |-> InvoiceNode,
                 irp |-> IrpNode, extraction_confidence |-> ConfidenceNode]
<1>1. Schema = Node("object", TRUE, F, Null)
  BY DEF Schema, Branch
<1>2. DOMAIN F = {"supplier", "buyer", "invoice", "irp", "extraction_confidence"}
  OBVIOUS
<1>3. /\ F["supplier"] = SupplierNode /\ F["buyer"] = BuyerNode /\ F["invoice"] = InvoiceNode
      /\ F["irp"] = IrpNode /\ F["extraction_confidence"] = ConfidenceNode
  OBVIOUS
<1> HIDE DEF F
<1>4. Sound4(Visit(d, Schema))
          <=> d.tag = "object" /\ \A key \in DOMAIN F : Fits3(Member(d, key), F[key])
  BY <1>1, BranchFits, Zenon
<1>5. (\A key \in DOMAIN F : Fits3(Member(d, key), F[key]))
          <=> /\ Fits3(Member(d, "supplier"), SupplierNode) /\ Fits3(Member(d, "buyer"), BuyerNode)
              /\ Fits3(Member(d, "invoice"), InvoiceNode) /\ Fits3(Member(d, "irp"), IrpNode)
              /\ Fits3(Member(d, "extraction_confidence"), ConfidenceNode)
  BY <1>2, <1>3, Zenon
<1>6. \A key : Member(d, key) \in Json
  BY MemberIsJson DEF Json
<1>7. /\ Fits3(Member(d, "supplier"), SupplierNode) <=> SupplierTyped(Member(d, "supplier"))
      /\ Fits3(Member(d, "invoice"), InvoiceNode) <=> InvoiceTyped(Member(d, "invoice"))
  BY <1>6, SupplierFits, InvoiceFits, Zenon
<1>8. /\ Fits3(Member(d, "buyer"), BuyerNode)
             <=> Member(d, "buyer") = Absent \/ BuyerTyped(Member(d, "buyer"))
      /\ Fits3(Member(d, "irp"), IrpNode)
             <=> Member(d, "irp") = Absent \/ IrpTyped(Member(d, "irp"))
  BY <1>6, BuyerFits, IrpFits, Zenon
<1>9. Fits3(Member(d, "extraction_confidence"), ConfidenceNode)
          <=> Member(d, "extraction_confidence") = Absent
              \/ ConfidenceTyped(Member(d, "extraction_confidence"))
  BY <1>6, ConfidenceFits, Zenon
<1>10. Conforms(d) <=> Sound4(Visit(d, Schema))
  BY WalkDecides, Zenon
<1>11. QED
  BY <1>4, <1>5, <1>7, <1>8, <1>9, <1>10, Zenon DEF Walked

-----------------------------------------------------------------------------
(* The walk, in the terms of the contract *)

Types == {"object", "array", "string", "number", "boolean"}

LEMMA ReachedMembers ==
    ASSUME NEW d, NEW p \in Seq(Keys), NEW keys \in SUBSET Names, NEW what
    PROVE  /\ Must(d, p, keys, what) <=> \A key \in keys : Fits(Member(ValueAt(d, p), key), what)
           /\ May(d, p, keys, what)
                  <=> \A key \in keys : \/ Member(ValueAt(d, p), key) = Absent
                                        \/ Fits(Member(ValueAt(d, p), key), what)
           /\ Has(d, p, keys) <=> \A key \in keys : Member(ValueAt(d, p), key) # Absent
<1>1. \A key \in keys : ValueAt(d, Append(p, key)) = Member(ValueAt(d, p), key)
  BY MemberIsReached DEF Keys
<1>2. QED
  BY <1>1, Zenon DEF Must, May, Has

LEMMA TypedIs ==
    ASSUME NEW d, NEW p \in Seq(Keys), NEW type \in Types,
           NEW must \in SUBSET Names, NEW may \in SUBSET Names
    PROVE  Typed(ValueAt(d, p), type, must, may)
               <=> Must(d, p, must, type) /\ May(d, p, may, type)
<1>1. \A v : Fits(v, type) <=> v.tag = type
  BY TypeFits DEF Types
<1>2. Must(d, p, must, type) <=> \A key \in must : Fits(Member(ValueAt(d, p), key), type)
  BY ReachedMembers, Zenon
<1>3. May(d, p, may, type)
          <=> \A key \in may : \/ Member(ValueAt(d, p), key) = Absent
                               \/ Fits(Member(ValueAt(d, p), key), type)
  BY ReachedMembers, Zenon
<1>4. QED
  BY <1>1, <1>2, <1>3, Zenon DEF Typed

\* Every other thing a value may be asked to fit implies a type.
LEMMA FitsTypes ==
    ASSUME NEW v
    PROVE  /\ Fits(v, "money") => v.tag = "number"
           /\ Fits(v, "rate") <=> Fits(v, "money")
           /\ Fits(v, "turnover") => v.tag = "number"
           /\ Fits(v, "supply") => v.tag = "string"
           /\ Fits(v, "class") => v.tag = "string"
<1>1. \A s : String(s).tag = "string"
  BY DEF String
<1>2. Fits(v, "money") = Money(v) /\ Fits(v, "rate") = Money(v)
  BY DEF Fits
<1>3. Fits(v, "turnover") <=> v.tag = "number" /\ v.r # "negative"
  BY DEF Fits
<1>4. Fits(v, "supply") <=> v \in {String("INTRA"), String("INTER")}
  BY DEF Fits
<1>5. Fits(v, "class") <=> v \in {String("B2B"), String("B2C"), String("UNDETERMINED")}
  BY DEF Fits
<1>6. Money(v) => v.tag = "number"
  BY DEF Money
<1>7. QED
  BY <1>1, <1>2, <1>3, <1>4, <1>5, <1>6

LEMMA MustTypes ==
    ASSUME NEW d, NEW p, NEW keys
    PROVE  /\ Must(d, p, keys, "money") => Must(d, p, keys, "number")
           /\ Must(d, p, keys, "rate") <=> Must(d, p, keys, "money")
           /\ Must(d, p, keys, "supply") => Must(d, p, keys, "string")
           /\ Must(d, p, keys, "class") => Must(d, p, keys, "string")
           /\ May(d, p, keys, "money") => May(d, p, keys, "number")
           /\ May(d, p, keys, "turnover") => May(d, p, keys, "number")
<1>1. \A v : /\ Fits(v, "number") <=> v.tag = "number"
             /\ Fits(v, "string") <=> v.tag = "string"
  BY TypeFits
<1>2. /\ Must(d, p, keys, "money") => Must(d, p, keys, "number")
      /\ Must(d, p, keys, "rate") <=> Must(d, p, keys, "money")
  BY <1>1, FitsTypes, Zenon DEF Must
<1>3. /\ Must(d, p, keys, "supply") => Must(d, p, keys, "string")
      /\ Must(d, p, keys, "class") => Must(d, p, keys, "string")
  BY <1>1, FitsTypes, Zenon DEF Must
<1>4. /\ May(d, p, keys, "money") => May(d, p, keys, "number")
      /\ May(d, p, keys, "turnover") => May(d, p, keys, "number")
  BY <1>1, FitsTypes, Zenon DEF May
<1>5. QED
  BY <1>2, <1>3, <1>4, Zenon

LEMMA Splits ==
    ASSUME NEW d, NEW p, NEW a, NEW b, NEW what
    PROVE  /\ Must(d, p, a \cup b, what) <=> Must(d, p, a, what) /\ Must(d, p, b, what)
           /\ May(d, p, a \cup b, what) <=> May(d, p, a, what) /\ May(d, p, b, what)
           /\ Must(d, p, {}, what) /\ May(d, p, {}, what)
  BY DEF Must, May

LEMMA AbsentHasNoMembers ==
    ASSUME NEW d, NEW p \in Seq(Keys), ValueAt(d, p) = Absent, NEW keys \in SUBSET Names, NEW what
    PROVE  May(d, p, keys, what)
<1>1. \A key : Member(Absent, key) = Absent
  BY AbsentIsNone DEF Member
<1>2. QED
  BY <1>1, ReachedMembers, Zenon

\* A member of the document that may be missing.
LEMMA OneMember ==
    ASSUME NEW d, NEW p \in Seq(Keys), NEW key \in Names, NEW type \in Types
    PROVE  /\ Must(d, p, {key}, type) <=> Member(ValueAt(d, p), key).tag = type
           /\ May(d, p, {key}, type) <=> \/ Member(ValueAt(d, p), key) = Absent
                                         \/ Member(ValueAt(d, p), key).tag = type
<1>1. \A v : Fits(v, type) <=> v.tag = type
  BY TypeFits DEF Types
<1>2. {key} \in SUBSET Names
  OBVIOUS
<1>3. /\ Must(d, p, {key}, type) <=> \A k \in {key} : Fits(Member(ValueAt(d, p), k), type)
      /\ May(d, p, {key}, type) <=> \A k \in {key} : \/ Member(ValueAt(d, p), k) = Absent
                                                     \/ Fits(Member(ValueAt(d, p), k), type)
  BY <1>2, ReachedMembers, Zenon
<1>4. QED
  BY <1>1, <1>3, Zenon

LEMMA RootMember ==
    ASSUME NEW d, NEW key \in Names
    PROVE  /\ Must(d, <<>>, {key}, "object") <=> Member(d, key).tag = "object"
           /\ May(d, <<>>, {key}, "object") <=> Member(d, key) = Absent \/ Member(d, key).tag = "object"
<1>1. <<>> \in Seq(Keys) /\ "object" \in Types
  BY DEF Types
<1>2. ValueAt(d, <<>>) = d
  BY RootIsReached
<1>3. /\ Must(d, <<>>, {key}, "object") <=> Member(ValueAt(d, <<>>), key).tag = "object"
      /\ May(d, <<>>, {key}, "object") <=> \/ Member(ValueAt(d, <<>>), key) = Absent
                                           \/ Member(ValueAt(d, <<>>), key).tag = "object"
  BY <1>1, OneMember, Zenon
<1>4. QED
  BY <1>2, <1>3, Zenon

LEMMA NameSets ==
    /\ {} \in SUBSET Names
    /\ {"gstin", "name", "address_state"} \in SUBSET Names /\ {"aato_crore"} \in SUBSET Names
    /\ {"registered"} \in SUBSET Names
    /\ {"number", "date", "place_of_supply", "supply_type", "classification", "hsn_string"}
           \in SUBSET Names
    /\ {"irn"} \in SUBSET Names /\ {"irn_present"} \in SUBSET Names
    /\ {"base_value", "total_value"} \in SUBSET Names
    /\ {"total_tax"} \in SUBSET Names /\ {"cgst", "sgst", "igst", "cess"} \in SUBSET Names
    /\ {"has_cgst_sgst", "has_igst"} \in SUBSET Names
    /\ {"reported_on", "acknowledgment_no"} \in SUBSET Names
    /\ {"overall_score"} \in SUBSET Names
    /\ {"hsn"} \in SUBSET Names /\ {"description"} \in SUBSET Names
    /\ {"base_value", "tax_rate"} \in SUBSET Names /\ {"quantity", "unit_price"} \in SUBSET Names
  BY DEF Names

LEMMA TypeNames ==
    /\ "object" \in Types /\ "array" \in Types /\ "string" \in Types /\ "number" \in Types
    /\ "boolean" \in Types
  BY DEF Types

-----------------------------------------------------------------------------
\* What the walk asks of each section, as the contract says it.
LEMMA SupplierTypedIs ==
    ASSUME NEW d \in Json
    PROVE  SupplierTyped(Member(d, "supplier")) <=>
               /\ Must(d, <<>>, {"supplier"}, "object")
               /\ Must(d, Supplier, {"gstin", "name", "address_state"}, "string")
               /\ May(d, Supplier, {"aato_crore"}, "number")
<1>1. ValueAt(d, <<>>) = d /\ ValueAt(d, Supplier) = Member(d, "supplier")
  BY Places, Zenon
<1>2. Must(d, <<>>, {"supplier"}, "object") <=> Member(d, "supplier").tag = "object"
  BY RootMember, Words, Zenon
<1>3. Typed(ValueAt(d, Supplier), "string", {"gstin", "name", "address_state"}, {})
          <=> Must(d, Supplier, {"gstin", "name", "address_state"}, "string") /\ May(d, Supplier, {}, "string")
  BY TypedIs, Objects, NameSets, TypeNames, Zenon
<1>4. Typed(ValueAt(d, Supplier), "number", {}, {"aato_crore"})
          <=> Must(d, Supplier, {}, "number") /\ May(d, Supplier, {"aato_crore"}, "number")
  BY TypedIs, Objects, NameSets, TypeNames, Zenon
<1>5. QED
  BY <1>1, <1>2, <1>3, <1>4, Splits, Zenon DEF SupplierTyped

LEMMA BuyerTypedIs ==
    ASSUME NEW d \in Json
    PROVE  (Member(d, "buyer") = Absent \/ BuyerTyped(Member(d, "buyer"))) <=>
               /\ May(d, <<>>, {"buyer"}, "object")
               /\ May(d, Buyer, {"gstin", "name", "address_state"}, "string")
               /\ May(d, Buyer, {"registered"}, "boolean")
<1>1. ValueAt(d, <<>>) = d /\ ValueAt(d, Buyer) = Member(d, "buyer")
  BY Places, Zenon
<1>2. May(d, <<>>, {"buyer"}, "object")
          <=> Member(d, "buyer") = Absent \/ Member(d, "buyer").tag = "object"
  BY RootMember, Words, Zenon
<1>3. Typed(ValueAt(d, Buyer), "string", {}, {"gstin", "name", "address_state"})
          <=> Must(d, Buyer, {}, "string") /\ May(d, Buyer, {"gstin", "name", "address_state"}, "string")
  BY TypedIs, Objects, NameSets, TypeNames, Zenon
<1>4. Typed(ValueAt(d, Buyer), "boolean", {}, {"registered"})
          <=> Must(d, Buyer, {}, "boolean") /\ May(d, Buyer, {"registered"}, "boolean")
  BY TypedIs, Objects, NameSets, TypeNames, Zenon
<1>5. Member(d, "buyer") = Absent =>
          /\ May(d, Buyer, {"gstin", "name", "address_state"}, "string")
          /\ May(d, Buyer, {"registered"}, "boolean")
  BY <1>1, AbsentHasNoMembers, Objects, NameSets, Zenon
<1>6. QED
  BY <1>1, <1>2, <1>3, <1>4, <1>5, Splits, Zenon DEF BuyerTyped

LEMMA IrpTypedIs ==
    ASSUME NEW d \in Json
    PROVE  (Member(d, "irp") = Absent \/ IrpTyped(Member(d, "irp"))) <=>
               /\ May(d, <<>>, {"irp"}, "object")
               /\ May(d, Irp, {"reported_on", "acknowledgment_no"}, "string")
<1>1. ValueAt(d, <<>>) = d /\ ValueAt(d, Irp) = Member(d, "irp")
  BY Places, Zenon
<1>2. May(d, <<>>, {"irp"}, "object")
          <=> Member(d, "irp") = Absent \/ Member(d, "irp").tag = "object"
  BY RootMember, Words, Zenon
<1>3. Typed(ValueAt(d, Irp), "string", {}, {"reported_on", "acknowledgment_no"})
          <=> Must(d, Irp, {}, "string") /\ May(d, Irp, {"reported_on", "acknowledgment_no"}, "string")
  BY TypedIs, Objects, NameSets, TypeNames, Zenon
<1>4. Member(d, "irp") = Absent => May(d, Irp, {"reported_on", "acknowledgment_no"}, "string")
  BY <1>1, AbsentHasNoMembers, Objects, NameSets, Zenon
<1>5. QED
  BY <1>1, <1>2, <1>3, <1>4, Splits, Zenon DEF IrpTyped

LEMMA ConfidenceTypedIs ==
    ASSUME NEW d \in Json
    PROVE  LET x == Member(d, "extraction_confidence")
               w == ValueAt(d, Append(Confidence, "warnings"))
           IN
           (x = Absent \/ ConfidenceTyped(x)) <=>
               /\ May(d, <<>>, {"extraction_confidence"}, "object")
               /\ May(d, Confidence, {"overall_score"}, "number")
               /\ May(d, Confidence, {"warnings"}, "array")
               /\ w.tag = "array" => \A i \in DOMAIN w.e : w.e[i].tag = "string"
<1> DEFINE x == Member(d, "extraction_confidence")
           w == ValueAt(d, Append(Confidence, "warnings"))
<1>1. ValueAt(d, <<>>) = d /\ ValueAt(d, Confidence) = x /\ x \in Json
  BY Places, Zenon
<1>2. w = Member(x, "warnings") /\ w \in Json
  <2>1. Confidence \in Seq(Keys) /\ ValueAt(d, Confidence) \in Json /\ "warnings" \in Names
    BY <1>1, Objects, Words, Zenon
  <2>2. /\ ValueAt(d, Append(Confidence, "warnings")) = Member(ValueAt(d, Confidence), "warnings")
        /\ ValueAt(d, Append(Confidence, "warnings")) \in Json
    BY <2>1, MembersOf, Zenon
  <2>3. QED
    BY <1>1, <2>2, Zenon
<1>3. May(d, <<>>, {"extraction_confidence"}, "object") <=> x = Absent \/ x.tag = "object"
  BY RootMember, Words, Zenon
<1>4. Typed(ValueAt(d, Confidence), "number", {}, {"overall_score"})
          <=> Must(d, Confidence, {}, "number") /\ May(d, Confidence, {"overall_score"}, "number")
  BY TypedIs, Objects, NameSets, TypeNames, Zenon
<1>5. May(d, Confidence, {"warnings"}, "array") <=> w = Absent \/ w.tag = "array"
  <2>1. Confidence \in Seq(Keys) /\ "warnings" \in Names /\ "array" \in Types
    BY Objects, Words, TypeNames, Zenon
  <2>2. QED
    <3>1. May(d, Confidence, {"warnings"}, "array")
              <=> \/ Member(ValueAt(d, Confidence), "warnings") = Absent
                  \/ Member(ValueAt(d, Confidence), "warnings").tag = "array"
      BY <2>1, OneMember, Zenon
    <3>2. QED
      BY <1>1, <1>2, <3>1, Zenon
<1>6. x = Absent => /\ May(d, Confidence, {"overall_score"}, "number")
                    /\ w = Absent
  <2>1. Member(Absent, "warnings") = Absent
    BY AbsentIsNone DEF Member
  <2>2. QED
    BY <1>1, <1>2, <2>1, AbsentHasNoMembers, Objects, NameSets, Zenon
<1> HIDE DEF x, w
<1>7. w.tag = "array" => DOMAIN w.e = 1 .. Len(w.e)
  BY <1>2, ArrayMember, AbsentIsNone DEF Json
<1>8. w = Absent => w.tag # "array"
  BY AbsentIsNone
<1>9. ConfidenceTyped(x) <=> /\ x.tag = "object" /\ May(d, Confidence, {"overall_score"}, "number")
                             /\ w = Absent \/ WarningsTyped(w)
  BY <1>1, <1>2, <1>4, Splits, Zenon DEF ConfidenceTyped
<1>10. w = Absent \/ WarningsTyped(w) <=>
           /\ w = Absent \/ w.tag = "array"
           /\ w.tag = "array" => \A i \in DOMAIN w.e : w.e[i].tag = "string"
  BY <1>7, <1>8, Zenon DEF WarningsTyped
<1>11. QED
  BY <1>3, <1>5, <1>6, <1>8, <1>9, <1>10, Zenon DEF x, w

LEMMA TaxTypedIs ==
    ASSUME NEW d \in Json
    PROVE  TaxTyped(ValueAt(d, Tax)) <=>
               /\ Must(d, Invoice, {"tax_breakdown"}, "object")
               /\ Must(d, Tax, {"total_tax"}, "number")
               /\ May(d, Tax, {"cgst", "sgst", "igst", "cess"}, "number")
               /\ Must(d, Tax, {"has_cgst_sgst", "has_igst"}, "boolean")
<1>1. ValueAt(d, Tax) = Member(ValueAt(d, Invoice), "tax_breakdown")
  BY Places, Zenon
<1>2. Must(d, Invoice, {"tax_breakdown"}, "object")
          <=> Member(ValueAt(d, Invoice), "tax_breakdown").tag = "object"
  <2>1. Invoice \in Seq(Keys) /\ "tax_breakdown" \in Names /\ "object" \in Types
    BY Objects, Words, TypeNames, Zenon
  <2>2. QED
    BY <2>1, OneMember, Zenon
<1>3. Typed(ValueAt(d, Tax), "number", {"total_tax"}, {"cgst", "sgst", "igst", "cess"})
          <=> /\ Must(d, Tax, {"total_tax"}, "number")
              /\ May(d, Tax, {"cgst", "sgst", "igst", "cess"}, "number")
  BY TypedIs, Objects, NameSets, TypeNames, Zenon
<1>4. Typed(ValueAt(d, Tax), "boolean", {"has_cgst_sgst", "has_igst"}, {})
          <=> Must(d, Tax, {"has_cgst_sgst", "has_igst"}, "boolean") /\ May(d, Tax, {}, "boolean")
  BY TypedIs, Objects, NameSets, TypeNames, Zenon
<1>5. QED
  BY <1>1, <1>2, <1>3, <1>4, Splits, Zenon DEF TaxTyped

LEMMA ItemTypedIs ==
    ASSUME NEW d, NEW item \in Seq(Keys)
    PROVE  ItemTyped(ValueAt(d, item)) <=>
               /\ ValueAt(d, item).tag = "object"
               /\ Must(d, item, {"hsn"}, "string") /\ May(d, item, {"description"}, "string")
               /\ Must(d, item, {"base_value", "tax_rate"}, "number")
               /\ May(d, item, {"quantity", "unit_price"}, "number")
<1>1. Typed(ValueAt(d, item), "string", {"hsn"}, {"description"})
          <=> Must(d, item, {"hsn"}, "string") /\ May(d, item, {"description"}, "string")
  BY TypedIs, NameSets, TypeNames, Zenon
<1>2. Typed(ValueAt(d, item), "number", {"base_value", "tax_rate"}, {"quantity", "unit_price"})
          <=> /\ Must(d, item, {"base_value", "tax_rate"}, "number")
              /\ May(d, item, {"quantity", "unit_price"}, "number")
  BY TypedIs, NameSets, TypeNames, Zenon
<1>3. QED
  BY <1>1, <1>2, Zenon DEF ItemTyped

\* The sanitizer alone asks of a line item all that the contract does.
LEMMA ItemSaneIs ==
    ASSUME NEW d, NEW item \in Seq(Keys)
    PROVE  /\ ItemSane(d, item) <=> ItemInContract(d, item)
           /\ ItemSane(d, item) => ItemTyped(ValueAt(d, item))
<1>1. {"base_value", "tax_rate"} = {"base_value"} \cup {"tax_rate"}
      /\ {"quantity", "unit_price"} = {"quantity"} \cup {"unit_price"}
  OBVIOUS
<1>2. Must(d, item, {"base_value", "tax_rate"}, "money")
          <=> Must(d, item, {"base_value"}, "money") /\ Must(d, item, {"tax_rate"}, "money")
  BY <1>1, Splits
<1>3. Must(d, item, {"tax_rate"}, "rate") <=> Must(d, item, {"tax_rate"}, "money")
  BY MustTypes, Zenon
<1>4. ItemSane(d, item) <=> ItemInContract(d, item)
  BY <1>2, <1>3, Zenon DEF ItemSane, ItemInContract
<1>5. Must(d, item, {"base_value", "tax_rate"}, "money")
          => Must(d, item, {"base_value", "tax_rate"}, "number")
  BY MustTypes, Zenon
<1>6. May(d, item, {"quantity", "unit_price"}, "number")
          <=> May(d, item, {"quantity"}, "number") /\ May(d, item, {"unit_price"}, "number")
  BY <1>1, Splits
<1>7. May(d, item, {"unit_price"}, "money") => May(d, item, {"unit_price"}, "number")
  BY MustTypes, Zenon
<1>8. QED
  BY <1>4, <1>5, <1>6, <1>7, ItemTypedIs, Zenon DEF ItemInContract

\* The elements of an array of line items, and how they are reached.
LEMMA ItemsAre ==
    ASSUME NEW d \in Json, ValueAt(d, Items).tag = "array"
    PROVE  LET x == ValueAt(d, Items) IN
           /\ ItemsCount(d) = Len(x.e) /\ DOMAIN x.e = 1 .. ItemsCount(d)
           /\ \A i \in 1 .. ItemsCount(d) : /\ Append(Items, i) \in Seq(Keys)
                                            /\ ValueAt(d, Append(Items, i)) = x.e[i]
<1> DEFINE x == ValueAt(d, Items)
<1>1. x \in Values
  <2>1. x \in Json
    BY Places, Zenon
  <2>2. x # Absent
    BY AbsentIsNone
  <2>3. QED
    BY <2>1, <2>2 DEF Json
<1>2. /\ Len(x.e) \in Nat /\ DOMAIN x.e = 1 .. Len(x.e)
      /\ \A i \in 1 .. Len(x.e) : Member(x, i) = x.e[i]
  BY <1>1, ArrayMember
<1>3. ItemsCount(d) = Len(x.e)
  BY DEF ItemsCount
<1>4. \A i \in Nat : i \in Keys /\ Append(Items, i) \in Seq(Keys)
  BY Objects DEF Keys
<1>5. \A i \in Nat : ValueAt(d, Append(Items, i)) = Member(x, i)
  BY <1>4, Objects, MemberIsReached
<1> HIDE DEF x
<1>6. \A i \in 1 .. Len(x.e) : i \in Nat
  BY <1>2
<1>7. QED
  BY <1>2, <1>3, <1>4, <1>5, <1>6, Zenon DEF x

LEMMA LinesTypedIs ==
    ASSUME NEW d \in Json, ValueAt(d, Items).tag = "array"
    PROVE  LinesTyped(ValueAt(d, Items))
               <=> \A i \in 1 .. ItemsCount(d) : ItemTyped(ValueAt(d, Append(Items, i)))
<1> DEFINE x == ValueAt(d, Items)
<1>1. /\ ItemsCount(d) = Len(x.e)
      /\ \A i \in 1 .. ItemsCount(d) : ValueAt(d, Append(Items, i)) = x.e[i]
  BY ItemsAre
<1>2. QED
  BY <1>1, Zenon DEF LinesTyped

LEMMA InvoiceTypedIs ==
    ASSUME NEW d \in Json
    PROVE  InvoiceTyped(ValueAt(d, Invoice)) <=>
               /\ Must(d, <<>>, {"invoice"}, "object")
               /\ Must(d, Invoice, {"number", "date", "place_of_supply", "supply_type",
                                    "classification", "hsn_string"}, "string")
               /\ May(d, Invoice, {"irn"}, "string")
               /\ Must(d, Invoice, {"irn_present"}, "boolean")
               /\ Must(d, Invoice, {"base_value", "total_value"}, "number")
               /\ LinesTyped(ValueAt(d, Items))
               /\ TaxTyped(ValueAt(d, Tax))
<1>1. /\ ValueAt(d, Invoice) = Member(d, "invoice")
      /\ ValueAt(d, Tax) = Member(ValueAt(d, Invoice), "tax_breakdown")
      /\ ValueAt(d, Items) = Member(ValueAt(d, Invoice), "line_items")
  BY Places, Zenon
<1>2. Must(d, <<>>, {"invoice"}, "object") <=> Member(d, "invoice").tag = "object"
  BY RootMember, Words, Zenon
<1>3. Typed(ValueAt(d, Invoice), "string", {"number", "date", "place_of_supply", "supply_type",
                                            "classification", "hsn_string"}, {"irn"})
          <=> /\ Must(d, Invoice, {"number", "date", "place_of_supply", "supply_type",
                                   "classification", "hsn_string"}, "string")
              /\ May(d, Invoice, {"irn"}, "string")
  BY TypedIs, Objects, NameSets, TypeNames, Zenon
<1>4. Typed(ValueAt(d, Invoice), "boolean", {"irn_present"}, {})
          <=> Must(d, Invoice, {"irn_present"}, "boolean") /\ May(d, Invoice, {}, "boolean")
  BY TypedIs, Objects, NameSets, TypeNames, Zenon
<1>5. Typed(ValueAt(d, Invoice), "number", {"base_value", "total_value"}, {})
          <=> Must(d, Invoice, {"base_value", "total_value"}, "number") /\ May(d, Invoice, {}, "number")
  BY TypedIs, Objects, NameSets, TypeNames, Zenon
<1>6. May(d, Invoice, {}, "boolean") /\ May(d, Invoice, {}, "number")
  BY Splits, Zenon
<1>7. QED
  BY <1>1, <1>2, <1>3, <1>4, <1>5, <1>6, Zenon DEF InvoiceTyped

-----------------------------------------------------------------------------
(* The two checks together *)

\* What the contract asks and the sanitizer does not.
Unsanitized(d) ==
    /\ May(d, <<>>, {"extraction_confidence"}, "object")
    /\ May(d, Invoice, {"irn"}, "string")
    /\ Must(d, Tax, {"total_tax"}, "money")
    /\ Must(d, Tax, {"has_cgst_sgst", "has_igst"}, "boolean")
    /\ May(d, Irp, {"acknowledgment_no"}, "string")
    /\ May(d, Confidence, {"overall_score"}, "number")
    /\ May(d, Confidence, {"warnings"}, "array")
    /\ LET warnings == ValueAt(d, Append(Confidence, "warnings")) IN
       warnings.tag = "array" => \A i \in DOMAIN warnings.e : warnings.e[i].tag = "string"

\* The members of the contract, split as the reads are.
LEMMA ContractSplits ==
    ASSUME NEW d
    PROVE  /\ Must(d, <<>>, {"supplier", "invoice"}, "object")
                  <=> Must(d, <<>>, {"supplier"}, "object") /\ Must(d, <<>>, {"invoice"}, "object")
           /\ May(d, <<>>, {"buyer", "irp", "extraction_confidence"}, "object")
                  <=> /\ May(d, <<>>, {"buyer"}, "object") /\ May(d, <<>>, {"irp"}, "object")
                      /\ May(d, <<>>, {"extraction_confidence"}, "object")
           /\ Must(d, Invoice, {"base_value", "total_value"}, "money")
                  <=> /\ Must(d, Invoice, {"base_value"}, "money")
                      /\ Must(d, Invoice, {"total_value"}, "money")
           /\ May(d, Tax, {"cgst", "sgst", "igst", "cess", "total_tax"}, "money")
                  <=> /\ May(d, Tax, {"cgst", "sgst", "igst", "cess"}, "money")
                      /\ May(d, Tax, {"total_tax"}, "money")
           /\ May(d, Irp, {"reported_on", "acknowledgment_no"}, "string")
                  <=> /\ May(d, Irp, {"reported_on"}, "string")
                      /\ May(d, Irp, {"acknowledgment_no"}, "string")
           /\ Must(d, Invoice, {"number", "date", "place_of_supply", "supply_type",
                                "classification", "hsn_string"}, "string")
                  <=> /\ Must(d, Invoice, {"number", "date", "place_of_supply", "hsn_string"}, "string")
                      /\ Must(d, Invoice, {"supply_type"}, "string")
                      /\ Must(d, Invoice, {"classification"}, "string")
<1>1. Must(d, <<>>, {"supplier", "invoice"}, "object")
          <=> Must(d, <<>>, {"supplier"}, "object") /\ Must(d, <<>>, {"invoice"}, "object")
  BY Zenon DEF Must, May
<1>2. May(d, <<>>, {"buyer", "irp", "extraction_confidence"}, "object")
          <=> /\ May(d, <<>>, {"buyer"}, "object") /\ May(d, <<>>, {"irp"}, "object")
              /\ May(d, <<>>, {"extraction_confidence"}, "object")
  BY Zenon DEF Must, May
<1>3. Must(d, Invoice, {"base_value", "total_value"}, "money")
          <=> Must(d, Invoice, {"base_value"}, "money") /\ Must(d, Invoice, {"total_value"}, "money")
  BY Zenon DEF Must, May
<1>4. May(d, Tax, {"cgst", "sgst", "igst", "cess", "total_tax"}, "money")
          <=> May(d, Tax, {"cgst", "sgst", "igst", "cess"}, "money") /\ May(d, Tax, {"total_tax"}, "money")
  BY Zenon DEF Must, May
<1>5. May(d, Irp, {"reported_on", "acknowledgment_no"}, "string")
          <=> May(d, Irp, {"reported_on"}, "string") /\ May(d, Irp, {"acknowledgment_no"}, "string")
  BY Zenon DEF Must, May
<1>6. Must(d, Invoice, {"number", "date", "place_of_supply", "supply_type",
                        "classification", "hsn_string"}, "string")
          <=> /\ Must(d, Invoice, {"number", "date", "place_of_supply", "hsn_string"}, "string")
              /\ Must(d, Invoice, {"supply_type"}, "string")
              /\ Must(d, Invoice, {"classification"}, "string")
  BY Zenon DEF Must, May
<1>7. QED
  BY <1>1, <1>2, <1>3, <1>4, <1>5, <1>6

\* An IRN is claimed where irn_present says so.
LEMMA IrnClaimed ==
    ASSUME NEW d \in Json, Must(d, Invoice, {"irn_present"}, "boolean")
    PROVE  AsksIrn(d) <=> ValueAt(d, Append(Invoice, "irn_present")).b
<1> DEFINE x == ValueAt(d, Append(Invoice, "irn_present"))
<1>1. Fits(x, "boolean")
  BY Zenon DEF Must
<1>2. x.tag = "boolean"
  BY <1>1, TypeFits
<1>3. x \in Json
  <2>1. ValueAt(d, Invoice) \in Json
    BY Places, Zenon
  <2>2. QED
    BY <2>1, MembersOf, Objects, Words, Zenon
<1> HIDE DEF x
<1>4. x \in Values
  BY <1>2, <1>3, AbsentIsNone DEF Json
<1>5. x.b \in BOOLEAN /\ x = Boolean(x.b)
  BY <1>2, <1>4, Tags
<1>6. x = Boolean(TRUE) => x.b
  BY DEF Boolean
<1>7. x = Boolean(TRUE) <=> x.b
  <2>1. x.b = TRUE \/ x.b = FALSE
    BY <1>5
  <2>2. x.b = TRUE => x = Boolean(TRUE)
    BY <1>5, Zenon
  <2>3. x.b = TRUE => x.b
    BY Zenon
  <2>4. x.b = FALSE => ~x.b
    BY Zenon
  <2>5. QED
    BY <1>6, <2>1, <2>2, <2>3, <2>4, Zenon
<1>8. QED
  BY <1>7 DEF AsksIrn, x

LEMMA ContractIs ==
    ASSUME NEW d \in Json
    PROVE  InContract(d) <=> Sane(d) /\ Unsanitized(d)
<1> DEFINE x == ValueAt(d, Items)
           lines == \A i \in DOMAIN x.e : ItemInContract(d, Append(Items, i))
           saneLines == \A i \in 1 .. ItemsCount(d) : ItemSane(d, Append(Items, i))
           irn == ValueAt(d, Append(Invoice, "irn_present")).b => Must(d, Invoice, {"irn"}, "string")
           saneIrn == AsksIrn(d) => Must(d, Invoice, {"irn"}, "string")
<1>1. Must(d, Invoice, {"line_items"}, "array") => (lines <=> saneLines)
  <2>1. SUFFICES ASSUME Must(d, Invoice, {"line_items"}, "array") PROVE lines <=> saneLines
    OBVIOUS
  <2>2. Must(d, Invoice, {"line_items"}, "array")
            <=> Member(ValueAt(d, Invoice), "line_items").tag = "array"
    <3>1. Invoice \in Seq(Keys) /\ "line_items" \in Names /\ "array" \in Types
      BY Objects, Words, TypeNames, Zenon
    <3>2. QED
      BY <3>1, OneMember, Zenon
  <2>3. x = Member(ValueAt(d, Invoice), "line_items")
    BY Places, Zenon
  <2>4. x.tag = "array"
    BY <2>1, <2>2, <2>3, Zenon
  <2>5. /\ DOMAIN x.e = 1 .. ItemsCount(d)
        /\ \A i \in 1 .. ItemsCount(d) : Append(Items, i) \in Seq(Keys)
    BY <2>4, ItemsAre, Zenon
  <2>6. \A i \in 1 .. ItemsCount(d) :
            ItemSane(d, Append(Items, i)) <=> ItemInContract(d, Append(Items, i))
    BY <2>5, ItemSaneIs, Zenon
  <2>7. QED
    BY <2>5, <2>6, Zenon
<1>2. Must(d, Invoice, {"irn_present"}, "boolean") => (irn <=> saneIrn)
  BY IrnClaimed, Zenon
<1>3. Must(d, Tax, {"total_tax"}, "money") => May(d, Tax, {"total_tax"}, "money")
  BY Zenon DEF Must, May
<1>4. SupplierSane(d) <=>
          /\ Must(d, <<>>, {"supplier"}, "object")
          /\ Must(d, Supplier, {"gstin", "name", "address_state"}, "string")
          /\ May(d, Supplier, {"aato_crore"}, "turnover")
  BY Zenon DEF SupplierSane
<1>5. BuyerSane(d) <=>
          /\ May(d, <<>>, {"buyer"}, "object")
          /\ May(d, Buyer, {"registered"}, "boolean")
          /\ May(d, Buyer, {"gstin", "name", "address_state"}, "string")
  BY Zenon DEF BuyerSane
<1>6. InvoiceSane(d) <=>
          /\ Must(d, <<>>, {"invoice"}, "object")
          /\ Must(d, Invoice, {"number", "date", "place_of_supply", "hsn_string"}, "string")
          /\ Must(d, Invoice, {"supply_type"}, "supply")
          /\ Must(d, Invoice, {"classification"}, "class")
          /\ Must(d, Invoice, {"irn_present"}, "boolean")
          /\ saneIrn
          /\ Must(d, Invoice, {"base_value"}, "money")
  BY Zenon DEF InvoiceSane
<1>7. LinesSane(d) <=> Must(d, Invoice, {"line_items"}, "array") /\ saneLines
  BY Zenon DEF LinesSane
<1>8. TaxSane(d) <=>
          /\ Must(d, Invoice, {"tax_breakdown"}, "object")
          /\ May(d, Tax, {"cgst", "sgst", "igst", "cess"}, "money")
          /\ May(d, Tax, {"total_tax"}, "money")
          /\ Must(d, Invoice, {"total_value"}, "money")
  BY ContractSplits, Zenon DEF TaxSane
<1>9. IrpSane(d) <=> May(d, <<>>, {"irp"}, "object") /\ May(d, Irp, {"reported_on"}, "string")
  BY Zenon DEF IrpSane
<1> DEFINE w == LET warnings == ValueAt(d, Append(Confidence, "warnings")) IN
                warnings.tag = "array" => \A i \in DOMAIN warnings.e : warnings.e[i].tag = "string"
<1>10. Unsanitized(d) <=>
          /\ May(d, <<>>, {"extraction_confidence"}, "object")
          /\ May(d, Invoice, {"irn"}, "string")
          /\ Must(d, Tax, {"total_tax"}, "money")
          /\ Must(d, Tax, {"has_cgst_sgst", "has_igst"}, "boolean")
          /\ May(d, Irp, {"acknowledgment_no"}, "string")
          /\ May(d, Confidence, {"overall_score"}, "number")
          /\ May(d, Confidence, {"warnings"}, "array")
          /\ w
  BY Zenon DEF Unsanitized
<1>11. InContract(d) <=>
          /\ Must(d, <<>>, {"supplier", "invoice"}, "object")
          /\ May(d, <<>>, {"buyer", "irp", "extraction_confidence"}, "object")
          /\ Must(d, Supplier, {"gstin", "name", "address_state"}, "string")
          /\ May(d, Supplier, {"aato_crore"}, "turnover")
          /\ May(d, Buyer, {"gstin", "name", "address_state"}, "string")
          /\ May(d, Buyer, {"registered"}, "boolean")
          /\ Must(d, Invoice, {"number", "date", "place_of_supply", "hsn_string"}, "string")
          /\ Must(d, Invoice, {"supply_type"}, "supply") /\ Must(d, Invoice, {"classification"}, "class")
          /\ Must(d, Invoice, {"irn_present"}, "boolean") /\ May(d, Invoice, {"irn"}, "string")
          /\ irn
          /\ Must(d, Invoice, {"base_value", "total_value"}, "money")
          /\ Must(d, Invoice, {"line_items"}, "array") /\ Must(d, Invoice, {"tax_breakdown"}, "object")
          /\ lines
          /\ Must(d, Tax, {"total_tax"}, "money") /\ May(d, Tax, {"cgst", "sgst", "igst", "cess"}, "money")
          /\ Must(d, Tax, {"has_cgst_sgst", "has_igst"}, "boolean")
          /\ May(d, Irp, {"reported_on", "acknowledgment_no"}, "string")
          /\ May(d, Confidence, {"overall_score"}, "number")
          /\ May(d, Confidence, {"warnings"}, "array")
          /\ w
  BY Zenon DEF InContract
<1>12. /\ Must(d, <<>>, {"supplier", "invoice"}, "object")
              <=> Must(d, <<>>, {"supplier"}, "object") /\ Must(d, <<>>, {"invoice"}, "object")
       /\ May(d, <<>>, {"buyer", "irp", "extraction_confidence"}, "object")
              <=> /\ May(d, <<>>, {"buyer"}, "object") /\ May(d, <<>>, {"irp"}, "object")
                  /\ May(d, <<>>, {"extraction_confidence"}, "object")
       /\ Must(d, Invoice, {"base_value", "total_value"}, "money")
              <=> /\ Must(d, Invoice, {"base_value"}, "money")
                  /\ Must(d, Invoice, {"total_value"}, "money")
       /\ May(d, Irp, {"reported_on", "acknowledgment_no"}, "string")
              <=> /\ May(d, Irp, {"reported_on"}, "string")
                  /\ May(d, Irp, {"acknowledgment_no"}, "string")
  BY ContractSplits, Zenon
<1> HIDE DEF lines, saneLines, irn, saneIrn, w, x
<1>13. ASSUME InContract(d) PROVE Sane(d) /\ Unsanitized(d)
  <2>1. SupplierSane(d)
    BY <1>4, <1>11, <1>12, <1>13, Zenon
  <2>2. BuyerSane(d)
    BY <1>5, <1>11, <1>12, <1>13, Zenon
  <2>3. InvoiceSane(d)
    BY <1>2, <1>6, <1>11, <1>12, <1>13, Zenon
  <2>4. LinesSane(d)
    BY <1>1, <1>7, <1>11, <1>13, Zenon
  <2>5. TaxSane(d)
    BY <1>3, <1>8, <1>11, <1>12, <1>13, Zenon
  <2>6. IrpSane(d)
    BY <1>9, <1>11, <1>12, <1>13, Zenon
  <2>7. Unsanitized(d)
    BY <1>10, <1>11, <1>12, <1>13, Zenon
  <2>8. QED
    BY <2>1, <2>2, <2>3, <2>4, <2>5, <2>6, <2>7, Zenon DEF Sane
<1>14. ASSUME Sane(d), Unsanitized(d) PROVE InContract(d)
  <2>1. /\ SupplierSane(d) /\ BuyerSane(d) /\ InvoiceSane(d) /\ LinesSane(d) /\ TaxSane(d)
        /\ IrpSane(d)
    BY <1>14, Zenon DEF Sane
  <2>2. /\ Must(d, <<>>, {"supplier", "invoice"}, "object")
        /\ May(d, <<>>, {"buyer", "irp", "extraction_confidence"}, "object")
        /\ Must(d, Invoice, {"base_value", "total_value"}, "money")
        /\ May(d, Irp, {"reported_on", "acknowledgment_no"}, "string")
    BY <1>4, <1>5, <1>6, <1>8, <1>9, <1>10, <1>12, <1>14, <2>1, Zenon
  <2>3. lines /\ irn
    BY <1>1, <1>2, <1>6, <1>7, <2>1, Zenon
  <2>4. QED
    BY <1>4, <1>5, <1>6, <1>7, <1>8, <1>10, <1>11, <1>14, <2>1, <2>2, <2>3, Zenon
<1>15. QED
  BY <1>13, <1>14

\* The two checks together are the contract.
LEMMA ChecksAreContract ==
    ASSUME NEW d \in Values, d.tag = "object"
    PROVE  InContract(d) <=> Conforms(d) /\ Sane(d)
<1>1. d \in Json
  BY DEF Json
<1> DEFINE w == LET warnings == ValueAt(d, Append(Confidence, "warnings")) IN
                warnings.tag = "array" => \A i \in DOMAIN warnings.e : warnings.e[i].tag = "string"
<1>2. Walked(d) <=>
          /\ SupplierTyped(Member(d, "supplier"))
          /\ Member(d, "buyer") = Absent \/ BuyerTyped(Member(d, "buyer"))
          /\ InvoiceTyped(Member(d, "invoice"))
          /\ Member(d, "irp") = Absent \/ IrpTyped(Member(d, "irp"))
          /\ Member(d, "extraction_confidence") = Absent
             \/ ConfidenceTyped(Member(d, "extraction_confidence"))
  BY Zenon DEF Walked
<1>3. ASSUME Sane(d) PROVE Walked(d) <=> Unsanitized(d)
  <2>1. /\ SupplierSane(d) /\ BuyerSane(d) /\ InvoiceSane(d) /\ LinesSane(d) /\ TaxSane(d)
        /\ IrpSane(d)
    BY <1>3, Zenon DEF Sane
  <2>2. SupplierTyped(Member(d, "supplier"))
    BY <1>1, <2>1, SupplierTypedIs, MustTypes, Zenon DEF SupplierSane
  <2>3. Member(d, "buyer") = Absent \/ BuyerTyped(Member(d, "buyer"))
    BY <1>1, <2>1, BuyerTypedIs, Zenon DEF BuyerSane
  <2>4. (Member(d, "irp") = Absent \/ IrpTyped(Member(d, "irp")))
            <=> May(d, Irp, {"acknowledgment_no"}, "string")
    <3>1. May(d, <<>>, {"irp"}, "object") /\ May(d, Irp, {"reported_on"}, "string")
      BY <2>1, Zenon DEF IrpSane
    <3>2. May(d, Irp, {"reported_on", "acknowledgment_no"}, "string")
              <=> /\ May(d, Irp, {"reported_on"}, "string")
                  /\ May(d, Irp, {"acknowledgment_no"}, "string")
      BY ContractSplits, Zenon
    <3>3. QED
      BY <1>1, <3>1, <3>2, IrpTypedIs, Zenon
  <2>5. (Member(d, "extraction_confidence") = Absent
         \/ ConfidenceTyped(Member(d, "extraction_confidence"))) <=>
            /\ May(d, <<>>, {"extraction_confidence"}, "object")
            /\ May(d, Confidence, {"overall_score"}, "number")
            /\ May(d, Confidence, {"warnings"}, "array")
            /\ w
    BY <1>1, ConfidenceTypedIs, Zenon
  <2>6. TaxTyped(ValueAt(d, Tax)) <=>
            /\ Must(d, Tax, {"total_tax"}, "money")
            /\ Must(d, Tax, {"has_cgst_sgst", "has_igst"}, "boolean")
    <3>1. /\ Must(d, Invoice, {"tax_breakdown"}, "object")
          /\ May(d, Tax, {"cgst", "sgst", "igst", "cess"}, "money")
          /\ May(d, Tax, {"total_tax"}, "money")
      BY <2>1, ContractSplits, Zenon DEF TaxSane
    <3>2. May(d, Tax, {"cgst", "sgst", "igst", "cess"}, "number")
      BY <3>1, MustTypes, Zenon
    <3>3. Must(d, Tax, {"total_tax"}, "money") => Must(d, Tax, {"total_tax"}, "number")
      BY MustTypes, Zenon
    <3>4. ASSUME Must(d, Tax, {"total_tax"}, "number") PROVE Must(d, Tax, {"total_tax"}, "money")
      <4> DEFINE x == ValueAt(d, Append(Tax, "total_tax"))
      <4>1. Fits(x, "number")
        BY <3>4, Zenon DEF Must
      <4>2. x = Absent \/ Fits(x, "money")
        BY <3>1, Zenon DEF May
      <4>3. "number" \in Whats
        BY Words, Zenon
      <4>4. Fits(x, "money")
        BY <4>1, <4>2, <4>3, AbsentFitsNothing, Zenon
      <4>5. QED
        BY <4>4, Zenon DEF Must
    <3>5. QED
      BY <1>1, <3>1, <3>2, <3>3, <3>4, TaxTypedIs, Zenon
  <2>7. LinesTyped(ValueAt(d, Items))
    <3>1. ValueAt(d, Items).tag = "array"
      <4>1. Invoice \in Seq(Keys) /\ "line_items" \in Names /\ "array" \in Types
        BY Objects, Words, TypeNames, Zenon
      <4>2. Must(d, Invoice, {"line_items"}, "array")
                <=> Member(ValueAt(d, Invoice), "line_items").tag = "array"
        BY <4>1, OneMember, Zenon
      <4>3. ValueAt(d, Items) = Member(ValueAt(d, Invoice), "line_items")
        BY <1>1, Places, Zenon
      <4>4. Must(d, Invoice, {"line_items"}, "array")
        BY <2>1, Zenon DEF LinesSane
      <4>5. QED
        BY <4>2, <4>3, <4>4, Zenon
    <3>2. \A i \in 1 .. ItemsCount(d) :
              Append(Items, i) \in Seq(Keys) /\ ItemSane(d, Append(Items, i))
      BY <1>1, <2>1, <3>1, ItemsAre, Zenon DEF LinesSane
    <3>3. \A i \in 1 .. ItemsCount(d) : ItemTyped(ValueAt(d, Append(Items, i)))
      BY <3>2, ItemSaneIs, Zenon
    <3>4. QED
      BY <1>1, <3>1, <3>3, LinesTypedIs, Zenon
  <2>8. InvoiceTyped(Member(d, "invoice"))
            <=> May(d, Invoice, {"irn"}, "string") /\ TaxTyped(ValueAt(d, Tax))
    <3>1. ValueAt(d, Invoice) = Member(d, "invoice")
      BY <1>1, Places, Zenon
    <3>2. /\ Must(d, <<>>, {"invoice"}, "object")
          /\ Must(d, Invoice, {"number", "date", "place_of_supply", "hsn_string"}, "string")
          /\ Must(d, Invoice, {"supply_type"}, "supply")
          /\ Must(d, Invoice, {"classification"}, "class")
          /\ Must(d, Invoice, {"irn_present"}, "boolean")
          /\ Must(d, Invoice, {"base_value"}, "money")
      BY <2>1, Zenon DEF InvoiceSane
    <3>3. Must(d, Invoice, {"total_value"}, "money")
      BY <2>1, Zenon DEF TaxSane
    <3>4. Must(d, Invoice, {"supply_type"}, "string") /\ Must(d, Invoice, {"classification"}, "string")
      BY <3>2, MustTypes, Zenon
    <3>5. Must(d, Invoice, {"number", "date", "place_of_supply", "supply_type",
                            "classification", "hsn_string"}, "string")
      BY <3>2, <3>4, ContractSplits, Zenon
    <3>6. Must(d, Invoice, {"base_value", "total_value"}, "number")
      <4>1. Must(d, Invoice, {"base_value", "total_value"}, "money")
        BY <3>2, <3>3, ContractSplits, Zenon
      <4>2. QED
        BY <4>1, MustTypes, Zenon
    <3>7. InvoiceTyped(ValueAt(d, Invoice))
              <=> May(d, Invoice, {"irn"}, "string") /\ TaxTyped(ValueAt(d, Tax))
      BY <1>1, <2>7, <3>2, <3>5, <3>6, InvoiceTypedIs, Zenon
    <3>8. QED
      BY <3>1, <3>7, Zenon
  <2> DEFINE q == TaxTyped(ValueAt(d, Tax))
             c == \/ Member(d, "extraction_confidence") = Absent
                  \/ ConfidenceTyped(Member(d, "extraction_confidence"))
             r == Member(d, "irp") = Absent \/ IrpTyped(Member(d, "irp"))
  <2>9. Unsanitized(d) <=>
            /\ May(d, <<>>, {"extraction_confidence"}, "object")
            /\ May(d, Invoice, {"irn"}, "string")
            /\ Must(d, Tax, {"total_tax"}, "money")
            /\ Must(d, Tax, {"has_cgst_sgst", "has_igst"}, "boolean")
            /\ May(d, Irp, {"acknowledgment_no"}, "string")
            /\ May(d, Confidence, {"overall_score"}, "number")
            /\ May(d, Confidence, {"warnings"}, "array")
            /\ w
    BY Zenon DEF Unsanitized
  <2> HIDE DEF w
  <2>10. Walked(d) <=> /\ May(d, Invoice, {"irn"}, "string") /\ q
                       /\ r /\ c
    BY <1>2, <2>2, <2>3, <2>8, Zenon
  <2> HIDE DEF q, c, r
  <2>11. q <=> /\ Must(d, Tax, {"total_tax"}, "money")
               /\ Must(d, Tax, {"has_cgst_sgst", "has_igst"}, "boolean")
    BY <2>6, Zenon DEF q
  <2>12. r <=> May(d, Irp, {"acknowledgment_no"}, "string")
    BY <2>4, Zenon DEF r
  <2>13. c <=> /\ May(d, <<>>, {"extraction_confidence"}, "object")
               /\ May(d, Confidence, {"overall_score"}, "number")
               /\ May(d, Confidence, {"warnings"}, "array")
               /\ w
    BY <2>5, Zenon DEF c
  <2>14. QED
    BY <2>9, <2>10, <2>11, <2>12, <2>13, Zenon
<1>4. InContract(d) <=> Sane(d) /\ Unsanitized(d)
  BY <1>1, ContractIs, Zenon
<1>5. Conforms(d) <=> Walked(d)
  BY WalkIs, Zenon
<1>6. QED
  BY <1>3, <1>4, <1>5, Zenon

LEMMA MustHas ==
    ASSUME NEW d, NEW p, NEW keys, NEW what \in Whats, Must(d, p, keys, what)
    PROVE  Has(d, p, keys)
  BY AbsentFitsNothing, Zenon DEF Must, Has

\* What the walk has seen, json::at() finds.
LEMMA WalkFinds ==
    ASSUME NEW d \in Values, Conforms(d)
    PROVE  d.tag = "object" /\ Found(d)
<1>1. d \in Json
  BY DEF Json
<1>2. d.tag = "object" /\ SupplierTyped(Member(d, "supplier")) /\ InvoiceTyped(Member(d, "invoice"))
  BY WalkIs, Zenon DEF Walked
<1>3. Must(d, Supplier, {"gstin", "name", "address_state"}, "string")
  BY <1>1, <1>2, SupplierTypedIs, Zenon
<1>4. ValueAt(d, Invoice) = Member(d, "invoice")
  BY <1>1, Places, Zenon
<1>5. /\ Must(d, Invoice, {"number", "date", "place_of_supply", "supply_type",
                           "classification", "hsn_string"}, "string")
      /\ LinesTyped(ValueAt(d, Items))
  BY <1>1, <1>2, <1>4, InvoiceTypedIs, Zenon
<1>6. /\ Must(d, Invoice, {"number", "date", "place_of_supply", "hsn_string"}, "string")
      /\ Must(d, Invoice, {"supply_type"}, "string")
      /\ Must(d, Invoice, {"classification"}, "string")
  BY <1>5, ContractSplits, Zenon
<1>7. "string" \in Whats /\ "number" \in Whats
  BY Words, Zenon
<1>8. /\ Has(d, Supplier, {"gstin", "name", "address_state"})
      /\ Has(d, Invoice, {"number", "date", "place_of_supply", "hsn_string"})
      /\ Has(d, Invoice, {"supply_type"}) /\ Has(d, Invoice, {"classification"})
  BY <1>3, <1>6, <1>7, MustHas, Zenon
<1>9. ValueAt(d, Items).tag = "array"
  BY <1>5, Zenon DEF LinesTyped
<1>10. \A i \in 1 .. ItemsCount(d) :
           Append(Items, i) \in Seq(Keys) /\ ItemTyped(ValueAt(d, Append(Items, i)))
  BY <1>1, <1>5, <1>9, ItemsAre, LinesTypedIs, Zenon
<1>11. \A i \in 1 .. ItemsCount(d) :
           /\ Must(d, Append(Items, i), {"hsn"}, "string")
           /\ Must(d, Append(Items, i), {"base_value", "tax_rate"}, "number")
  BY <1>10, ItemTypedIs, Zenon
<1>12. \A i \in 1 .. ItemsCount(d) :
           /\ Has(d, Append(Items, i), {"hsn"})
           /\ Has(d, Append(Items, i), {"base_value", "tax_rate"})
  BY <1>7, <1>11, MustHas, Zenon
<1>13. \A item : Has(d, item, {"base_value", "tax_rate"})
                     => Has(d, item, {"base_value"}) /\ Has(d, item, {"tax_rate"})
  BY Zenon DEF Has
<1>14. QED
  BY <1>2, <1>8, <1>12, <1>13, Zenon DEF Found

-----------------------------------------------------------------------------
(* The document of MockExtractor *)

LEMMA TypedObject ==
    ASSUME NEW m, NEW type, NEW must, NEW may,
           \A key \in must \cup may : key \in DOMAIN m /\ m[key].tag = type
    PROVE  Object(m).tag = "object" /\ Typed(Object(m), type, must, may)
<1>1. Object(m).tag = "object" /\ Object(m).m = m
  BY DEF Object
<1>2. \A key \in DOMAIN m : Member(Object(m), key) = m[key]
  BY <1>1 DEF Member
<1>3. QED
  BY <1>1, <1>2, Zenon DEF Typed

LEMMA MemberOfObject ==
    ASSUME NEW m, NEW key \in DOMAIN m
    PROVE  Member(Object(m), key) = m[key]
<1>1. Object(m).tag = "object" /\ Object(m).m = m
  BY DEF Object
<1>2. QED
  BY <1>1 DEF Member

LEMMA ValueTags ==
    /\ \A s : String(s).tag = "string"
    /\ \A r : Number(r).tag = "number"
    /\ \A b : Boolean(b).tag = "boolean"
  BY DEF String, Number, Boolean

LEMMA DefaultSections ==
    /\ SupplierTyped(Object(Text({"gstin", "name", "address_state"})
                            ++ [aato_crore |-> Number("positive")]))
    /\ BuyerTyped(Object(Text({"gstin", "name", "address_state"})
                         ++ [registered |-> Boolean(TRUE)]))
    /\ IrpTyped(Object(Text({"reported_on", "acknowledgment_no"})))
    /\ ConfidenceTyped(Object([overall_score |-> Number("positive"), warnings |-> Array(<<>>)]))
<1> DEFINE a == {"gstin", "name", "address_state"}
           f == Text(a)
           g == [aato_crore |-> Number("positive")]
           h == [registered |-> Boolean(TRUE)]
           k == Text({"reported_on", "acknowledgment_no"})
           c == [overall_score |-> Number("positive"), warnings |-> Array(<<>>)]
<1>1. /\ DOMAIN f = a /\ DOMAIN g = {"aato_crore"} /\ DOMAIN h = {"registered"}
      /\ a \cap {"aato_crore", "registered"} = {}
  BY DEF Text
<1>2. (\A key \in a : f[key].tag = "string") /\ g["aato_crore"].tag = "number"
      /\ h["registered"].tag = "boolean"
  BY ValueTags DEF Text
<1> HIDE DEF f, g, h
<1>3. /\ \A key \in a : key \in DOMAIN (f ++ g) /\ (f ++ g)[key].tag = "string"
      /\ "aato_crore" \in DOMAIN (f ++ g) /\ (f ++ g)["aato_crore"].tag = "number"
  <2>1. DOMAIN (f ++ g) = DOMAIN f \cup DOMAIN g
    BY Joined
  <2>2. /\ \A key \in DOMAIN f : (f ++ g)[key] = f[key]
        /\ \A key \in DOMAIN g \ DOMAIN f : (f ++ g)[key] = g[key]
    BY Joined
  <2>3. "aato_crore" \in DOMAIN g \ DOMAIN f
    BY <1>1
  <2> HIDE DEF a
  <2>4. QED
    BY <1>1, <1>2, <2>1, <2>2, <2>3, Zenon
<1>4. /\ \A key \in a : key \in DOMAIN (f ++ h) /\ (f ++ h)[key].tag = "string"
      /\ "registered" \in DOMAIN (f ++ h) /\ (f ++ h)["registered"].tag = "boolean"
  <2>1. DOMAIN (f ++ h) = DOMAIN f \cup DOMAIN h
    BY Joined
  <2>2. /\ \A key \in DOMAIN f : (f ++ h)[key] = f[key]
        /\ \A key \in DOMAIN h \ DOMAIN f : (f ++ h)[key] = h[key]
    BY Joined
  <2>3. "registered" \in DOMAIN h \ DOMAIN f
    BY <1>1
  <2> HIDE DEF a
  <2>4. QED
    BY <1>1, <1>2, <2>1, <2>2, <2>3, Zenon
<1>5. SupplierTyped(Object(f ++ g))
  BY <1>3, TypedObject DEF SupplierTyped
<1>6. BuyerTyped(Object(f ++ h))
  BY <1>4, TypedObject DEF BuyerTyped
<1>7. IrpTyped(Object(k))
  BY TypedObject, ValueTags DEF IrpTyped, Text
<1>8. ConfidenceTyped(Object(c))
  <2>1. /\ "overall_score" \in DOMAIN c /\ c["overall_score"].tag = "number"
        /\ "warnings" \in DOMAIN c /\ c["warnings"] = Array(<<>>)
    BY ValueTags
  <2> HIDE DEF c
  <2>2. Object(c).tag = "object" /\ Typed(Object(c), "number", {}, {"overall_score"})
    BY <2>1, TypedObject
  <2>3. Member(Object(c), "warnings") = Array(<<>>)
    BY <2>1, MemberOfObject
  <2>4. WarningsTyped(Array(<<>>))
    <3>1. Array(<<>>).tag = "array" /\ Array(<<>>).e = <<>>
      BY DEF Array
    <3>2. 1 .. Len(<<>>) = {}
      OBVIOUS
    <3>3. QED
      BY <3>1, <3>2, Zenon DEF WarningsTyped
  <2>5. QED
    BY <2>2, <2>3, <2>4, Zenon DEF ConfidenceTyped
<1>9. QED
  BY <1>5, <1>6, <1>7, <1>8 DEF f, g, h

LEMMA DefaultTaxTyped == TaxTyped(DefaultTax)
<1> DEFINE m == [cgst |-> Number("zero"), sgst |-> Number("zero"), cess |-> Number("zero"),
                 igst |-> Number("positive"), total_tax |-> Number("positive"),
                 has_cgst_sgst |-> Boolean(FALSE), has_igst |-> Boolean(TRUE)]
<1>1. \A key \in {"total_tax", "cgst", "sgst", "igst", "cess"} :
          key \in DOMAIN m /\ m[key].tag = "number"
  BY ValueTags
<1>2. \A key \in {"has_cgst_sgst", "has_igst"} : key \in DOMAIN m /\ m[key].tag = "boolean"
  <2>1. /\ "has_cgst_sgst" \in DOMAIN m /\ m["has_cgst_sgst"] = Boolean(FALSE)
        /\ "has_igst" \in DOMAIN m /\ m["has_igst"] = Boolean(TRUE)
    OBVIOUS
  <2> HIDE DEF m
  <2>2. QED
    BY <2>1, ValueTags
<1>3. DefaultTax = Object(m)
  BY Zenon DEF DefaultTax
<1> HIDE DEF m
<1>4. /\ Object(m).tag = "object"
      /\ Typed(Object(m), "number", {"total_tax"}, {"cgst", "sgst", "igst", "cess"})
  BY <1>1, TypedObject
<1>5. Typed(Object(m), "boolean", {"has_cgst_sgst", "has_igst"}, {})
  BY <1>2, TypedObject
<1>6. QED
  BY <1>3, <1>4, <1>5, Zenon DEF TaxTyped

LEMMA DefaultItemTyped == ItemTyped(DefaultItem)
<1> DEFINE a == {"hsn", "description"}
           b == {"quantity", "unit_price", "base_value", "tax_rate"}
           f == Text(a)
           g == [key \in b |-> Number("positive")]
<1>1. /\ DOMAIN f = a /\ DOMAIN g = b /\ b \cap a = {}
      /\ (\A key \in a : f[key].tag = "string") /\ (\A key \in b : g[key].tag = "number")
  BY ValueTags DEF Text
<1>2. DefaultItem = Object(f ++ g)
  BY Zenon DEF DefaultItem
<1> HIDE DEF f, g
<1>3. DOMAIN (f ++ g) = DOMAIN f \cup DOMAIN g
  BY Joined
<1>4. /\ \A key \in DOMAIN f : (f ++ g)[key] = f[key]
      /\ \A key \in DOMAIN g \ DOMAIN f : (f ++ g)[key] = g[key]
  BY Joined
<1>5. \A key \in b : key \in DOMAIN g \ DOMAIN f
  BY <1>1
<1>6. \A key \in {"hsn"} \cup {"description"} : key \in a
  OBVIOUS
<1>7. \A key \in {"base_value", "tax_rate"} \cup {"quantity", "unit_price"} : key \in b
  OBVIOUS
<1> DEFINE m == f ++ g
<1> HIDE DEF a, b
<1>8. /\ \A key \in a : key \in DOMAIN m /\ m[key].tag = "string"
      /\ \A key \in b : key \in DOMAIN m /\ m[key].tag = "number"
  BY <1>1, <1>3, <1>4, <1>5, Zenon
<1> HIDE DEF m
<1>9. /\ Object(m).tag = "object"
      /\ Typed(Object(m), "string", {"hsn"}, {"description"})
  BY <1>6, <1>8, TypedObject, Zenon
<1>10. Typed(Object(m), "number", {"base_value", "tax_rate"}, {"quantity", "unit_price"})
  BY <1>7, <1>8, TypedObject, Zenon
<1>11. QED
  BY <1>2, <1>9, <1>10, Zenon DEF ItemTyped, m

LEMMA DefaultInvoiceTyped == InvoiceTyped(DefaultInvoice)
<1> DEFINE a == {"number", "date", "place_of_supply", "irn", "hsn_string"}
           f == Text(a)
           g == [supply_type |-> String("INTER"), classification |-> String("B2B"),
                 irn_present |-> Boolean(TRUE),
                 base_value |-> Number("positive"), total_value |-> Number("positive"),
                 line_items |-> Array(<<DefaultItem>>), tax_breakdown |-> DefaultTax]
           m == f ++ g
<1>1. DOMAIN f = a /\ \A key \in a : f[key].tag = "string"
  BY ValueTags DEF Text
<1>2. /\ DOMAIN g = {"supply_type", "classification", "irn_present", "base_value", "total_value",
                     "line_items", "tax_breakdown"}
      /\ g["line_items"] = Array(<<DefaultItem>>) /\ g["tax_breakdown"] = DefaultTax
  OBVIOUS
<1>3. /\ g["supply_type"].tag = "string" /\ g["classification"].tag = "string"
      /\ g["irn_present"].tag = "boolean"
      /\ g["base_value"].tag = "number" /\ g["total_value"].tag = "number"
  BY ValueTags
<1>4. \A key \in DOMAIN g : key \notin a
  BY <1>2
<1>5. DefaultInvoice = Object(m)
  BY Zenon DEF DefaultInvoice
<1> HIDE DEF f, g
<1>6. DOMAIN m = DOMAIN f \cup DOMAIN g
  BY Joined
<1>7. /\ \A key \in DOMAIN f : m[key] = f[key]
      /\ \A key \in DOMAIN g \ DOMAIN f : m[key] = g[key]
  BY Joined
<1> HIDE DEF m
<1>8. \A key \in a : key \in DOMAIN m /\ m[key].tag = "string"
  <2> HIDE DEF a
  <2>1. QED
    BY <1>1, <1>6, <1>7, Zenon
<1>9. \A key \in DOMAIN g : key \in DOMAIN m /\ m[key] = g[key]
  <2> HIDE DEF a
  <2>1. QED
    BY <1>1, <1>4, <1>6, <1>7, Zenon
<1>10. \A key \in {"number", "date", "place_of_supply", "supply_type", "classification", "hsn_string"}
                  \cup {"irn"} : key \in DOMAIN m /\ m[key].tag = "string"
  BY <1>2, <1>3, <1>8, <1>9
<1>11. \A key \in {"irn_present"} \cup {} : key \in DOMAIN m /\ m[key].tag = "boolean"
  BY <1>2, <1>3, <1>9
<1>12. \A key \in {"base_value", "total_value"} \cup {} : key \in DOMAIN m /\ m[key].tag = "number"
  BY <1>2, <1>3, <1>9
<1>13. /\ Object(m).tag = "object"
       /\ Typed(Object(m), "string", {"number", "date", "place_of_supply", "supply_type",
                                      "classification", "hsn_string"}, {"irn"})
  BY <1>10, TypedObject, Zenon
<1>14. Typed(Object(m), "boolean", {"irn_present"}, {})
  BY <1>11, TypedObject, Zenon
<1>15. Typed(Object(m), "number", {"base_value", "total_value"}, {})
  BY <1>12, TypedObject, Zenon
<1>16. /\ "line_items" \in DOMAIN m /\ m["line_items"] = Array(<<DefaultItem>>)
       /\ "tax_breakdown" \in DOMAIN m /\ m["tax_breakdown"] = DefaultTax
  BY <1>2, <1>9
<1>17. /\ Member(Object(m), "line_items") = Array(<<DefaultItem>>)
       /\ Member(Object(m), "tax_breakdown") = DefaultTax
  BY <1>16, MemberOfObject
<1>18. LinesTyped(Array(<<DefaultItem>>))
  <2> DEFINE s == <<DefaultItem>>
  <2>1. Array(s).tag = "array" /\ Array(s).e = s
    BY DEF Array
  <2>2. Len(s) = 1 /\ s[1] = DefaultItem /\ 1 .. 1 = {1}
    OBVIOUS
  <2> HIDE DEF s
  <2>3. LinesTyped(Array(s))
    BY <2>1, <2>2, DefaultItemTyped, Zenon DEF LinesTyped
  <2>4. QED
    BY <2>3, Zenon DEF s
<1>19. QED
  BY <1>5, <1>13, <1>14, <1>15, <1>17, <1>18, DefaultTaxTyped, Zenon DEF InvoiceTyped

\* The sanitizer gets a document that the walk would pass from MockExtractor, too.
LEMMA DefaultConforms == DefaultDocument \in Values /\ Conforms(DefaultDocument)
<1> DEFINE s == Object(Text({"gstin", "name", "address_state"})
                       ++ [aato_crore |-> Number("positive")])
           b == Object(Text({"gstin", "name", "address_state"}) ++ [registered |-> Boolean(TRUE)])
           i == Object(Text({"reported_on", "acknowledgment_no"}))
           c == Object([overall_score |-> Number("positive"), warnings |-> Array(<<>>)])
           m == [supplier |-> s, buyer |-> b, invoice |-> DefaultInvoice, irp |-> i,
                 extraction_confidence |-> c]
<1>1. SupplierTyped(s) /\ BuyerTyped(b) /\ IrpTyped(i) /\ ConfidenceTyped(c)
  BY DefaultSections, Zenon
<1>2. DefaultDocument = Object(m)
  BY Zenon DEF DefaultDocument
<1> HIDE DEF s, b, i, c
<1>3. /\ "supplier" \in DOMAIN m /\ "buyer" \in DOMAIN m /\ "invoice" \in DOMAIN m
      /\ "irp" \in DOMAIN m /\ "extraction_confidence" \in DOMAIN m
      /\ m["supplier"] = s /\ m["buyer"] = b /\ m["invoice"] = DefaultInvoice /\ m["irp"] = i
      /\ m["extraction_confidence"] = c
  OBVIOUS
<1> HIDE DEF m
<1>4. /\ Member(Object(m), "supplier") = s /\ Member(Object(m), "buyer") = b
      /\ Member(Object(m), "invoice") = DefaultInvoice /\ Member(Object(m), "irp") = i
      /\ Member(Object(m), "extraction_confidence") = c
  BY <1>3, MemberOfObject
<1>5. Object(m).tag = "object"
  BY DEF Object
<1>6. Walked(DefaultDocument)
  BY <1>1, <1>2, <1>4, <1>5, DefaultInvoiceTyped, Zenon DEF Walked
<1>7. DefaultDocument \in Values
  BY ValuesAssumption
<1>8. QED
  BY <1>6, <1>7, WalkIs, Zenon

-----------------------------------------------------------------------------
(* The checks at work *)

\* What there is, of an answer and of a document, at each step.
DocumentOK ==
    /\ reply.doc \in Documents \cup {Absent}
    /\ doc # Absent => doc \in Values /\ doc.tag = "object"
    /\ step = "sanitize" => Conforms(doc)

\* Nothing is in the contract where there is no document.
LEMMA AbsentIsOutside == ~InContract(Absent)
<1>1. Absent \in Json
  BY DEF Json
<1>2. Member(Absent, "supplier") = Absent
  BY AbsentIsNone DEF Member
<1>3. ~Must(Absent, <<>>, {"supplier"}, "object")
  BY <1>2, RootMember, Words, AbsentIsNone
<1>4. ~SupplierSane(Absent)
  BY <1>3, Zenon DEF SupplierSane
<1>5. QED
  BY <1>1, <1>4, ContractIs, Zenon DEF Sane

LEMMA DocumentInit == Init => DocumentOK
<1>1. SUFFICES ASSUME Init PROVE DocumentOK
  OBVIOUS
<1>2. reply.doc = Absent
  BY <1>1 DEF Init, NoReply, Reply
<1>3. CASE extractor = "mock"
  <2>1. step = "sanitize" /\ doc = DefaultDocument
    BY <1>1, <1>3 DEF Init
  <2>2. DefaultDocument.tag = "object"
    BY DefaultConforms, WalkFinds, Zenon
  <2>3. QED
    BY <1>2, <2>1, <2>2, DefaultConforms DEF DocumentOK
<1>4. CASE extractor # "mock"
  BY <1>1, <1>2, <1>4 DEF Init, DocumentOK
<1>5. QED
  BY <1>3, <1>4

LEMMA DocumentStep == ASSUME TypeOK, DocumentOK, [Next]_vars PROVE DocumentOK'
<1>1. Requesting => step # "sanitize" /\ doc = Absent
  BY PhasesAreSteps DEF Requesting, TypeOK
<1>2. ASSUME NEW r, Ends(r) PROVE DocumentOK'
  BY <1>2 DEF Ends, DocumentOK
<1>3. CASE Tick
  BY <1>3 DEF Tick, DocumentOK
<1>4. CASE Proceeds
  <2>1. step' \in Range(Phases)
    BY <1>4, PhasesAreSteps DEF Proceeds
  <2>2. QED
    BY <1>4, <2>1, PhasesAreSteps DEF Proceeds, DocumentOK
<1>5. CASE Receives
  BY <1>5 DEF Receives, DocumentOK
<1>6. CASE RequestFails \/ HttpError \/ Unparsed
  BY <1>2, <1>6 DEF RequestFails, HttpError, Unparsed
<1>7. CASE Answered
  <2>1. reply'.doc \in Documents \cup {Absent}
    BY <1>7 DEF Answered, Reply
  <2>2. QED
    BY <1>7, <2>1 DEF Answered, DocumentOK
<1>8. CASE HttpSuccess
  BY <1>8 DEF HttpSuccess, DocumentOK
<1>9. CASE Parsed
  <2>1. doc' = reply.doc /\ step' = "schema" /\ reply' = NoReply /\ reply.doc \in Documents
    BY <1>9 DEF Parsed, DocumentOK
  <2>2. reply'.doc = Absent
    BY <2>1 DEF NoReply, Reply
  <2>3. doc' \in Values /\ doc'.tag = "object"
    BY <2>1, ValuesAssumption
  <2>4. QED
    BY <2>1, <2>2, <2>3 DEF DocumentOK
<1>10. CASE SchemaChecked
  <2>1. CASE Conforms(doc)
    <3>1. step' = "sanitize" /\ UNCHANGED <<reply, doc>>
      BY <1>10, <2>1 DEF SchemaChecked
    <3>2. Conforms(doc)'
      BY <2>1, <3>1
    <3>3. QED
      BY <3>1, <3>2 DEF DocumentOK
  <2>2. CASE ~Conforms(doc)
    BY <1>2, <1>10, <2>2 DEF SchemaChecked
  <2>3. QED
    BY <2>1, <2>2
<1>11. CASE SanitizerRuns
  BY <1>2, <1>11 DEF SanitizerRuns
<1>12. CASE UNCHANGED vars
  BY <1>12 DEF vars, DocumentOK
<1>13. QED
  BY <1>3, <1>4, <1>5, <1>6, <1>7, <1>8, <1>9, <1>10, <1>11, <1>12 DEF Next, Transport, Checks

\* The sanitizer never throws json::out_of_range, and lets through what the contract does.
LEMMA SanitizerEnds ==
    ASSUME TypeOK, DocumentOK, SanitizerRuns
    PROVE  outcome' # "escaped" /\ (outcome' = "accepted" <=> InContract(doc))
<1>1. doc \in Values /\ doc.tag = "object" /\ Conforms(doc)
  BY DEF TypeOK, DocumentOK, SanitizerRuns
<1> DEFINE result == Sanitized(doc, SanitizerReads(doc))
<1>2. Ends(CASE result = "accepted"         -> "accepted"
             [] result = "invalid_argument" -> "contract"
             [] result = "out_of_range"     -> "escaped")
  BY Zenon DEF SanitizerRuns
<1>3. doc \in Json
  BY <1>1 DEF Json
<1>4. Found(doc)
  BY <1>1, WalkFinds, Zenon
<1>5. result = "accepted" <=> InContract(doc)
  BY <1>1, <1>3, SanitizerDecides, ChecksAreContract, Zenon
<1>6. result # "out_of_range"
  BY <1>1, <1>3, <1>4, SanitizerDecides, Zenon
<1>7. result \in {"accepted", "out_of_range", "invalid_argument"}
  BY SanitizerThrowsTwoWays
<1> HIDE DEF result
<1>8. outcome' = IF result = "accepted" THEN "accepted" ELSE "contract"
  BY <1>2, <1>6, <1>7 DEF Ends
<1>9. QED
  BY <1>5, <1>8

LEMMA AcceptedStep ==
    ASSUME TypeOK, DocumentOK, AcceptedInContract, NoEscape, [Next]_vars
    PROVE  AcceptedInContract' /\ NoEscape'
<1>1. Requesting => step # "done" /\ doc = Absent /\ outcome = "none"
  BY PhasesAreSteps DEF Requesting, TypeOK
<1>2. ASSUME Ends("extraction failed"), ~InContract(doc) PROVE AcceptedInContract' /\ NoEscape'
  <2>1. step' = "done" /\ outcome' = "extraction failed" /\ doc' = doc
    BY <1>2 DEF Ends
  <2>2. ~InContract(doc)'
    BY <1>2, <2>1
  <2>3. QED
    BY <2>1, <2>2 DEF AcceptedInContract, NoEscape
<1>3. ASSUME step' # "done", outcome' = outcome PROVE AcceptedInContract' /\ NoEscape'
  BY <1>3 DEF AcceptedInContract, NoEscape
<1>4. CASE Tick \/ Receives
  BY <1>1, <1>3, <1>4 DEF Tick, Receives, Requesting
<1>5. CASE Proceeds
  <2>1. step' \in Range(Phases)
    BY <1>5, PhasesAreSteps DEF Proceeds
  <2>2. QED
    BY <1>3, <1>5, <2>1, PhasesAreSteps DEF Proceeds
<1>6. CASE Answered \/ HttpSuccess \/ Parsed
  BY <1>3, <1>6 DEF Answered, HttpSuccess, Parsed
<1>7. CASE RequestFails \/ HttpError \/ Unparsed
  <2>1. doc = Absent /\ Ends("extraction failed")
    BY <1>1, <1>7 DEF RequestFails, HttpError, Unparsed, TypeOK
  <2>2. QED
    BY <1>2, <2>1, AbsentIsOutside
<1>8. CASE SchemaChecked
  <2>1. CASE Conforms(doc)
    BY <1>3, <1>8, <2>1 DEF SchemaChecked
  <2>2. CASE ~Conforms(doc)
    <3>1. doc \in Values /\ doc.tag = "object"
      BY <1>8 DEF SchemaChecked, TypeOK, DocumentOK
    <3>2. ~InContract(doc)
      BY <2>2, <3>1, ChecksAreContract, Zenon
    <3>3. Ends("extraction failed")
      BY <1>8, <2>2 DEF SchemaChecked
    <3>4. QED
      BY <1>2, <3>2, <3>3
  <2>3. QED
    BY <2>1, <2>2
<1>9. CASE SanitizerRuns
  <2>1. outcome' # "escaped" /\ (outcome' = "accepted" <=> InContract(doc))
    BY <1>9, SanitizerEnds
  <2>2. doc' = doc
    BY <1>9 DEF SanitizerRuns, Ends
  <2>3. InContract(doc)' <=> InContract(doc)
    BY <2>2
  <2>4. QED
    BY <2>1, <2>3 DEF AcceptedInContract, NoEscape
<1>10. CASE UNCHANGED vars
  BY <1>10 DEF vars, AcceptedInContract, NoEscape
<1>11. QED
  BY <1>4, <1>5, <1>6, <1>7, <1>8, <1>9, <1>10 DEF Next, Transport, Checks

LEMMA AcceptedInit == Init => AcceptedInContract /\ NoEscape
<1>1. Init => step # "done" /\ outcome = "none"
  BY DEF Init
<1>2. QED
  BY <1>1 DEF AcceptedInContract, NoEscape

\* A call ends in "accepted" exactly when its document is in the contract, path by
\* path: what the generic walk leaves out (amounts that are no money, enumerations,
\* an IRN that is claimed) the sanitizer checks, what the sanitizer leaves out (the
\* flags of the tax breakdown, a total_tax that is there, the confidence, the
\* acknowledgment) the walk does, and together they refuse nothing else
\* (StateMatrix.cpp:125, StateMatrix.hpp:98-102).
THEOREM AcceptedExactlyInContract == Spec => []AcceptedInContract
<1>1. TypeOK /\ DocumentOK /\ AcceptedInContract /\ NoEscape /\ [Next]_vars
          => DocumentOK' /\ AcceptedInContract' /\ NoEscape'
  BY DocumentStep, AcceptedStep
<1>2. QED
  BY <1>1, DocumentInit, AcceptedInit, ExtractionTypeCorrect, PTL DEF Spec

\* The json::out_of_range of json::at(), which processUpload does not answer, never
\* leaves the sanitizer, whatever the service answers: the walk, or for the mock
\* document its constructor, has put there what it reads so (StateMatrix.cpp:145).
THEOREM NothingEscapes == Spec => []NoEscape
<1>1. TypeOK /\ DocumentOK /\ AcceptedInContract /\ NoEscape /\ [Next]_vars
          => DocumentOK' /\ AcceptedInContract' /\ NoEscape'
  BY DocumentStep, AcceptedStep
<1>2. QED
  BY <1>1, DocumentInit, AcceptedInit, ExtractionTypeCorrect, PTL DEF Spec
=============================================================================
