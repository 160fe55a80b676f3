---------------------------- MODULE MCExtraction ----------------------------
(* Documents that differ from the default one in one place, in every way, or *)
(* in two, of which one is missing.                                          *)
EXTENDS Extraction

\* value with the member key put in, or taken out
With(value, key, new) ==
    CASE value.tag = "array" /\ key \in DOMAIN value.e ->
            Array(IF new = Absent THEN RemoveAt(value.e, key) ELSE [value.e EXCEPT ![key] = new])
      [] value.tag = "object" ->
            Object([k \in (DOMAIN value.m \cup {key}) \ (IF new = Absent THEN {key} ELSE {}) |->
                        IF k = key THEN new ELSE value.m[k]])
      [] OTHER -> value

\* d with the value at path changed
Put(d, path, new) ==
    LET above[n \in 0 .. Len(path)] ==
            IF n = Len(path) THEN new
            ELSE With(ValueAt(d, SubSeq(path, 1, n)), path[n + 1], above[n + 1])
    IN  above[0]

Item    == Append(Items, 1)
Keys(object) == {Append(object, key) : key \in DOMAIN ValueAt(DefaultDocument, object).m}
Paths   == {Item} \cup Keys(<<>>)
           \cup UNION {Keys(o) : o \in {<<"supplier">>, <<"buyer">>, Invoice, Item, Tax, <<"irp">>,
                                        <<"extraction_confidence">>}}

Changes ==
    {Absent, Null, Object(<<>>), Array(<<>>), Array(<<Null>>), Array(<<String("text")>>),
     Boolean(FALSE), Boolean(TRUE), String("text"), String("INTRA"), String("UNDETERMINED")}
    \cup {Number(r) : r \in Ranges}

Changed  == {Put(DefaultDocument, p, v) : p \in Paths, v \in Changes}
Missing  == {Put(Put(DefaultDocument, p, Absent), q, v) :
                p \in Paths, q \in Paths, v \in {Absent, Null}}
MCDocuments == Changed \cup Missing

\* all that is inside them, down to an element of an array in a line item
Inside(values) ==
    UNION {CASE v.tag = "object" -> {v.m[key] : key \in DOMAIN v.m}
             [] v.tag = "array"  -> {v.e[i] : i \in DOMAIN v.e}
             [] OTHER            -> {} : v \in values}
Sections == Inside(MCDocuments)
Fields   == Inside(Sections)
Parts    == Inside(Fields)
Deep     == Inside(Parts)
\* listed, as TLC searches a list faster than a union
MCValues == {v : v \in MCDocuments \cup Sections \cup Fields \cup Parts \cup Deep \cup Inside(Deep)}
=============================================================================
