----------------------------- MODULE Algorithms -----------------------------
(***************************************************************************)
(* The pure algorithms against what they are meant to compute.  A state is *)
(* a sample: the algorithm it is about and the input that is fixed, the    *)
(* others are quantified over.                                             *)
(***************************************************************************)
EXTENDS Fields, Params, Versions, Actions

VARIABLE sample
sampleVars == <<sample>>

Sample(about, input) == [about |-> about, input |-> input]

-----------------------------------------------------------------------------
(***************************************************************************)
(* Answers of three levels over two keys; rules that name, nest, overlap.  *)
(***************************************************************************)
DocKeys == {"a", "b"}
Objects(values) == UNION {{Object(f) : f \in [ks -> values]} : ks \in SUBSET DocKeys}
Arrays(values) == {Array(<<v>>) : v \in values} \cup {Array(<<v, Scalar("y")>>) : v \in values}

Flat == Objects({Scalar("x")}) \cup Arrays({Scalar("x")})
Nested == Objects(Flat \cup {Null}) \cup Arrays(Flat)
Docs == Nested \cup Arrays(Objects(Flat))
          \cup {Object("a" :> d @@ "b" :> e) : d \in Nested, e \in {Scalar("y")} \cup Arrays({Scalar("x")})}

RulePaths == {<<"a">>, <<"b">>, <<"a", "b">>, <<"b", "a">>, <<"a", "b", "a">>, <<"a", "a">>}
RuleSets == {rules \in SUBSET RulePaths : Cardinality(rules) <= 2}

FieldsAgree(doc) ==
  /\ \A rules \in RuleSets, depth \in {1, 2, 4} :
       /\ KeepAgrees(doc, depth, rules)
       /\ DeleteAgrees(doc, depth, rules)
       /\ ConvertAgrees(doc, depth, rules)
  /\ \A p, q \in Paths(RulePaths) : OrderOfPathsIsIrrelevant(p, q)

-----------------------------------------------------------------------------
(***************************************************************************)
(* A schema with every kind of parameter, and the flags and payloads for   *)
(* it: malformed, repeated, unknown, of the wrong type; with the value at  *)
(* its place, elsewhere, of another type, null or absent.                  *)
(***************************************************************************)
ParamSpec(type, required, enum, path) ==
  [type |-> type, required |-> required, enum |-> enum, path |-> path]

SampleSchema ==
  "id" :> ParamSpec("string", TRUE, {}, <<"0", "info", "id">>)
    @@ "n" :> ParamSpec("integer", FALSE, {}, <<>>)
    @@ "kind" :> ParamSpec("", FALSE, {"x", "y"}, <<"info", "01">>)
    @@ "on" :> ParamSpec("boolean", FALSE, {}, <<"on">>)
    @@ "odd" :> ParamSpec("float", FALSE, {}, <<>>)

Entries == {Entry("id", "7"), Entry("n", "007"), Entry("n", "seven"), Entry("kind", "y"),
            Entry("kind", "z"), Entry("on", "true"), Entry("on", "1"), Entry("odd", "1"),
            Entry("", "7"), Entry("other", "7"), Bare("id")}

Raws == UNION {[1..n -> Entries] : n \in 0..3}

Given == {"id" :> "7", "n" :> "7", "kind" :> "y", "on" :> "true", "other" :> "7",
          "id" :> "7" @@ "n" :> "7", <<>>}

Bodies == {Scalar("7"), Scalar("8"), Null, Object("id" :> Scalar("7")),
           Object("info" :> Object("id" :> Scalar("7"))),
           Object("info" :> Array(<<Scalar("x"), Scalar("y")>>) @@ "on" :> Scalar("true")),
           Object("n" :> Scalar("7") @@ "other" :> Null)}
Payloads == Bodies \cup {Array(<<b>>) : b \in Bodies} \cup {Array(<<Null, b>>) : b \in Bodies}
              \cup {Object("0" :> b @@ "n" :> Scalar("7")) : b \in Bodies} \cup {Object(<<>>)}

-----------------------------------------------------------------------------
(***************************************************************************)
(* Versions with missing, textual and equal segments.                      *)
(***************************************************************************)
Releases == {<<NumSeg(1)>>, <<NumSeg(1), NumSeg(0)>>, <<NumSeg(1), NumSeg(2)>>,
             <<NumSeg(1), TextSeg(1)>>, <<NumSeg(0), NumSeg(3)>>}
Pres == {<<>>, <<NumSeg(1)>>, <<NumSeg(2)>>, <<TextSeg(1)>>, <<TextSeg(2)>>,
         <<TextSeg(1), NumSeg(1)>>, <<TextSeg(1), TextSeg(1)>>}
VersionSamples == {Version(r, p) : r \in Releases, p \in Pres}

-----------------------------------------------------------------------------
(***************************************************************************)
(* Every command line: each flag given with a value, as the empty text, or *)
(* not at all.                                                             *)
(***************************************************************************)
LinesAgree(action) ==
  \A given \in SUBSET FlagsOf(action) : \A empty \in SUBSET (FlagsOf(action) \ given) :
    FormsAgree(action, Line(given, empty))
ActionNames == {row.action : row \in FormMatrix}

-----------------------------------------------------------------------------
Samples ==
  {Sample("fields", d) : d \in Docs} \cup {Sample("flags", raw) : raw \in Raws}
    \cup {Sample("payload", p) : p \in Payloads} \cup {Sample("version", v) : v \in VersionSamples}
    \cup {Sample("action", a) : a \in ActionNames} \cup {Sample("schemas", "shipped")}

Algorithm(about) == sample.about = about

(***************************************************************************)
(* Every algorithm computes what its reference says: the filters, deletions*)
(* and conversions of answers, leaf by leaf; the acceptance of --param and *)
(* the match of a payload; the shipped schemas; the order of versions; the *)
(* form an --action runs.                                                  *)
(***************************************************************************)
AlgorithmsAgree ==
  /\ Algorithm("fields") => FieldsAgree(sample.input)
  /\ Algorithm("flags") => ParamsAgree(SampleSchema, sample.input)
  /\ Algorithm("payload") =>
       \A params \in Given : MatchAgrees(SampleSchema, params, sample.input)
  /\ Algorithm("version") =>
       \A b, c \in VersionSamples : OrderAgrees(sample.input, b, c)
  /\ Algorithm("action") => LinesAgree(sample.input)
  /\ Algorithm("schemas") => SchemasAreFilterable
=============================================================================
