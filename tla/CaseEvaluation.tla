--------------------------- MODULE CaseEvaluation ---------------------------
(***************************************************************************)
(* Golden datasets and what the runners make of a case: its metrics, its   *)
(* failure and whether it passed.                                          *)
(*                                                                         *)
(* A dataset is a body with the hash of a body; as the hash tells bodies   *)
(* apart, it is the body it was computed from.                             *)
(***************************************************************************)
EXTENDS CaseMetrics

CONSTANTS
    Catalogs,           \* the products of each catalog
    ModeOf,             \* the failure mode of each search system
    Distribution        \* how many cases of each type the contract wants

\* The contract of golden datasets wants some case.
ASSUME DistributionAssumption == \E t \in DOMAIN Distribution : Distribution[t] > 0

\* Products have ids and prices.
ASSUME CatalogAssumption ==
    \A c \in DOMAIN Catalogs :
        /\ IsFiniteSet(Catalogs[c])
        /\ \A p \in Catalogs[c] : p.id \in Nat /\ p.price \in Nat
        /\ \A p, q \in Catalogs[c] : p.id = q.id => p = q

ASSUME ModeAssumption == \A system \in DOMAIN ModeOf : ModeOf[system] \in Modes

Grades == [E |-> 3, S |-> 2, C |-> 1, I |-> 0]

Sealed(body) == [body |-> body, hash |-> body]
ValidHash(dataset) == dataset.hash = dataset.body

ExpectedIds(case) == [i \in DOMAIN case.expected |-> case.expected[i].id]

\* What is read as a dataset has a list of cases, with judged products.
SourceCases(dataset) ==
    /\ dataset.body.cases \in Seq(ToSet(dataset.body.cases))
    /\ \A case \in ToSet(dataset.body.cases) :
          /\ case.query \in Seq(Words)
          /\ case.expected \in Seq([id : Nat, label : DOMAIN Grades])

\* load_golden_dataset: in a golden dataset they say what the query means.
HasCases(dataset) ==
    /\ SourceCases(dataset)
    /\ \A case \in ToSet(dataset.body.cases) :
          /\ DOMAIN case.constraints = Fields
          /\ \A f \in {"min_price", "max_price"} : case.constraints[f] \in Nat \union {Unset}
          /\ ValidRange(case.constraints)

\* validate_golden_dataset, which the runner wants of an approved dataset.
validate_golden_dataset(dataset, catalog, require_approved) ==
    LET cases == dataset.body.cases
    IN  /\ \A i, j \in DOMAIN cases : cases[i].id = cases[j].id => i = j
        /\ \A t \in DOMAIN Distribution :
              Cardinality({i \in DOMAIN cases : cases[i].type = t}) = Distribution[t]
        /\ \A i \in DOMAIN cases :
              ToSet(ExpectedIds(cases[i])) \subseteq {p.id : p \in Catalogs[catalog]}
        /\ ValidHash(dataset)
        /\ require_approved =>
              dataset.body.approved /\ \A i \in DOMAIN cases : cases[i].approved

-----------------------------------------------------------------------------
(* failures/classifier.py *)

ExpectedIntent(case) ==
    [text |-> case.text, constraints |-> case.constraints, sorting |-> case.sorting]

\* The symptoms a case is searched for, in this order, and whether it shows them.
Symptoms(case, response) ==
    LET actual == Ids(response.products)
        expected == ExpectedIds(case)
        relevant == ToSet(expected)
        understanding ==
            query_understanding_field_accuracy(ExpectedIntent(case), response.interpreted)
        noise == ToSet(actual) \ relevant
    IN  << <<Below1(understanding), "QUERY_UNDERSTANDING">>,
           <<Below1(filter_accuracy(case.constraints, response.applied)), "FILTER_EXTRACTION">>,
           <<case.type = "catalog_quality" /\ expected = <<>> /\ actual # <<>>,
             "CATALOG_DATA_QUALITY">>,
           <<Below1(constraint_satisfaction(response.products, case.constraints)),
             "FILTER_VIOLATION">>,
           <<~(relevant \subseteq ToSet(response.retrieved)), "RETRIEVAL_MISS">>,
           <<relevant # {} /\ ToSet(actual) = relevant /\ actual # expected, "RANKING_FAILURE">>,
           <<noise # {} /\ relevant \subseteq ToSet(response.filtered), "RETRIEVAL_NOISE">>,
           <<response.slow, "LATENCY_FAILURE">>,
           <<TRUE, "NONE">> >>

First(symptoms) == symptoms[Min({i \in DOMAIN symptoms : symptoms[i][1]})][2]

\* Mutant: noise is looked for before violations.
ClassifyNoiseFirst(case, response) ==
    LET s == Symptoms(case, response)
    IN  First(<<s[1], s[2], s[3], s[7], s[4], s[5], s[6], s[8], s[9]>>)

\* classify_case_failure: the first symptom is the only failure of the case.
Classify(case, response) == First(Symptoms(case, response))

-----------------------------------------------------------------------------
(* The runners *)

Relevance(actual, expected, relevant, grades, k) ==
    [precision |-> precision_at_k(actual, relevant, k),
     recall |-> recall_at_k(actual, relevant, k),
     false_positive_rate |-> false_positive_rate(actual, relevant),
     false_negative_rate |-> false_negative_rate(actual, relevant),
     reciprocal_rank |-> reciprocal_rank(actual, relevant),
     ndcg |-> ndcg_at_k(actual, grades, k),
     top_result |-> top_result_correctness(actual, relevant),
     displacement |-> Displacement(actual, expected)]

\* The last judgment of a product counts.
GradesOf(case) ==
    LET ids == ExpectedIds(case)
    IN  [id \in ToSet(ids) |->
            Grades[case.expected[Max({i \in DOMAIN ids : ids[i] = id})].label]]

\* EvaluationRunner._evaluate_case: whatever is listed is relevant, with any label.
CaseResult(case, response, k) ==
    LET actual == Ids(response.products)
        expected == ExpectedIds(case)
        failure == Classify(case, response)
    IN  [case |-> case.id, actual |-> actual, failure |-> failure,
         intent |-> query_understanding_field_accuracy(ExpectedIntent(case),
                                                       response.interpreted),
         filter |-> filter_accuracy(case.constraints, response.applied),
         satisfaction |-> constraint_satisfaction(response.products, case.constraints),
         relevance |-> Relevance(actual, expected, ToSet(expected), GradesOf(case), k),
         passed |-> actual = expected /\ failure = "NONE"]

\* SourceValidatedEvaluationRunner.run, for one case: relevant is what has a grade,
\* a relevant first result is enough, and nothing is classified.
SourceCaseResult(case, response, k) ==
    LET actual == Ids(response.products)
        grades == GradesOf(case)
        relevant == {id \in DOMAIN grades : grades[id] > 0}
        expected == Kept(case.expected,
                         {i \in DOMAIN case.expected : Grades[case.expected[i].label] > 0})
    IN  [case |-> case.id, actual |-> actual, failure |-> "NONE",
         relevance |-> Relevance(actual, [i \in DOMAIN expected |-> expected[i].id],
                                 relevant, grades, k),
         passed |-> actual # <<>> /\ Head(actual) \in relevant]

\* Mutant: the cutoff is not part of the run.
RunConfigAnyCutoff(dataset, catalog, system, trace, k, seed) ==
    [dataset |-> dataset.hash, catalog |-> catalog, system |-> system, trace |-> trace,
     seed |-> seed]

\* What the run id is the hash of: everything but the results.
RunConfig(dataset, catalog, system, trace, k, seed) ==
    [dataset |-> dataset.hash, catalog |-> catalog, system |-> system, trace |-> trace,
     top_k |-> k, seed |-> seed]

\* review_golden_v1.py: the verdict on a case of the draft.
ReviewVerdict(case, catalog) ==
    LET response == Search(Catalogs[catalog], case.query, 100, FALSE)
        actual == Ids(response.products)
        expected == ExpectedIds(case)
        understood == response.interpreted = ExpectedIntent(case)
    IN  CASE understood /\ actual = expected -> "PASS"
          [] understood /\ actual # expected /\ case.type = "catalog_quality"
                /\ expected = <<>> -> "EXPECTED GAP"
          [] OTHER -> "FAIL"
=============================================================================
