----------------------------- MODULE CaseMetrics ----------------------------
(***************************************************************************)
(* The deterministic metrics of one case.  A value is a fraction, as       *)
(* <<numerator, denominator>>, or Unset where the metric is unknown.       *)
(***************************************************************************)
EXTENDS SearchSystem

CONSTANT Discount       \* 1 / log2(rank + 1) of each rank, scaled to whole numbers

ASSUME DiscountAssumption ==
    /\ Discount \in Seq(Nat)
    /\ \A i, j \in DOMAIN Discount : i <= j => Discount[j] <= Discount[i]

Ratio(hits, all) == <<hits, all>>
Below1(value) == value # Unset /\ value[1] < value[2]
IsZero(value) == value = Unset \/ value[1] = 0
IsOne(value) == value = Unset \/ value[1] = value[2]

Count(s, S) == Cardinality({i \in DOMAIN s : s[i] \in S})

-----------------------------------------------------------------------------
(* constraints.py *)

\* _compare_fields: only what is expected counts.
Accuracy(expected, actual) ==
    LET known == {f \in DOMAIN expected : expected[f] # Unset}
    IN  IF known = {} THEN Unset
        ELSE Ratio(Cardinality({f \in known : actual[f] = expected[f]}), Cardinality(known))

IntentFields(intent) ==
    [f \in Fields \union {"query_text", "sorting_intent"} |->
        CASE f = "query_text" -> intent.text
          [] f = "sorting_intent" -> intent.sorting
          [] OTHER -> intent.constraints[f]]
query_understanding_field_accuracy(expected, actual) ==
    Accuracy(IntentFields(expected), IntentFields(actual))

filter_accuracy(expected, applied) == Accuracy(expected, applied)

\* _product_violations.
Violations(product, constraints) ==
    {f \in {"category", "subcategory", "brand", "gender", "color", "availability"} :
        constraints[f] \notin {Unset, product[f]}}
    \union {f \in {"min_price"} : constraints[f] # Unset /\ product.price < constraints[f]}
    \union {f \in {"max_price"} : constraints[f] # Unset /\ product.price > constraints[f]}
    \union {f \in {"size"} : constraints[f] # Unset /\ constraints[f] \notin product.sizes}

constraint_satisfaction(products, constraints) ==
    IF products = <<>> \/ \A f \in Fields : constraints[f] = Unset THEN Unset
    ELSE Ratio(Cardinality({i \in DOMAIN products : Violations(products[i], constraints) = {}}),
               Len(products))

-----------------------------------------------------------------------------
(* relevance.py *)

precision_at_k(actual, relevant, k) == Ratio(Count(Cut(actual, k), relevant), k)

recall_at_k(actual, relevant, k) ==
    IF relevant = {} THEN Unset
    ELSE Ratio(Cardinality(ToSet(Cut(actual, k)) \intersect relevant), Cardinality(relevant))

false_positive_rate(actual, relevant) ==
    IF actual = <<>> THEN Unset
    ELSE Ratio(Len(actual) - Count(actual, relevant), Len(actual))

false_negative_rate(actual, relevant) ==
    IF relevant = {} THEN Unset
    ELSE Ratio(Cardinality(relevant \ ToSet(actual)), Cardinality(relevant))

reciprocal_rank(actual, relevant) ==
    LET ranks == {i \in DOMAIN actual : actual[i] \in relevant}
    IN  CASE relevant = {} -> Unset
          [] relevant # {} /\ ranks = {} -> Ratio(0, 1)
          [] OTHER -> Ratio(1, Min(ranks))

\* grades gives each judged product its grade; what is not judged has grade 0.
Gain(grade) == 2 ^ grade - 1
Grade(grades, id) == IF id \in DOMAIN grades THEN grades[id] ELSE 0
DiscountedGain(gains) == SumFunction([i \in DOMAIN gains |-> gains[i] * Discount[i]])

ndcg_at_k(actual, grades, k) ==
    LET positive == {id \in DOMAIN grades : grades[id] > 0}
        Before(a) == {b \in positive : \/ grades[b] > grades[a]
                                       \/ grades[b] = grades[a] /\ b < a}
        ideal == Cut(Ordered([a \in positive |-> Before(a)]), k)
        GainsOf(ids) == [i \in DOMAIN ids |-> Gain(Grade(grades, ids[i]))]
    IN  IF positive = {} THEN Unset
        ELSE Ratio(DiscountedGain(GainsOf(Cut(actual, k))), DiscountedGain(GainsOf(ideal)))

top_result_correctness(actual, relevant) ==
    IF relevant = {} THEN Unset ELSE Ratio(Count(Cut(actual, 1), relevant), 1)

\* Mutant: ranks of the expected order are counted from 0.
DisplacementFromZero(actual, expected) ==
    LET missing == Max({Len(actual), Len(expected)}) + 1
        RankOf(id) == Min({i \in DOMAIN actual : actual[i] = id} \union {missing})
    IN  IF expected = <<>> THEN Unset
        ELSE Ratio(SumFunction([i \in DOMAIN expected |-> RankOf(expected[i]) - (i - 1)]),
                   Len(expected))

\* relevant_result_displacement: how far behind their expected ranks the expected
\* products are, what is missing being behind all.
Displacement(actual, expected) ==
    LET missing == Max({Len(actual), Len(expected)}) + 1
        RankOf(id) == Min({i \in DOMAIN actual : actual[i] = id} \union {missing})
    IN  IF expected = <<>> THEN Unset
        ELSE Ratio(SumFunction([i \in DOMAIN expected |-> Max({RankOf(expected[i]), i}) - i]),
                   Len(expected))
=============================================================================
