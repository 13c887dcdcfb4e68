---------------------------- MODULE SearchSystem ----------------------------
(***************************************************************************)
(* The search that is evaluated: parse_query, the demo engine behind its   *)
(* adapter, and the adapter that injects a fault into its responses.       *)
(*                                                                         *)
(* A query is a sequence of words; Meaning is the vocabulary with the      *)
(* price and size patterns: the field that a word fills, and with what.    *)
(* A word is its own token.  Product ids are numbers, for their order.     *)
(***************************************************************************)
EXTENDS Naturals, SequencesExt, FiniteSetsExt

CONSTANTS
    Words, Meaning,
    CategoryOf,         \* the category of each subcategory
    FieldWeights,       \* weights of the text fields of a product
    CandidateLimit,
    Unset               \* None

\* None is no value, neither a number nor a metric.
ASSUME UnsetAssumption == Unset \notin Nat /\ Unset \notin Nat \X Nat

\* The limit of the candidates, and the weights.
ASSUME SearchAssumption ==
    /\ CandidateLimit \in Nat
    /\ IsFiniteSet(DOMAIN FieldWeights) /\ \A f \in DOMAIN FieldWeights : FieldWeights[f] \in Nat

Fields == {"category", "subcategory", "brand", "gender", "color", "min_price", "max_price",
           "size", "availability"}

\* The elements that before is about, each behind those which come before it.
Ordered(before) ==
    [i \in 1 .. Cardinality(DOMAIN before) |->
        CHOOSE x \in DOMAIN before : Cardinality(before[x]) = i - 1]

\* The elements of s at these places.
Kept(s, places) ==
    LET order == Ordered([i \in places |-> {j \in places : j < i}])
    IN  [n \in DOMAIN order |-> s[order[n]]]

-----------------------------------------------------------------------------
(* query_parser.py *)

\* Where the query names a value for a field.  Only the earliest counts.
Mentions(query, field) == {i \in DOMAIN query : Meaning[query[i]].field = field}
Found(query, field) ==
    IF Mentions(query, field) = {} THEN Unset
    ELSE Meaning[query[Min(Mentions(query, field))]].value

\* The fields whose words leave the query text: a price range comes before a
\* lower or upper bound, categories stay for the retrieval.
Removable(query) ==
    {"brand", "gender", "color", "availability", "sorting", "size"}
    \union (IF Found(query, "range") # Unset THEN {"range"} ELSE {"min_price", "max_price"})
Remaining(query) ==
    {query[i] : i \in {i \in DOMAIN query :
        ~ \E f \in Removable(query) : Mentions(query, f) # {} /\ i = Min(Mentions(query, f))}}

Constraint(query, field) ==
    LET range == Found(query, "range")
        subcategory == Found(query, "subcategory")
    IN  CASE field = "category" /\ subcategory # Unset -> CategoryOf[subcategory]
          [] field = "min_price" /\ range # Unset -> range[1]
          [] field = "max_price" /\ range # Unset -> range[2]
          [] OTHER -> Found(query, field)

parse_query(query) ==
    [text |-> Remaining(query), constraints |-> [f \in Fields |-> Constraint(query, f)],
     sorting |-> Found(query, "sorting")]

\* SearchConstraints refuses a lower bound above the upper one.
ValidRange(constraints) ==
    \/ Unset \in {constraints["min_price"], constraints["max_price"]}
    \/ constraints["min_price"] <= constraints["max_price"]

-----------------------------------------------------------------------------
(* demo_search/engine.py *)

\* The score up to the number of words in the query, which is the same for all.
Score(product, text) ==
    IF text = {} THEN 1
    ELSE SumFunction([f \in DOMAIN FieldWeights |->
                         FieldWeights[f] * Cardinality(text \intersect product.text[f])])

\* _satisfies_constraints.
Satisfies(product, constraints) ==
    /\ \A f \in {"category", "subcategory", "brand", "gender", "color", "availability"} :
          constraints[f] \in {Unset, product[f]}
    /\ constraints["min_price"] # Unset => product.price >= constraints["min_price"]
    /\ constraints["max_price"] # Unset => product.price <= constraints["max_price"]
    /\ constraints["size"] # Unset => constraints["size"] \in product.sizes

Cut(s, k) == SubSeq(s, 1, Min({k, Len(s)}))
Ids(products) == [i \in DOMAIN products |-> products[i].id]

Retrieve(catalog, text) ==
    LET scored == {p \in catalog : Score(p, text) > 0}
        Before(p) == {q \in scored : \/ Score(q, text) > Score(p, text)
                                     \/ Score(q, text) = Score(p, text) /\ q.id < p.id}
    IN  Cut(Ordered([p \in scored |-> Before(p)]), CandidateLimit)

Filter(products, constraints) ==
    Kept(products, {i \in DOMAIN products : Satisfies(products[i], constraints)})

\* slow stands for a latency above the threshold of the classifier.
SearchFor(intent, catalog, top_k, slow) ==
    LET retrieved == Retrieve(catalog, intent.text)
        filtered == Filter(retrieved, intent.constraints)
    IN  [interpreted |-> intent, applied |-> intent.constraints,
         retrieved |-> Ids(retrieved), filtered |-> Ids(filtered),
         products |-> Cut(filtered, top_k), slow |-> slow]
Search(catalog, query, top_k, slow) == SearchFor(parse_query(query), catalog, top_k, slow)

\* DemoSearchAdapter: the ValueError of the parser is a provider error.
ProviderFails(query) == query = <<>> \/ ~ValidRange(parse_query(query).constraints)

-----------------------------------------------------------------------------
(* search_adapters/faults.py *)

Modes == {"healthy", "filter_broken", "retrieval_broken", "ranking_broken",
          "query_parser_regression", "latency_regression"}

\* The constraint that the broken parser loses, none if there is none of these.
Lost(constraints) ==
    LET order == <<"brand", "color", "gender", "size", "max_price", "category", "subcategory">>
    IN  Cut(Kept(order, {i \in DOMAIN order : constraints[order[i]] # Unset}), 1)
DropConstraint(constraints) ==
    [f \in Fields |-> IF Contains(Lost(constraints), f) THEN Unset ELSE constraints[f]]

Without(ids, gone) == Kept(ids, {i \in DOMAIN ids : ~Contains(gone, ids[i])})
ProductsWithout(products, gone) ==
    Kept(products, {i \in DOMAIN products : ~Contains(gone, products[i].id)})

\* The first candidate that the filter took out comes last.
InjectFilterViolation(response, catalog) ==
    LET out == Without(response.retrieved, response.filtered)
    IN  IF out = <<>> THEN response
        ELSE [response EXCEPT !.products =
                  Append(@, CHOOSE p \in catalog : p.id = Head(out))]

\* The first product, or the first candidate if there is no product, is not found.
InjectRetrievalMiss(response) ==
    LET target == Cut(Ids(response.products) \o response.retrieved, 1)
    IN  [response EXCEPT !.retrieved = Without(@, target), !.filtered = Without(@, target),
                         !.products = ProductsWithout(@, target)]

InjectRankingFailure(response) ==
    IF Len(response.products) < 2 THEN response
    ELSE [response EXCEPT !.products = Append(Tail(@), Head(@))]

InjectParserRegression(response) ==
    [response EXCEPT !.interpreted.constraints = DropConstraint(@),
                     !.applied = DropConstraint(@)]

\* What the adapter of a system with this failure mode makes of a response.
Injected(mode, response, catalog) ==
    CASE mode = "filter_broken" -> InjectFilterViolation(response, catalog)
      [] mode = "retrieval_broken" -> InjectRetrievalMiss(response)
      [] mode = "ranking_broken" -> InjectRankingFailure(response)
      [] mode = "query_parser_regression" -> InjectParserRegression(response)
      [] mode = "latency_regression" -> [response EXCEPT !.slow = TRUE]
      [] OTHER -> response
Served(mode, catalog, query, top_k, slow) ==
    Injected(mode, Search(catalog, query, top_k, slow), catalog)
=============================================================================
