----------------------------- MODULE Workstation -----------------------------
(***************************************************************************)
(* The commands and scripts that one machine runs, one after the other or  *)
(* at the same time, on the same files.  Any of them can be killed, or     *)
(* meet an I/O error while it writes.                                      *)
(***************************************************************************)
EXTENDS EvaluateCommand, EsciReview

FirstStep ==
    [evaluate |-> "load", executeJob |-> "loadJob", reviewScript |-> "review",
     approve |-> "approve", download |-> "download", prepare |-> "verifySources",
     esciVerify |-> "verify", reviewCreate |-> "exists", sourceValidate |-> "match"]

Begin(r) ==
    /\ pc[r] = "ready"
    /\ Goto(r, FirstStep[Call[r].op])
    /\ Remember(r, IF Call[r].op = "download" THEN [memo[r] EXCEPT !.todo = Sources] ELSE memo[r])
    /\ met' = met \union {{r, q} : q \in {q \in Made \ {r} : Open(q)}}
    /\ UNCHANGED <<files, traces>>

Faults == Cardinality({r \in Made : pc[r] \in {"broken", "crashed"}})

\* What each command removes when it cannot write.
CleanedUp(r) ==
    CASE Call[r].op = "prepare" -> WithoutFolder(Call[r].version)
      [] Call[r].op = "reviewCreate" -> Unlinked({Draft(r), Review(r)})
      [] Call[r].op = "sourceValidate" -> Unlinked({Temporary(Published(r))})
      [] OTHER -> names

WriteFails(r) ==
    /\ pc[r] \in {"open", "write"} /\ Faults < MaxFaults
    /\ End(r, "broken", CleanedUp(r))

Crash(r) ==
    /\ Open(r) /\ Faults < MaxFaults
    /\ End(r, "crashed", names)

Step(r) == Begin(r) \/ FileStep(r) \/ EvaluateStep(r) \/ EsciStep(r) \/ WriteFails(r) \/ Crash(r)
Next == \E r \in Made : Step(r)

Spec == Init /\ [][Next]_vars

-----------------------------------------------------------------------------
(* What an evaluation says of a case *)

\* The classified results, as the command that has one and its number.  Each is the
\* last one of its command when it comes.
Judged ==
    {<<r, Len(memo[r].results)>> :
        r \in {r \in Made : /\ Evaluates(r) /\ Classified(r)
                           /\ pc[r] \in {"case", "look", "written"} /\ memo[r].results # <<>>}}

\* The fault leaves no trace in the response to this case.
Hidden(mode, case, healthy) ==
    LET intent == healthy.interpreted
    IN  CASE mode = "filter_broken" -> ToSet(healthy.retrieved) \subseteq ToSet(healthy.filtered)
          [] mode = "retrieval_broken" -> case.expected = <<>>
          [] mode = "ranking_broken" -> Len(case.expected) < 2
          [] mode = "query_parser_regression" ->
               \A f \in Fields : Contains(Lost(intent.constraints), f) => case.constraints[f] = Unset
          [] OTHER -> TRUE

\* What the fault is to be called: a product that is let through violates what the
\* case wants of it, or is noise where the case wants less than the query says.
NameOf(mode, case, result, catalog) ==
    LET let == CHOOSE p \in catalog : p.id = Last(result.actual)
    IN  CASE mode = "filter_broken" /\ case.type = "catalog_quality" /\ case.expected = <<>> ->
               "CATALOG_DATA_QUALITY"
          [] mode = "filter_broken" /\ ~(case.type = "catalog_quality" /\ case.expected = <<>>) ->
               IF Satisfies(let, case.constraints) THEN "RETRIEVAL_NOISE" ELSE "FILTER_VIOLATION"
          [] mode = "retrieval_broken" -> "RETRIEVAL_MISS"
          [] mode = "ranking_broken" -> "RANKING_FAILURE"
          [] mode = "query_parser_regression" -> "QUERY_UNDERSTANDING"

\* A fault that a system injects into a case it would pass is found and called by
\* its name, whatever other symptoms it has (classify_case_failure, the fault
\* injecting adapter); what it does not show in is not blamed for anything but its
\* latency, which a latency regression always is.
FaultsNamed ==
    \A j \in Judged :
        LET r == j[1]  case == Cases(r)[j[2]]  result == memo[r].results[j[2]]
            mode == ModeOf[Call[r].system]
            catalog == Catalogs[Call[r].catalog]
            healthy == Search(catalog, case.query, Call[r].top_k, FALSE)
        IN  CaseResult(case, healthy, Call[r].top_k).passed =>
                IF Hidden(mode, case, healthy)
                THEN /\ result.failure \in {"NONE", "LATENCY_FAILURE"}
                     /\ mode = "latency_regression" => result.failure = "LATENCY_FAILURE"
                ELSE result.failure = NameOf(mode, case, result, catalog)

\* The verdict on a case and its metrics tell one story: the products are the
\* expected ones, in their order, just when nothing is false, missing or displaced;
\* what passes was understood; no ranking is better than the ideal one; a dataset
\* that the source validates passes with the first product; and what the review
\* script passes, a healthy system passes too (runner.py, source_validated_runner.py,
\* metrics, review_golden_v1.py).
VerdictMatchesMetrics ==
    /\ \A j \in Judged :
        LET case == Cases(j[1])[j[2]]  result == memo[j[1]].results[j[2]]
            rel == result.relevance
            expected == ExpectedIds(case)
        IN  /\ IsInjective(expected) =>
                  (result.actual = expected
                   <=> /\ IsZero(rel.false_positive_rate) /\ IsZero(rel.false_negative_rate)
                       /\ IsZero(rel.displacement))
            /\ result.passed =>
                  IsOne(result.intent) /\ IsOne(result.filter) /\ IsOne(result.satisfaction)
            /\ rel.ndcg # Unset => rel.ndcg[1] <= rel.ndcg[2]
            /\ rel.recall # Unset /\ Len(result.actual) <= Call[j[1]].top_k =>
                  rel.recall[1] + rel.false_negative_rate[1] = rel.recall[2]
    /\ \A r \in {r \in Made : Evaluates(r) /\ ~Classified(r)} :
        \A i \in DOMAIN memo[r].results :
            LET rank == memo[r].results[i].relevance.reciprocal_rank
            IN  memo[r].results[i].passed <=> rank # Unset /\ IsOne(rank)
    /\ \A r \in {r \in Made : Call[r].op = "reviewScript"} : \A i \in DOMAIN memo[r].results :
            LET case == Cases(r)[i]
            IN  memo[r].results[i] = "PASS" =>
                    CaseResult(case, Search(Catalogs[Call[r].catalog], case.query, 100, FALSE),
                               100).passed

-----------------------------------------------------------------------------
(* What the run id stands for *)

\* Two results of one case differ by a latency at most.
ButSlow(one, other) ==
    \/ one = other
    \/ /\ "LATENCY_FAILURE" \in {one.failure, other.failure}
       /\ [one EXCEPT !.failure = "", !.passed = FALSE] = [other EXCEPT !.failure = "", !.passed = FALSE]

Evaluations == {r \in Made : Call[r].op = "evaluate" /\ memo[r].results # <<>>}

\* A run id stands for its results: two evaluations of one configuration have the
\* same ones but for latencies, a trace id is published for one result but for
\* latencies, and what an evaluation that ended well has reported is what the
\* artifact holds, unless another one of that run ran at the same time
\* (EvaluationRunner.run, write_run_artifact, LangfuseTraceProvider.start_case).
RunsReproducible ==
    /\ \A r, q \in Evaluations : Config(r) = Config(q) =>
          \A i \in DOMAIN memo[r].results \intersect DOMAIN memo[q].results :
              ButSlow(memo[r].results[i], memo[q].results[i])
    /\ \A t, u \in traces : t.id = u.id => ButSlow(t.result, u.result)
    /\ \A r \in Evaluations : pc[r] = "done" =>
          \/ Whole(Artifact(r)) /\ Content(Artifact(r)).results = memo[r].results
          \/ \E q \in Evaluations : Met(r, q) /\ Config(q) = Config(r)

-----------------------------------------------------------------------------
(* What the pipeline leaves on the disk *)

\* What a published dataset has to do with a source: each case is one of the processed
\* draft, with the same judgments, and each product is in the catalog that it names.
FromSource(published, version) ==
    LET source == Content(Processed(version, "golden-draft.json"))
        catalog == Content(Processed(version, "catalog.json"))
    IN  /\ ValidHash(published)
        /\ ToSet(published.body.cases) \subseteq ToSet(source.body.cases)
        /\ Judgments(published.body.cases) \subseteq catalog.ids
        /\ published.body.source_catalog = catalog

Publishers(path) == {q \in Made : Call[q].op = "sourceValidate" /\ Published(q) = path}
Preparers(version) == {q \in Made : Call[q].op = "prepare" /\ Call[q].version = version}

\* What is published as validated by its source is what the source says, that of the
\* command or of one that published the same dataset at the same time: the draft is read
\* before the source is verified, but nobody replaces it in between unless one
\* preparation fails and another one is made meanwhile
\* (publish_source_validated_dataset).
PublishedFromSource ==
    \A r \in {r \in Made : Call[r].op = "sourceValidate" /\ pc[r] = "done"} :
        Whole(Published(r)) =>
            \E q \in Publishers(Published(r)) :
                /\ q = r \/ Met(q, r)
                /\ \/ FromSource(Content(Published(r)), Call[q].artifact)
                   \/ \E o, p \in Preparers(Call[q].artifact) :
                         o # p /\ Met(o, q) /\ Met(p, q)

\* The commands that write the artifact, the published dataset or the source at path.
WritersOf(path) ==
    {r \in Made :
        \/ r \in Evaluations /\ Artifact(r) = path
        \/ Call[r].op = "sourceValidate" /\ Published(r) = path
        \/ Call[r].op = "download" /\ path[1] = "raw"}
CrowdAt(writers) == \E r, q \in writers : Met(r, q)

\* The commands that write the packet that r creates, an approval among them, and those
\* that leave it as it is.
PacketWriters(r) ==
    {q \in Made : \/ Call[q].op = "reviewCreate" /\ Draft(q) = Draft(r)
                  \/ Call[q].op = "approve" /\ GoldenReview(q) = Review(r)}
Unfinished(q) == Open(q) \/ pc[q] = "crashed" \/ (Call[q].op = "approve" /\ pc[q] = "broken")

\* A name that is written through a temporary file holds a whole file, though
\* commands are killed, unless two of its writers ran at the same time; the two
\* files of a packet are there together and of one draft, unless a command that writes
\* them is still running, was killed or crossed another, or an approval could not write;
\* a processed folder has a report that verifies, unless its command is running or was
\* killed (write_run_artifact, publish_source_validated_dataset, download_source_file,
\* create_review_packet, prepare_esci_subset).
FilesWhole ==
    /\ \A path \in DOMAIN names :
          ~Whole(path) /\ WritersOf(path) # {} => CrowdAt(WritersOf(path))
    /\ \A r \in {r \in Made : Call[r].op = "reviewCreate" /\ ~Given(Draft(r))
                                  /\ ~Given(Review(r))} :
          \/ CrowdAt(PacketWriters(r)) \/ \E q \in PacketWriters(r) : Unfinished(q)
          \/ ~Exists(Draft(r)) /\ ~Exists(Review(r))
          \/ Whole(Draft(r)) /\ Whole(Review(r)) /\ Content(Review(r)).of = Content(Draft(r))
    /\ \A r \in {r \in Made : Call[r].op = "prepare" /\ ~Given(Folder(Call[r].version))} :
          LET version == Call[r].version
          IN  \/ \E q \in Preparers(version) : Open(q) \/ pc[q] = "crashed"
              \/ ~Exists(Folder(version)) /\ FolderFiles(version) = {}
              \/ Exists(Folder(version)) /\ Verified(version)

-----------------------------------------------------------------------------
(* What a worker evaluates *)

\* What the documentation of the worker says of its two paths, that they "reconstruct
\* the exact catalog and dataset versions stored in PostgreSQL": the dataset of a job
\* is the one that was imported (_load_job).  The cases come back by id, not in the
\* order that was hashed.
DatasetsReconstructed ==
    \A r \in Made :
        Call[r].op = "executeJob" /\ memo[r].input # NoFile =>
            memo[r].input = Imported[Call[r].dataset]
=============================================================================
