--------------------------- MODULE EvaluateCommand ---------------------------
(***************************************************************************)
(* The evaluation of a dataset, by the evaluate command and by a worker,   *)
(* and the two scripts that take a golden draft to an approved dataset.    *)
(***************************************************************************)
EXTENDS LocalFiles

\* The runners of the worker are made without a provider of traces; catalog and
\* system are there, and the cutoff is checked.
ASSUME EvaluateAssumption ==
    \A r \in Commands :
        /\ Call[r].op = "executeJob" => Call[r].trace = "noop"
        /\ Call[r].op \in {"evaluate", "executeJob"} =>
              /\ Call[r].catalog \in DOMAIN Catalogs /\ Call[r].system \in DOMAIN ModeOf
              /\ Call[r].top_k \in 1 .. Len(Discount)
        /\ Call[r].op = "reviewScript" => Call[r].catalog \in DOMAIN Catalogs

Cases(r) == memo[r].input.body.cases
Config(r) ==
    RunConfig(memo[r].input, Call[r].catalog, Call[r].system, Call[r].trace, Call[r].top_k,
              Call[r].seed)

Evaluates(r) == Call[r].op \in {"evaluate", "executeJob"}
Classified(r) == Evaluates(r) /\ (Call[r].op = "executeJob" => Call[r].kind = "golden")

\* What the adapter answers, and what the runner makes of it.
Response(r, case, slow) ==
    Served(ModeOf[Call[r].system], Catalogs[Call[r].catalog], case.query, Call[r].top_k, slow)
ResultOf(r, case, slow) ==
    IF Classified(r) THEN CaseResult(case, Response(r, case, slow), Call[r].top_k)
    ELSE SourceCaseResult(case, Response(r, case, slow), Call[r].top_k)

-----------------------------------------------------------------------------
(* evaluate *)

\* The dataset is read and validated.
EvaluateLoad(r) ==
    LET path == Call[r].path
    IN  /\ pc[r] = "load"
        /\ IF /\ Whole(path) /\ HasCases(Content(path))
              /\ validate_golden_dataset(Content(path), Call[r].catalog, TRUE)
           THEN Read(r, "case", [memo[r] EXCEPT !.input = Content(path)])
           ELSE Reject(r)

\* The id of a trace is made of the run and the case.
Trace(r, case, result) == [id |-> <<Config(r), case.id>>, result |-> result]

\* What can be published then: with Langfuse the trace, which is lost without a word
\* when that fails.
Publications(r, trace) ==
    {traces} \union (IF Call[r].trace = "langfuse" THEN {traces \union {trace}} ELSE {})

\* A case is searched and judged.
EvaluateCase(r) ==
    LET case == Cases(r)[Len(memo[r].results) + 1]
        last == Len(memo[r].results) + 1 = Len(Cases(r))
    IN  /\ pc[r] = "case"
        /\ IF ProviderFails(case.query) THEN Reject(r)
           ELSE \E slow \in BOOLEAN :
                  LET result == ResultOf(r, case, slow)
                  IN  /\ Remember(r, [memo[r] EXCEPT !.results = Append(@, result)])
                      /\ traces' \in Publications(r, Trace(r, case, result))
                      /\ Goto(r, IF ~last THEN "case"
                                 ELSE IF Call[r].op = "evaluate" THEN "look" ELSE "written")
                      /\ UNCHANGED <<files, met>>

\* write_run_artifact: a run that is there already is compared, not written.  The
\* evidence of a latency failure has the latency, which a second measurement
\* hardly repeats.
Artifact(r) == <<"runs", Config(r)>>
SameResults(r) ==
    Whole(Artifact(r)) /\ Content(Artifact(r)).results = memo[r].results
LatencyMeasured(r) ==
    /\ ModeOf[Call[r].system] # "latency_regression"
    /\ \E i \in DOMAIN memo[r].results : memo[r].results[i].failure = "LATENCY_FAILURE"
Look(r) ==
    /\ pc[r] = "look"
    /\ \/ /\ ~Exists(Artifact(r))
          /\ ToWrite(r, << <<Temporary(Artifact(r)), [results |-> memo[r].results]>> >>)
       \/ SameResults(r) /\ End(r, "done", names)
       \/ Exists(Artifact(r)) /\ (~SameResults(r) \/ LatencyMeasured(r)) /\ Reject(r)

\* Nobody expects the temporary file to be gone.
ReplaceArtifact(r) ==
    /\ pc[r] = "replace" /\ Call[r].op = "evaluate"
    /\ IF Exists(Temporary(Artifact(r))) THEN End(r, "done", Moved(Artifact(r)))
       ELSE End(r, "broken", names)

-----------------------------------------------------------------------------
(* execute_job: the dataset is put together from its rows, and the artifact *)
(* goes to a directory of the job's own.                                    *)

Reconstructed(dataset) ==
    [dataset EXCEPT !.body.cases = SortSeq(@, LAMBDA a, b : a.id < b.id)]

\* The payload of each row has to be a case.
LoadJob(r) ==
    LET dataset == Reconstructed(Imported[Call[r].dataset])
    IN  /\ pc[r] = "loadJob"
        /\ IF IF Classified(r) THEN HasCases(dataset) ELSE SourceCases(dataset)
           THEN Read(r, "checkJob", [memo[r] EXCEPT !.input = dataset])
           ELSE Reject(r)

\* Only the runner of golden datasets validates what it is given; the other one takes
\* a dataset without cases, of which there are no results.
CheckJob(r) ==
    /\ pc[r] = "checkJob"
    /\ IF Classified(r) => validate_golden_dataset(memo[r].input, Call[r].catalog, TRUE)
       THEN Skip(r, IF Cases(r) = <<>> THEN "written" ELSE "case")
       ELSE Reject(r)

-----------------------------------------------------------------------------
(* review_golden_v1.py and approve_golden_v1.py *)

GoldenDraft(r) == <<"goldens", Call[r].version, "draft">>
GoldenJson(r) == <<"goldens", Call[r].version, "json">>
GoldenReview(r) == <<"goldens", Call[r].version, "review">>

\* The verdict on each case; a FAIL fails the script.
ReviewGolden(r) ==
    LET draft == Content(GoldenDraft(r))
        verdicts == [i \in DOMAIN draft.body.cases |->
                        ReviewVerdict(draft.body.cases[i], Call[r].catalog)]
    IN  /\ pc[r] = "review"
        /\ IF /\ Whole(GoldenDraft(r)) /\ HasCases(draft)
              /\ validate_golden_dataset(draft, Call[r].catalog, FALSE)
              /\ \A i \in DOMAIN draft.body.cases : ~ProviderFails(draft.body.cases[i].query)
           THEN Read(r, IF "FAIL" \in ToSet(verdicts) THEN "error" ELSE "done",
                     [memo[r] EXCEPT !.input = draft, !.results = verdicts])
           ELSE Reject(r)

Approved(draft) ==
    Sealed([draft.body EXCEPT !.approved = TRUE,
                              !.cases = [i \in DOMAIN @ |-> [@[i] EXCEPT !.approved = TRUE]]])

\* Whatever the draft says is approved, over what was approved before.
ApproveGolden(r) ==
    /\ pc[r] = "approve"
    /\ IF Whole(GoldenDraft(r)) /\ HasCases(Content(GoldenDraft(r)))
       THEN ToWrite(r, << <<GoldenJson(r), Approved(Content(GoldenDraft(r)))>> >>)
       ELSE Reject(r)

\* The document gets its ticks and one more approval; a truncated one stays so.
RecordApproval(r) ==
    LET review == GoldenReview(r)
    IN  /\ pc[r] = "readReview"
        /\ CASE ~Exists(review) -> Reject(r)
             [] Exists(review) /\ ~Whole(review) ->
                  ToWrite(r, << <<review, [of |-> NoFile, approvals |-> 1]>> >>)
             [] Whole(review) ->
                  ToWrite(r, << <<review, [Content(review) EXCEPT !.approvals = @ + 1]>> >>)

EvaluateStep(r) ==
    \/ EvaluateLoad(r) \/ EvaluateCase(r) \/ Look(r) \/ ReplaceArtifact(r)
    \/ LoadJob(r) \/ CheckJob(r)
    \/ ReviewGolden(r) \/ ApproveGolden(r) \/ RecordApproval(r)
=============================================================================
